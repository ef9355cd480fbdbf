SPECIFICATION Spec
CONSTANTS
    Handlers = {h1, h2}
    MaxInstances = 3
SYMMETRY Symmetry
INVARIANTS FieldsTellInstance ApprovedWasApproved

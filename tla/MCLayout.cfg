SPECIFICATION CanvasSpec
CONSTANTS
  COLUMN_COUNT = 2
  MIN_ROW_COUNT = 1
  MaxRow = 3
  MaxPlaced = 3
  MaxSame = 2
  MaxKept = 2
  Root = Root
  FieldIds = {f1, f2, f3, f4}
  Types = {"singleLineText", "groupContainer", "richText"}
SYMMETRY Symmetry
VIEW View
INVARIANTS NoOverlap OpensAgain
PROPERTIES GroupsMoveWhole EscapesOnlyWhenGrown

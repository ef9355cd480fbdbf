SPECIFICATION Spec
CONSTANTS
    n1 = n1  n2 = n2  n3 = n3  n4 = n4  n5 = n5  u1 = u1  u2 = u2
    Nodes <- FlowNodes
    Start = n1
    NoNode = NoNode
    Kind <- FlowKind
    Edges <- FlowEdges
    Rank <- FlowRank
    Users = {u1, u2}
    Assignees <- FlowPeople
    AnyMode = {n2}
    Policy = "inline"
    HasInstance = TRUE
    Drivers = {d1, d2}
    NoDriver = NoDriver
    MayFail = {n5}
    MaxTokens = 3
    MaxDisruptions = 1
    MaxRetries = 0
    MaxPauses = 1
SYMMETRY Symmetry
CHECK_DEADLOCK FALSE
INVARIANTS InstanceAgrees TasksMatchTokens EndedIsQuiet
PROPERTIES PausedStartsNothing

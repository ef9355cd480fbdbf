SPECIFICATION Spec
CONSTANTS
    n1 = n1  n2 = n2  n3 = n3  n4 = n4  n5 = n5  u1 = u1  u2 = u2
    Nodes <- CallNodes
    Start = n1
    NoNode = NoNode
    Kind <- CallKind
    Edges <- CallEdges
    Rank <- CallRank
    Users = {u1}
    Assignees <- CallPeople
    AnyMode = {}
    Policy = "inline"
    HasInstance = TRUE
    Drivers = {d1, d2}
    NoDriver = NoDriver
    MayFail = {n4}
    MaxTokens = 3
    MaxDisruptions = 0
    MaxRetries = 0
    MaxPauses = 0
CHECK_DEADLOCK FALSE
INVARIANTS WaitingNeedsPeople

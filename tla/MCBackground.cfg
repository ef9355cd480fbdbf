SPECIFICATION FairSpec
CONSTANTS
    n1 = n1  n2 = n2  n3 = n3  n4 = n4  n5 = n5  u1 = u1  u2 = u2
    Nodes <- FanNodes
    Start = n1
    NoNode = NoNode
    Kind <- FanKind
    Edges <- FanEdges
    Rank <- FanRank
    Users = {u1}
    Assignees <- NoPeople
    AnyMode = {}
    Policy = "background"
    HasInstance = FALSE
    Drivers = {d1, d2}
    NoDriver = NoDriver
    MayFail = {n2, n3}
    MaxTokens = 3
    MaxDisruptions = 2
    MaxRetries = 1
    MaxPauses = 0
CHECK_DEADLOCK FALSE
INVARIANTS AtMostOnceEffect SuccessIsComplete OneBranchAtATime
PROPERTIES ImplementsLifecycle RunRests

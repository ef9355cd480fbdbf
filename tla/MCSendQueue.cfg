SPECIFICATION Spec
CONSTANTS
    me = me  ann = ann  bob = bob
    Users = {me, ann, bob}
    Me = me
    NoUser = NoUser
    Handlers = {h1, h2}
    Tabs = {t1, t2}
    NoCall = NoCall
    MaxWork = 3
    MaxFaults = 1
SYMMETRY Symmetry
CHECK_DEADLOCK FALSE
INVARIANTS SentOnce InQueueOrder QueueIsLookedAfter RecallsAreTold OneOwnerUnlessContested

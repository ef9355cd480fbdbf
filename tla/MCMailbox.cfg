SPECIFICATION FairSpec
CONSTANTS
    Tabs = {t1}
    MaxEvents = 2
    MaxBroken = 1
    MaxFaults = 1
CHECK_DEADLOCK FALSE
INVARIANTS NothingSkipped SnapshotUnlessBroken
PROPERTIES ImplementsFeed Delivered

SPECIFICATION Spec
CONSTANTS
    Tabs = {t1}
    MaxEvents = 1
    MaxBroken = 1
    MaxFaults = 0
CHECK_DEADLOCK FALSE
INVARIANT SnapshotIsComplete

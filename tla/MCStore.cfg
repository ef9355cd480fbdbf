SPECIFICATION StoreSpec
CONSTANTS
    Records = {r1, r2, r3}
    Keys = {k1}
    Blank = Blank
    StoreHandlers = {h1, h2}
    MaxEntries = 2
SYMMETRY Symmetry
INVARIANTS UniqueUnlessRestored NeverOvercounts RecoverableOnce
CHECK_DEADLOCK FALSE

SPECIFICATION FairSpec
CONSTANTS
    Threads = {t1, t2}
    NoThread = NoThread
    Versions = {"2.27", "2.32"}
INVARIANTS SignalsRight ChildCollected MaskRestored227
PROPERTIES CallEnds
CHECK_DEADLOCK FALSE

SPECIFICATION FairFrameSpec
CONSTANTS
    SemUndo = FALSE
    SEMAEM = 2
    SEMVMX = 2
    MaxGen = 3
    Mortal = {"producer", "consumer"}
INVARIANTS FrameExclusive
PROPERTIES Handover FrameFreed
CHECK_DEADLOCK FALSE

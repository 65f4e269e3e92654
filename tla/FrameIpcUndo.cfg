SPECIFICATION FrameSpec
CONSTANTS
    SemUndo = TRUE
    SEMAEM = 2
    SEMVMX = 3
    MaxGen = 1
    Mortal = {}
INVARIANT FrameExclusive
CHECK_DEADLOCK FALSE

SPECIFICATION FairSpec
CONSTANTS
    Streams = {"stdin", "stdout", "stderr"}
    PipeSize = 1
    MaxOut = 2
INVARIANTS Reported NothingLeftBehind OwnEndsOnly OutputComplete
PROPERTY SpawnReturns
CHECK_DEADLOCK FALSE

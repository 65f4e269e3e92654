SPECIFICATION FairSpec
CONSTANTS
    Stack = {s1, u1}
    UserStack = {u1}
    Main = main
    NULL = NULL
INVARIANTS UniqueOwner NoUseAfterFree ThreadCount
PROPERTIES PoolSpec DetachedReclaimed JoinReturns CreateReturns
CHECK_DEADLOCK FALSE

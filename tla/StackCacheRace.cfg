SPECIFICATION Spec
CONSTANTS
    Stack = {s1, s2, u1}
    UserStack = {u1}
    Creator = {c1, c2}
    Request <- RaceRequests
    CacheMax = 4
    NULL = NULL
SYMMETRY Symmetry
INVARIANTS MappedListed ExecEverywhere
PROPERTIES PoolSpec
CHECK_DEADLOCK FALSE

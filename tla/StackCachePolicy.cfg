SPECIFICATION Spec
CONSTANTS
    Stack = {s1, s2, s3}
    UserStack = {}
    Creator = {c1}
    Request <- PolicyRequests
    CacheMax = 6
    NULL = NULL
SYMMETRY Symmetry
INVARIANT CacheConsistent
PROPERTIES StackFits TrimPolicy
CHECK_DEADLOCK FALSE

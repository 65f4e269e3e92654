CONSTANTS
  Block = {m, a, b, c}
  User = {m, c}
  Main = m
  NULL = NULL
  MaxCache = 1
  SizeMod = 8
  MaxForks = 2
SPECIFICATION Spec
INVARIANTS ListsSound StacksKept CacheAccounted
SYMMETRY Symmetry
CHECK_DEADLOCK FALSE

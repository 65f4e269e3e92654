CONSTANTS
  Block = {m, a, b, c}
  User = {m, c}
  Main = m
  NULL = NULL
  MaxCache = 1
  SizeMod = 8
  MaxForks = 2
SPECIFICATION Spec
PROPERTY AllRecycled
SYMMETRY Symmetry
CHECK_DEADLOCK FALSE

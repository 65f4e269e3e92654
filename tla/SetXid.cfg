CONSTANTS
  Thread = {m, a, b}
  Main = m
  NULL = NULL
  Creators = {m}
  Callers = {a}
SPECIFICATION FairSpec
INVARIANTS SameIds AnswersCounted
PROPERTIES SetxidReturns ExitNotHeld
CHECK_DEADLOCK FALSE

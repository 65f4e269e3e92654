CONSTANTS
  Obj = {1, 2, 3, 4, 5, 6}
  NULL = NULL
  MaxMsg = 1
  MsPerSec = 2
  NsPerMs = 2
  MaxTimeout = 2
  Clock = {1, 2, 3}
  MaxFaults = 2
SPECIFICATION FairSpec
INVARIANTS SocketsConnected QueueNamed DeadlineExact
PROPERTY ServerRecovers
CHECK_DEADLOCK FALSE

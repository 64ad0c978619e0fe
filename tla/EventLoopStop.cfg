\* One peer is enough: the stop signal races with epoll_wait.
SPECIFICATION FairSpec
CONSTANTS
  c1 = c1
  c2 = c2
  c3 = c3
  Clients <- MCClient
  MaxClients = 1
  BufCap = 1
  RequestLimit = 1
  MaxEvents = 2
  RespLens <- MCOne
  SndBuf = 1
  MaxUnits = 1
  MaxFaults = 0
  None = None
\* An idle server waits in epoll_wait, and a stopped one has ended.
CHECK_DEADLOCK FALSE
PROPERTIES
  StopTerminates

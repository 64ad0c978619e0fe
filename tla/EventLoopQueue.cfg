\* Two peers for one slot.
SPECIFICATION FairSpec
CONSTANTS
  c1 = c1
  c2 = c2
  c3 = c3
  Clients <- MCClients
  MaxClients = 1
  BufCap = 1
  RequestLimit = 1
  MaxEvents = 2
  RespLens <- MCOne
  SndBuf = 1
  MaxUnits = 1
  MaxFaults = 1
  None = None
\* An idle server waits in epoll_wait, and a stopped one has ended.
CHECK_DEADLOCK FALSE
PROPERTIES
  QueueServed StopCompletes

\* Three peers compete for two slots; a round has room for two events, and one
\* system call of the loop fails.
SPECIFICATION Spec
CONSTANTS
  c1 = c1
  c2 = c2
  c3 = c3
  Clients <- MCThreeClients
  MaxClients = 2
  BufCap = 1
  RequestLimit = 1
  MaxEvents = 2
  RespLens <- MCOne
  SndBuf = 1
  MaxUnits = 1
  MaxFaults = 1
  None = None
SYMMETRY Symmetry
\* An idle server waits in epoll_wait, and a stopped one has ended.
CHECK_DEADLOCK FALSE
INVARIANTS
  SlotOwnership NoStaleEvent EpollAgrees NoLostWakeup
PROPERTIES
  ImplementsService

\* One connection, long enough for several requests, a full buffer and responses
\* longer than the send queue, with a failing system call.
SPECIFICATION FairSpec
CONSTANTS
  c1 = c1
  c2 = c2
  c3 = c3
  Clients <- MCClient
  MaxClients = 1
  BufCap = 2
  RequestLimit = 4
  MaxEvents = 2
  RespLens <- MCOneOrThree
  SndBuf = 2
  MaxUnits = 4
  MaxFaults = 1
  None = None
\* An idle server waits in epoll_wait, and a stopped one has ended.
CHECK_DEADLOCK FALSE
INVARIANTS
  TypeOK NoForgottenRequest AnswersDistinctHeads ResponsesInOrder
PROPERTIES
  NoTruncatedResponse DropsOnlyForCause InputConsumed ResponseCompleted

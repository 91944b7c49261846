CONSTANTS
  a1 = a1
  a2 = a2
  main = main
  Worker = worker
  NoDatagram = NoDatagram
  NoRequest = NoRequest
  Apps = {a1}
  Controllers = {main}
  Datagrams <- Traffic
  SocketRoom = 2
  FdLoads = "once"
  Requests <- Asks
  QueueSize = 1
SPECIFICATION FairSpec
CHECK_DEADLOCK FALSE
INVARIANTS
  OnlyAnAnswerHoldsStop
PROPERTIES
  WorkerServes
  StopReturns
  ReceiversReleased

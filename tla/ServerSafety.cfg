CONSTANTS
  a1 = a1
  a2 = a2
  main = main
  Worker = worker
  NoDatagram = NoDatagram
  NoRequest = NoRequest
  Apps = {a1}
  Controllers = {main}
  Datagrams <- BadTraffic
  SocketRoom = 2
  FdLoads = "twice"
  Requests <- Asks
  QueueSize = 2
SPECIFICATION Spec
CHECK_DEADLOCK FALSE
INVARIANTS
  TypeOK
  NothingLostWhileOpen
  ArrivalOrder
  JoinedAndClosed
PROPERTIES
  ImplementsServer

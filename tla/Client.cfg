CONSTANTS
  User = user
  Server <- TheServer
  Stranger <- Somebody
  Transports = {"unix", "udp"}
  Calls <- AllCalls
  NoCall = NoCall
  SocketRoom = 2
  ServerRoom = 1
  MaxRequests = 2
  NoDatagram = NoDatagram
SPECIFICATION FairSpec
CHECK_DEADLOCK FALSE
INVARIANTS
  HeldOnlyWithoutTimeout
  AnswersInOrder
  StaleOnlyAfterTimeout
PROPERTIES
  ImplementsClientCalls
  TimedWaitReturns
  TimedConnectReturns

CONSTANTS
  Receivers = {t1}
  Datagrams <- Traffic
  Repeatable <- Flood
  SocketRoom = 2
  NoDatagram = NoDatagram
  NoRequest = NoRequest
  Requests <- Asks
SPECIFICATION FairSpec
CHECK_DEADLOCK FALSE
INVARIANTS
  EachTakenOnce
  NothingMeansTimeIsUp
  HeldOnlyWithoutTimeout
PROPERTIES
  ImplementsSelectiveReceive
  TimedReceiveReturns

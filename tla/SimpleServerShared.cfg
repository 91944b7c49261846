CONSTANTS
  Receivers = {t1, t2}
  Datagrams <- Sizes
  Repeatable = {}
  SocketRoom = 2
  NoDatagram = NoDatagram
  NoRequest = NoRequest
  Requests <- Anything
SPECIFICATION Spec
CHECK_DEADLOCK FALSE
INVARIANTS
  ReceivedWhole

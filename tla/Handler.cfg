CONSTANTS
  l1 = l1
  l2 = l2
  User = user
  NoMessage = NoMessage
  NoRequest = NoRequest
  Loopers = {l1, l2}
  Messages <- Traffic
  Requests <- Asks
  Numbers <- Registered
  QueueSize = 2
SPECIFICATION FairSpec
CHECK_DEADLOCK FALSE
INVARIANTS
  NothingUsesADyingServer
  ThreadObjectUsedByOne
  AtMostOneAfterStop
PROPERTIES
  UnownedServerIsDestroyed
  StopAndDestructorsReturn

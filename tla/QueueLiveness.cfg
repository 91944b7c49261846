CONSTANTS
  worker = worker
  user = user
  r1 = r1
  r2 = r2
  closer = closer
  NoThread = NoThread
  NoMessage = NoMessage
  NoRequest = NoRequest
  Adders = {worker}
  Getters = {r1, r2}
  Closers = {closer}
  Messages <- TwoMessages
  Requests <- Blocking
  MaxSize = 2
SPECIFICATION FairSpec
CHECK_DEADLOCK FALSE
PROPERTIES
  ImplementsMailbox
  TimedGetReturns

CONSTANTS
  worker = worker
  user = user
  r1 = r1
  r2 = r2
  closer = closer
  NoThread = NoThread
  NoMessage = NoMessage
  NoRequest = NoRequest
  Adders = {worker}
  Getters = {r1, r2}
  Closers = {closer}
  Messages <- ThreeMessages
  Requests <- AllTimeouts
  MaxSize = 2
SPECIFICATION Spec
SYMMETRY Symmetry
CHECK_DEADLOCK FALSE
INVARIANTS
  TypeOK
  EventsMirrorQueue
  NoLostWakeup
  ExactlyOnce
  OldestMatchFirst

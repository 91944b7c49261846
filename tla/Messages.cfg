\* Every message, buffer and pair of hosts.
CONSTANTS
  Byte <- Bytes
  Messages <- AllMessages
  TSize = 3
  SizeLimit = 16
  MaxRoom = 15
  Junk <- JunkBytes
  NoMessage = NoMessage

SPECIFICATION Spec

INVARIANTS
  ReturnsWhatItWrote
  SameMessageOnEveryHost
  ValueOnEveryHost

CONSTANTS
  e1 = e1
  e2 = e2
  Stranger = stranger
  Nobody = nobody
  Endpoints = {e1, e2}
  Requests <- Asked
  Descriptors <- Numbers
SPECIFICATION Spec
INVARIANTS
  TypeOK
  NothingLeaks
  MembersAreOwn
  ReturnedIsComplete
PROPERTIES
  OnlyTheOwnerCloses

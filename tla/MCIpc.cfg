SPECIFICATION FairSpec
CONSTANTS
  c1 = c1
  c2 = c2
  Clients = {c1, c2}
  Server = Server
  Free = Free
  NumSlots = 3
  QueueLen = 1
  Garbage = {0, 1}
  FreshIds = TRUE
  MaxCalls = 3
  MaxCrashes = 1
INVARIANT
  TypeOK
  SlotIsHeld
  ServerIsFound
  ReplyIsOwn
PROPERTY
  ImplementsRemoteCall
  CallEnds
CHECK_DEADLOCK FALSE

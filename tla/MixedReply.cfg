SPECIFICATION Spec
CONSTANTS
  c1 = c1
  c2 = c2
  Clients = {c1, c2}
  Server = Server
  Free = Free
  NumSlots = 3
  QueueLen = 1
  Garbage = {0}
  FreshIds = FALSE
  MaxCalls = 2
  MaxCrashes = 0
INVARIANT
  ReplyIsOwn
CHECK_DEADLOCK FALSE

SPECIFICATION UsersSpec
CONSTANTS
  Producers = {p1, p2}
  Consumers = {c1, c2}
  Mbufs = {m1, m2, m3, m4}
  Null = Null
  Size = 4
  Wrap = 8
  MaxLag = 1
  SpEnq = FALSE
  ScDeq = FALSE
  MaxDeaths = 1
SYMMETRY Symmetry
INVARIANT
  UsersTypeOK
  IndexOrder
  BufferHasOneOwner
  NoLeak
PROPERTY
  ImplementsQueue
CHECK_DEADLOCK FALSE

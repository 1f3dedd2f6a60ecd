SPECIFICATION FairSpec
CONSTANTS
  ring1 = ring1
  ring2 = ring2
  Disp = Disp
  Producers = {p1}
  Consumers = {c1, Disp}
  Mbufs = {m1, m2}
  Null = Null
  Size = 2
  Wrap = 4
  MaxLag = 1
  SpEnq = TRUE
  ScDeq = FALSE
  Elements = {ring1, ring2}
  Nil = Nil
  RingConf <- Rings2
  Shared = ring1
  Ifs <- DispIfs
  NoName = NoName
  MaxDeaths = 2
INVARIANT
  TypeOK
  RingsExist
  RingsAreConf
  FlushLosesNothing
  BufferHasOneOwner
PROPERTY
  Boots
CHECK_DEADLOCK FALSE

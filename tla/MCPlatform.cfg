SPECIFICATION Spec
CONSTANTS
  app = app
  disp = disp
  p1 = p1
  p2 = p2
  p3 = p3
  c1 = c1
  Rules <- PlatformRules
  ActiveRules <- PlatformActive
  Conf <- PlatformConf
  Procs = {p1, p2}
  Clients = {c1}
  Tick = 1
  ProcTick = 2
  StartingTm = 1
  KillTm = 1
  Budget = 1
  MaxReqs = 2
  ForkMayFail = FALSE
  SignalWindow = TRUE
  NoRule = NoRule
  NoProc = NoProc
  NoClient = NoClient
INVARIANT
  TypeOK
  SpawnedInSameTurn
  ListIsExact
  TimerObjIsUnique

SPECIFICATION Spec
CONSTANTS
  job = job
  rescue = rescue
  sync = sync
  lost = lost
  p1 = p1
  p2 = p2
  Rules <- JobRules
  ActiveRules <- JobActive
  Conf <- JobConf
  Procs = {p1, p2}
  Clients = {}
  Tick = 1
  ProcTick = 2
  StartingTm = 0
  KillTm = 1
  Budget = 1
  MaxReqs = 1
  ForkMayFail = TRUE
  SignalWindow = TRUE
  NoRule = NoRule
  NoProc = NoProc
  NoClient = NoClient
INVARIANT
  PointerInv
  ActiveIsQueued
  RunningChildIsTracked
PROPERTY
  ExitIsSeen

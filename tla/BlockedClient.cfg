SPECIFICATION Spec
CONSTANTS
  app = app
  p1 = p1
  p2 = p2
  p3 = p3
  c1 = c1
  Rules = {app}
  ActiveRules <- DaemonActive
  Conf <- DaemonConf
  Procs = {p1, p2, p3}
  Clients = {c1}
  Tick = 1
  ProcTick = 2
  StartingTm = 1
  KillTm = 1
  Budget = 1
  MaxReqs = 3
  ForkMayFail = FALSE
  SignalWindow = FALSE
  NoRule = NoRule
  NoProc = NoProc
  NoClient = NoClient
INVARIANT
  BlockedClientIsAnswered

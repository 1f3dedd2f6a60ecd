----------------------------- MODULE MCPlatform -----------------------------
(***************************************************************************)
(* The supervisor with the rules of config/system.pcd: the application     *)
(* manager, and the dispatcher that starts when the manager's rule is      *)
(* completed.  Delays are counted in turns.                                *)
(***************************************************************************)
EXTENDS Pcd, TLC

CONSTANTS app, disp, p1, p2, p3, c1

PlatformRules == {app, disp}
PlatformActive == <<app, disp>>

Daemon == [start |-> "NONE", deps |-> <<>>, pseudo |-> FALSE, daemon |-> TRUE,
           end |-> "WAIT", delay |-> 1, timeout |-> Forever,
           action |-> "RESTART", exec |-> NoRule, active |-> TRUE]

PlatformConf ==
  (app :> Daemon) @@
  (disp :> [Daemon EXCEPT !.start = "RULE_COMPLETED", !.deps = <<app>>,
                          !.end = "PROCESS_READY", !.delay = 0])

ASSUME PlatformIsPlain == PlainRules
=============================================================================

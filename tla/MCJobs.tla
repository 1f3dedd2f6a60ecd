------------------------------- MODULE MCJobs -------------------------------
(***************************************************************************)
(* The supervisor with one rule of each other kind: a job that must exit   *)
(* with a given status in time and is rescued by another rule when it does *)
(* not; the rescue, a daemon whose end reboots the system; a rule without  *)
(* a command that waits for the rescue; and a rule that waits for a rule   *)
(* the database does not have.                                             *)
(***************************************************************************)
EXTENDS Pcd, TLC

CONSTANTS job, rescue, sync, lost, p1, p2

JobRules == {job, rescue, sync, lost}
JobActive == <<job, lost, sync>>

Job == [start |-> "NONE", deps |-> <<>>, pseudo |-> FALSE, daemon |-> FALSE,
        end |-> "EXIT", delay |-> 0, timeout |-> 1,
        action |-> "EXEC_RULE", exec |-> rescue, active |-> TRUE]

JobConf ==
  (job :> Job) @@
  (rescue :> [Job EXCEPT !.start = "EXTERNAL", !.daemon = TRUE, !.end = "NONE",
                         !.timeout = Forever, !.action = "REBOOT",
                         !.exec = NoRule, !.active = FALSE]) @@
  (sync :> [Job EXCEPT !.start = "RULE_COMPLETED", !.deps = <<rescue>>,
                       !.pseudo = TRUE, !.end = "EXTERNAL", !.timeout = 2,
                       !.action = "NONE", !.exec = NoRule]) @@
  (lost :> [Job EXCEPT !.start = "RULE_COMPLETED", !.deps = <<job, NoRule>>,
                       !.action = "RESTART", !.exec = NoRule])
=============================================================================

------------------------------ MODULE MCDaemon ------------------------------
(***************************************************************************)
(* One daemon that is restarted when it ends, and a client that stops and  *)
(* starts it again, so that several of its processes are on the process    *)
(* list at the same time, each further on its way out than the next.       *)
(***************************************************************************)
EXTENDS Pcd, TLC

CONSTANTS app, p1, p2, p3, c1

DaemonConf ==
  app :> [start |-> "NONE", deps |-> <<>>, pseudo |-> FALSE, daemon |-> TRUE,
          end |-> "WAIT", delay |-> 1, timeout |-> Forever,
          action |-> "RESTART", exec |-> NoRule, active |-> TRUE]

\* The same daemon, which says itself when it is ready
ReadyConf == [DaemonConf EXCEPT ![app].end = "PROCESS_READY"]

DaemonActive == <<app>>
=============================================================================

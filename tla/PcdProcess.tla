----------------------------- MODULE PcdProcess -----------------------------
(***************************************************************************)
(* process.c: the two passes over the process list (PCD_process_           *)
(* iterate_start and PCD_process_iterate_stop), the SIGCHLD handler, and   *)
(* the children as the supervisor sees them.  A pass is one step per       *)
(* object, newest first, so that SIGCHLD may arrive between two objects.   *)
(***************************************************************************)
EXTENDS PcdState

\* The pass called name reaches an object in one of the states s
Reach(name, s) ==
  /\ pc = name
  /\ procTodo # <<>>
  /\ proc[Head(procTodo)].state \in s

Advance == procTodo' = Tail(procTodo)

ownRules == <<ruleVars, timerVars>>

-----------------------------------------------------------------------------
(***************************************************************************)
(* PCD_process_iterate_start                                               *)
(***************************************************************************)

\* PCD_process_spawn; SIGCHLD is blocked from fork to the end of the update
Spawn ==
  /\ Reach("start", {"RUNME"})
  /\ LET p == Head(procTodo)
     IN  /\ proc' = [proc EXCEPT ![p].state = "STARTING", ![p].tm = StartingTm]
         /\ \/ os' = [os EXCEPT ![p] = "running"]
            \/ ForkMayFail /\ os' = [os EXCEPT ![p] = "nofork"]
  /\ Advance
  /\ UNCHANGED <<ownRules, procList, envVars, loopVars>>

StartingWaits ==
  /\ Reach("start", {"STARTING"})
  /\ LET p == Head(procTodo)
     IN  /\ proc[p].tm # 0
         /\ proc' = [proc EXCEPT ![p].tm = @ - 1]
  /\ Advance
  /\ UNCHANGED <<ownRules, procList, os, envVars, loopVars>>

Started ==
  /\ Reach("start", {"STARTING"})
  /\ LET p == Head(procTodo)
     IN  /\ proc[p].tm = 0
         /\ proc' = [proc EXCEPT ![p].state = "RUNNING"]
  /\ Advance
  /\ UNCHANGED <<ownRules, procList, os, envVars, loopVars>>

\* The same, with SIGCHLD between the switch on p->state and the assignment:
\* the handler's STOPPING is overwritten
StartedRaced ==
  /\ SignalWindow
  /\ Reach("start", {"STARTING"})
  /\ LET p == Head(procTodo)
     IN  /\ proc[p].tm = 0
         /\ os[p] \in Ends
         /\ proc' = [proc EXCEPT ![p].state = "RUNNING", ![p].retstat = os[p]]
         /\ os' = [os EXCEPT ![p] = "reaped"]
  /\ Advance
  /\ UNCHANGED <<ownRules, procList, envVars, loopVars>>

StartSkips ==
  /\ Reach("start", ProcStates \ {"RUNME", "STARTING"})
  /\ Advance
  /\ UNCHANGED <<ownRules, procList, proc, os, envVars, loopVars>>

StartPassDone ==
  /\ pc = "start"
  /\ procTodo = <<>>
  /\ pc' = "stop"
  /\ procTodo' = procList
  /\ UNCHANGED <<ownRules, procList, proc, os, envVars, tickCounter>>

-----------------------------------------------------------------------------
(***************************************************************************)
(* PCD_process_iterate_stop                                                *)
(***************************************************************************)

\* The child has exited, or PCD is quitting: deal with it in the next pass
MarkStopped ==
  /\ Reach("stop", {"STOPPING", "RUNME"})
  /\ proc' = [proc EXCEPT ![Head(procTodo)].state = "STOPPED"]
  /\ Advance
  /\ UNCHANGED <<ownRules, procList, os, envVars, loopVars>>

\* Mutant: the rule is disconnected whatever process it points at
DisconnectMut(p) == [ruleProc EXCEPT ![proc[p].rule] = NoProc]

\* "Disconnect from rule"
Disconnect(p) ==
  [q \in Rules |-> IF q = proc[p].rule /\ ruleProc[q] = p THEN NoProc
                                                          ELSE ruleProc[q]]

\* The object is unlinked and freed; what is left of its child is not
FreeOs(p) ==
  os' = IF os[p] \in {"none", "nofork", "reaped"}
        THEN [os EXCEPT ![p] = "none"] ELSE os

\* Mutant: the head of the list is unlinked
UnlinkMut(p) == Tail(procList)

\* NODE_DEL
Unlink(p) == RemoveFirst(procList, p)

\* Mutant: a daemon that dies of a signal is not restarted
UnexpectedMut(p) ==
  /\ ~proc[p].signaled
  /\ \/ proc[p].retstat = "other"
     \/ proc[p].retstat = "expected" /\ Conf[proc[p].rule].daemon

\* The child ended on its own in a way that calls for the failure action
Unexpected(p) ==
  /\ ~proc[p].signaled
  /\ \/ proc[p].retstat = "other"
     \/ proc[p].retstat # "NOTHING" /\ Conf[proc[p].rule].daemon

\* PCD_api_reply_message on the cookie of an object that PCD has signaled
Reply(p) ==
  waiting' = IF proc[p].signaled /\ proc[p].retstat # "NOTHING"
             THEN waiting \ {proc[p].cookie} ELSE waiting

\* The end of a child that needs no failure action
Reap ==
  /\ Reach("stop", {"STOPPED"})
  /\ LET p == Head(procTodo)
     IN  /\ ~Unexpected(p)
         /\ ruleProc' = Disconnect(p)
         /\ Reply(p)
         /\ proc' = [proc EXCEPT ![p] = FreeObj]
         /\ procList' = Unlink(p)
         /\ FreeOs(p)
  /\ Advance
  /\ UNCHANGED <<ruleState, delay, ready, timerVars, readyMsgs, reqs, budget,
                 loopVars>>

\* Mutant: the failure action does not kill the process of the rule it restarts
TriggerModeMut(r, next) ==
  [q \in Rules |-> IF q = r /\ Queued(r) THEN "TERMME" ELSE "KEEP"]

\* How PCD_process_trigger_action stops processes: PCD_timer_dequeue_rule gently
\* that of the failed rule, PCD_failure_action_RESTART brutally that of the rule
\* to be enqueued
TriggerMode(r, next) ==
  [q \in Rules |-> IF q = r /\ Queued(r) THEN "TERMME"
                   ELSE IF q = next THEN "KILLME" ELSE "KEEP"]

(***************************************************************************)
(* PCD_process_trigger_action: PCD_timer_dequeue_rule with failed set, the *)
(* failure action, and PCD_timer_enqueue_rule for the rule it returned.    *)
(* When that is refused the pass does not move on: it visits the same      *)
(* object again.                                                           *)
(***************************************************************************)
ReapUnexpected ==
  /\ Reach("stop", {"STOPPED"})
  /\ LET p == Head(procTodo)
         r == proc[p].rule
         conn == Disconnect(p)
         states == IF Queued(r) THEN [ruleState EXCEPT ![r] = "FAILED"]
                                ELSE ruleState
         next == FailureTarget(r, states)
         mode == TriggerMode(r, next)
         conn2 == StopConn(conn, mode)
         procs2 == StopProcs(conn, mode, NoClient)
         queue == Dequeue(r)
         refused == next # NoRule
                    /\ (Active(states[next]) \/ conn2[next] # NoProc)
     IN  /\ Unexpected(p)
         /\ ruleProc' = conn2
         /\ IF refused
            THEN /\ ruleState' = states
                 /\ timerQ' = queue
                 /\ proc' = procs2
                 /\ UNCHANGED <<procList, procTodo, os>>
            ELSE /\ ruleState' = [q \in Rules |-> IF q = next
                                    THEN "START_WAITING" ELSE states[q]]
                 /\ timerQ' = IF next = NoRule THEN queue
                              ELSE Enqueue(queue, next)
                 /\ proc' = [procs2 EXCEPT ![p] = FreeObj]
                 /\ procList' = Unlink(p)
                 /\ FreeOs(p)
                 /\ Advance
         /\ pc' = IF Reboots(r) THEN "down" ELSE pc
  /\ UNCHANGED <<delay, ready, timerTodo, enqueueList, procFlag, envVars,
                 tickCounter>>

\* Mutant: only the head of the list is looked at
SomeKillmeMut == procList # <<>> /\ proc[Head(procList)].state = "KILLME"

\* PCD_process_find_by_state(procList, PCD_PROCESS_KILLME)
SomeKillme == \E i \in DOMAIN procList : proc[procList[i]].state = "KILLME"

\* Only one process at a time is between SIGTERM and SIGKILL
TermWaits ==
  /\ Reach("stop", {"TERMME"})
  /\ SomeKillme
  /\ Advance
  /\ UNCHANGED <<ownRules, procList, proc, os, envVars, loopVars>>

\* Mutant: SIGTERM is taken for the end of the child
TerminateMut ==
  /\ Reach("stop", {"TERMME"})
  /\ ~SomeKillme
  /\ proc' = [proc EXCEPT ![Head(procTodo)].state = "STOPPED",
                          ![Head(procTodo)].signaled = TRUE]
  /\ Advance
  /\ UNCHANGED <<ownRules, procList, os, envVars, loopVars>>

\* SIGTERM; a child that has been waited for makes kill fail
Terminate ==
  /\ Reach("stop", {"TERMME"})
  /\ ~SomeKillme
  /\ LET p == Head(procTodo)
     IN  proc' = IF HasPid(p)
                 THEN [proc EXCEPT ![p].signaled = TRUE, ![p].tm = KillTm,
                        ![p].state = IF os[p] = "reaped" THEN "STOPPED"
                                                         ELSE "KILLME"]
                 ELSE [proc EXCEPT ![p].state = "STOPPED"]
  /\ Advance
  /\ UNCHANGED <<ownRules, procList, os, envVars, loopVars>>

\* Mutant: the time to SIGKILL does not run
KillWaitsMut ==
  /\ Reach("stop", {"KILLME"})
  /\ proc[Head(procTodo)].tm # 0
  /\ Advance
  /\ UNCHANGED <<ownRules, procList, proc, os, envVars, loopVars>>

KillWaits ==
  /\ Reach("stop", {"KILLME"})
  /\ LET p == Head(procTodo)
     IN  /\ proc[p].tm # 0
         /\ proc' = [proc EXCEPT ![p].tm = @ - 1]
  /\ Advance
  /\ UNCHANGED <<ownRules, procList, os, envVars, loopVars>>

\* What SIGKILL does to the child
Sigkill(p) == IF os[p] = "running" THEN "killed" ELSE os[p]

\* SIGKILL; the object is STOPPED without waiting for SIGCHLD
Kill ==
  /\ Reach("stop", {"KILLME"})
  /\ LET p == Head(procTodo)
     IN  /\ proc[p].tm = 0
         /\ proc' = [proc EXCEPT ![p].state = "STOPPED",
                                 ![p].signaled = @ \/ HasPid(p)]
         /\ os' = [os EXCEPT ![p] = Sigkill(p)]
  /\ Advance
  /\ UNCHANGED <<ownRules, procList, envVars, loopVars>>

StopSkips ==
  /\ Reach("stop", {"FREE", "STARTING", "RUNNING"})
  /\ Advance
  /\ UNCHANGED <<ownRules, procList, proc, os, envVars, loopVars>>

\* The main loop goes round
StopPassDone ==
  /\ pc = "stop"
  /\ procTodo = <<>>
  /\ pc' = "messages"
  /\ tickCounter' = Tick
  /\ budget' = Budget
  /\ UNCHANGED <<ownRules, listVars, proc, os, readyMsgs, waiting, reqs>>

ProcessStep ==
  \/ Spawn \/ StartingWaits \/ Started \/ StartedRaced \/ StartSkips
  \/ StartPassDone
  \/ MarkStopped \/ Reap \/ ReapUnexpected \/ TermWaits \/ Terminate
  \/ KillWaits \/ Kill \/ StopSkips \/ StopPassDone

-----------------------------------------------------------------------------
(***************************************************************************)
(* The children and the signal they cause.                                 *)
(***************************************************************************)

supervisor == <<ownRules, listVars, waiting, reqs, budget, loopVars>>

\* A running child ends, by itself or because of a SIGTERM
ChildEnds(p, how) ==
  /\ os[p] = "running"
  /\ os' = [os EXCEPT ![p] = how]
  /\ UNCHANGED <<supervisor, proc, readyMsgs>>

\* A child that was sent SIGKILL ends
KilledEnds(p) ==
  /\ os[p] = "killed"
  /\ os' = [os EXCEPT ![p] = "signal"]
  /\ UNCHANGED <<supervisor, proc, readyMsgs>>

\* A child calls PCD_api_send_process_ready
SendReady(p) ==
  /\ os[p] = "running"
  /\ proc[p].state # "FREE"
  /\ Conf[proc[p].rule].end = "PROCESS_READY"
  /\ p \notin readyMsgs
  /\ readyMsgs' = readyMsgs \cup {p}
  /\ UNCHANGED <<supervisor, proc, os>>

\* Mutant: the end of the child is dealt with in the current pass
ChldMut(p) == [proc[p] EXCEPT !.state = "STOPPED", !.retstat = os[p]]

\* Mutant: the end of a child that is still starting only sets the return code
ChldStartingMut(p) ==
  [proc[p] EXCEPT !.state = IF @ = "STARTING" THEN @ ELSE "STOPPING",
                  !.retstat = os[p]]

\* PCD_process_chld: what waitpid said, and STOPPING whatever the state was
Chld(p) == [proc[p] EXCEPT !.state = "STOPPING", !.retstat = os[p]]

\* The SIGCHLD handler waits for the child and looks for its object
Sigchld(p) ==
  /\ pc # "down"
  /\ os[p] \in Ends
  /\ IF proc[p].state = "FREE"
     THEN os' = [os EXCEPT ![p] = "none"] /\ UNCHANGED proc
     ELSE /\ os' = [os EXCEPT ![p] = "reaped"]
          /\ proc' = [proc EXCEPT ![p] = Chld(p)]
  /\ UNCHANGED <<supervisor, readyMsgs>>
=============================================================================

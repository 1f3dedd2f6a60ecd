------------------------------- MODULE PcdApi -------------------------------
(***************************************************************************)
(* pcd_api.c: the requests the supervisor serves at the top of its main    *)
(* loop, at most Budget of them in one turn.                               *)
(***************************************************************************)
EXTENDS PcdState

Serve ==
  /\ pc = "messages"
  /\ budget > 0
  /\ budget' = budget - 1

Request ==
  /\ Serve
  /\ reqs < MaxReqs
  /\ reqs' = reqs + 1

notServed == <<timerTodo, enqueueList, procFlag, listVars, os, loopVars>>

\* Mutant: a rule whose process still runs is started again
StartableMut(r) == ~Active(ruleState[r])

\* PCD_timer_enqueue_rule accepts the rule
Startable(r) == ~Active(ruleState[r]) /\ ruleProc[r] = NoProc

\* PCD_API_START_PROCESS: PCD_timer_enqueue_rule
ApiStart(r) ==
  /\ Request
  /\ Startable(r)
  /\ ruleState' = [ruleState EXCEPT ![r] = "START_WAITING"]
  /\ timerQ' = Enqueue(timerQ, r)
  /\ UNCHANGED <<ruleProc, delay, ready, proc, readyMsgs, waiting, notServed>>

\* Mutant: a rule that had not started yet keeps its state
DequeuedStateMut(s) == IF s = "END_WAITING" THEN "NOT_COMPLETED" ELSE s

\* The state PCD_timer_dequeue_rule leaves when the rule has not failed
DequeuedState(s) == IF s \in {"COMPLETED", "IDLE"} THEN s ELSE "NOT_COMPLETED"

(***************************************************************************)
(* PCD_api_stop of a rule that is in the timer queue: PCD_timer_           *)
(* dequeue_rule stops its process gently whatever the request was, and the *)
(* request is answered at once.                                            *)
(***************************************************************************)
ApiStopQueued(r) ==
  LET mode == [Keep EXCEPT ![r] = "TERMME"]
  IN  /\ Request
      /\ Queued(r)
      /\ proc' = StopProcs(ruleProc, mode, NoClient)
      /\ ruleProc' = StopConn(ruleProc, mode)
      /\ timerQ' = Dequeue(r)
      /\ ruleState' = [ruleState EXCEPT ![r] = DequeuedState(@)]
      /\ UNCHANGED <<delay, ready, readyMsgs, waiting, notServed>>

(***************************************************************************)
(* PCD_api_stop of a rule that is not in the queue but has a process:      *)
(* PCD_API_TERMINATE_PROCESS (how = "TERMME"), PCD_API_KILL_PROCESS (how = *)
(* "KILLME") and PCD_API_TERMINATE_PROCESS_SYNC (a client c, which is not  *)
(* answered now).                                                          *)
(***************************************************************************)
ApiStopRunning(r, how, c) ==
  LET mode == [Keep EXCEPT ![r] = how]
  IN  /\ Request
      /\ c \notin waiting
      /\ c # NoClient => how = "TERMME"
      /\ ~Queued(r)
      /\ ruleProc[r] # NoProc
      /\ Stops(ruleProc, mode, ruleProc[r])
      /\ proc' = StopProcs(ruleProc, mode, c)
      /\ ruleProc' = StopConn(ruleProc, mode)
      /\ ruleState' = [ruleState EXCEPT ![r] = "IDLE"]
      /\ waiting' = IF c = NoClient THEN waiting ELSE waiting \cup {c}
      /\ UNCHANGED <<delay, ready, timerQ, readyMsgs, notServed>>

\* A request that is refused, and one that only asks or signals
\* (PCD_API_GET_RULE_STATE, PCD_API_SIGNAL_PROCESS, the net-rx priorities): it
\* takes a place in the budget of the turn and changes nothing else
ApiAnswered ==
  /\ Request
  /\ UNCHANGED <<ruleVars, timerQ, proc, readyMsgs, waiting, notServed>>

\* PCD_API_PROCESS_READY: the rule is the one whose object has the sender's
\* pid, whether or not the object is still connected to it
ServeReady(p) ==
  /\ Serve
  /\ p \in readyMsgs
  /\ readyMsgs' = readyMsgs \ {p}
  /\ ready' = IF proc[p].state = "FREE" THEN ready
              ELSE [ready EXCEPT ![proc[p].rule] = TRUE]
  /\ UNCHANGED <<ruleState, ruleProc, delay, timerQ, proc, waiting, reqs,
                 notServed>>

\* No message is left, or the budget is used up: the timer iteration starts
MessagesDone ==
  /\ pc = "messages"
  /\ readyMsgs = {} \/ budget = 0
  /\ pc' = "timer"
  /\ timerTodo' = timerQ
  /\ timerQ' = <<>>
  /\ budget' = 0
  /\ UNCHANGED <<ruleVars, enqueueList, procFlag, listVars, proc, os,
                 readyMsgs, waiting, reqs, tickCounter>>

ApiRequest ==
  \/ ApiAnswered
  \/ \E r \in Rules : ApiStart(r) \/ ApiStopQueued(r)
  \/ \E r \in Rules, how \in {"TERMME", "KILLME"}, c \in Clients \cup {NoClient} :
       ApiStopRunning(r, how, c)

MessageStep == MessagesDone \/ \E p \in Procs : ServeReady(p)
=============================================================================

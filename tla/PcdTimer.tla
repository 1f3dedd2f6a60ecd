------------------------------ MODULE PcdTimer ------------------------------
(***************************************************************************)
(* timer.c and condchk.c: one iteration over the timer queue.  The         *)
(* iteration is one step per timer object, because the SIGCHLD handler may *)
(* run between two objects.  timerTodo is the part of the queue the        *)
(* iteration has not reached.  An object that PCD_timer_add_to_dequeue_list*)
(* marks is left out of timerQ at once: nothing searches the queue before  *)
(* PCD_timer_dequeue_handle removes it.                                    *)
(***************************************************************************)
EXTENDS PcdState

\* PCD_start_cond_check_RULE_COMPLETED: the first rule of the list that is
\* unknown or not COMPLETED decides; an empty list is never satisfied.
DepsResult(r) ==
  LET deps == Conf[r].deps
      Bad(q) == IF q = NoRule THEN TRUE ELSE ruleState[q] # "COMPLETED"
      first == SelectInSeq(deps, Bad)
  IN  CASE deps = <<>> -> "NOK"
        [] deps # <<>> /\ first = 0 -> "OK"
        [] OTHER -> IF deps[first] = NoRule THEN "MISSING" ELSE "NOK"

\* The results PCD_start_cond_check_* may return for rule r
StartCondResults(r) ==
  CASE Conf[r].start = "NONE"           -> {"OK"}
    [] Conf[r].start = "RULE_COMPLETED" -> {DepsResult(r)}
    [] Conf[r].start = "EXTERNAL"       -> {"OK", "NOK"}

Result(b) == IF b THEN "OK" ELSE "NOK"

\* PCD_end_cond_check_EXIT
ExitResult(r) ==
  Result(/\ ruleProc[r] # NoProc
         /\ proc[ruleProc[r]].retstat = "expected")

\* The results PCD_end_cond_check_* may return for rule r
EndCondResults(r) ==
  CASE Conf[r].end = "NONE"          -> {"OK"}
    [] Conf[r].end = "EXIT"          -> {ExitResult(r)}
    [] Conf[r].end = "PROCESS_READY" -> {Result(ready[r])}
    [] Conf[r].end = "WAIT"          -> {Result(delay[r] < Tick)}
    [] Conf[r].end = "EXTERNAL"      -> {"OK", "NOK"}

\* Mutant: the delay is not restored and runs below zero
WaitCheckMut(r) ==
  delay' = IF Conf[r].end = "WAIT" THEN [delay EXCEPT ![r] = @ - Tick]
                                   ELSE delay

\* PCD_end_cond_check_WAIT restores the delay when it has run out
WaitCheck(r) ==
  delay' = IF Conf[r].end = "WAIT"
           THEN [delay EXCEPT ![r] = IF @ < Tick THEN Conf[r].delay
                                                 ELSE @ - Tick]
           ELSE delay

\* PCD_end_cond_check_PROCESS_READY consumes the flag
ReadyCheck(r) ==
  ready' = IF Conf[r].end = "PROCESS_READY"
           THEN [ready EXCEPT ![r] = FALSE] ELSE ready

-----------------------------------------------------------------------------
\* The iteration reaches the object of a rule in state s
Visit(s) ==
  /\ pc = "timer"
  /\ timerTodo # <<>>
  /\ ruleState[Head(timerTodo).rule] \in s
  /\ timerTodo' = Tail(timerTodo)

KeepObj(obj) == timerQ' = Append(timerQ, obj)

DropObj == UNCHANGED timerQ

unrelated == <<listVars, os, envVars, tickCounter>>

\* The start condition does not hold yet
StartWaits ==
  /\ Visit({"START_WAITING"})
  /\ LET obj == Head(timerTodo)
     IN  /\ "NOK" \in StartCondResults(obj.rule)
         /\ KeepObj(obj)
  /\ UNCHANGED <<ruleVars, enqueueList, procFlag, proc, pc, unrelated>>

\* The start condition names a rule the database does not have
StartHopeless ==
  /\ Visit({"START_WAITING"})
  /\ LET obj == Head(timerTodo)
     IN  /\ "MISSING" \in StartCondResults(obj.rule)
         /\ ruleState' = [ruleState EXCEPT ![obj.rule] = "NOT_COMPLETED"]
         /\ KeepObj(obj)
  /\ UNCHANGED <<ruleProc, delay, ready, enqueueList, procFlag, proc, pc,
                 unrelated>>

\* A rule without a command only waits for its end condition
StartPseudo ==
  /\ Visit({"START_WAITING"})
  /\ LET obj == Head(timerTodo)
     IN  /\ "OK" \in StartCondResults(obj.rule)
         /\ Conf[obj.rule].pseudo
         /\ ruleState' = [ruleState EXCEPT ![obj.rule] = "END_WAITING"]
         /\ KeepObj(obj)
  /\ UNCHANGED <<ruleProc, delay, ready, enqueueList, procFlag, proc, pc,
                 unrelated>>

\* PCD_process_enqueue of a rule that has no process
EnqueueProcess(r) ==
  /\ FreeObjs # {}
  /\ proc' = [proc EXCEPT ![Malloc] = NewObj(r)]
  /\ ruleProc' = [ruleProc EXCEPT ![r] = Malloc]
  /\ procList' = Cons(Malloc, procList)

\* A rule that already has a process gets it killed and stays where it is
StartProcess ==
  /\ Visit({"START_WAITING"})
  /\ LET obj == Head(timerTodo)
         r == obj.rule
         kill == [Keep EXCEPT ![r] = "KILLME"]
     IN  /\ "OK" \in StartCondResults(r)
         /\ ~Conf[r].pseudo
         /\ IF ruleProc[r] # NoProc
            THEN /\ proc' = StopProcs(ruleProc, kill, NoClient)
                 /\ ruleProc' = StopConn(ruleProc, kill)
                 /\ UNCHANGED <<ruleState, procList>>
            ELSE /\ EnqueueProcess(r)
                 /\ ruleState' = [ruleState EXCEPT ![r] = "END_WAITING"]
         /\ KeepObj(obj)
  /\ procFlag' = TRUE
  /\ UNCHANGED <<delay, ready, enqueueList, procTodo, pc, os, envVars,
                 tickCounter>>

(***************************************************************************)
(* The common end of a failed rule: its process, and the process of the    *)
(* rule the failure action names, are killed, and that rule is put on the  *)
(* enqueue list.                                                           *)
(***************************************************************************)
FailRule(r, state) ==
  LET states == [ruleState EXCEPT ![r] = state]
      next == FailureTarget(r, states)
      kill == [q \in Rules |-> IF q \in {r, next} THEN "KILLME" ELSE "KEEP"]
  IN  /\ ruleState' = states
      /\ proc' = StopProcs(ruleProc, kill, NoClient)
      /\ ruleProc' = StopConn(ruleProc, kill)
      /\ enqueueList' = IF next = NoRule THEN enqueueList
                                         ELSE Cons(next, enqueueList)
      /\ pc' = IF Reboots(r) THEN "down" ELSE pc

\* PCD_process_enqueue found no memory for the process object
StartNoMemory ==
  /\ Visit({"START_WAITING"})
  /\ LET r == Head(timerTodo).rule
     IN  /\ "OK" \in StartCondResults(r)
         /\ ~Conf[r].pseudo
         /\ ruleProc[r] = NoProc
         /\ FreeObjs = {}
         /\ FailRule(r, "FAILED")
  /\ DropObj
  /\ UNCHANGED <<delay, ready, procFlag, unrelated>>

\* The end condition holds
EndReached ==
  /\ Visit({"END_WAITING"})
  /\ LET r == Head(timerTodo).rule
     IN  /\ "OK" \in EndCondResults(r)
         /\ ruleState' = [ruleState EXCEPT ![r] = "COMPLETED"]
         /\ WaitCheck(r)
         /\ ReadyCheck(r)
  /\ DropObj
  /\ UNCHANGED <<ruleProc, enqueueList, procFlag, proc, pc, unrelated>>

\* The timeout of the object after one more turn
Countdown(timeout) ==
  CASE timeout = Forever -> Forever
    [] timeout # Forever /\ timeout <= Tick -> 0
    [] OTHER -> timeout - Tick

\* The end condition does not hold and there is time left
EndWaits ==
  /\ Visit({"END_WAITING"})
  /\ LET obj == Head(timerTodo)
     IN  /\ "NOK" \in EndCondResults(obj.rule)
         /\ obj.timeout # 0
         /\ WaitCheck(obj.rule)
         /\ KeepObj([obj EXCEPT !.timeout = Countdown(@)])
  /\ UNCHANGED <<ruleState, ruleProc, ready, enqueueList, procFlag, proc, pc,
                 unrelated>>

\* The end condition does not hold and the timeout has run out
EndTimeout ==
  /\ Visit({"END_WAITING"})
  /\ LET obj == Head(timerTodo)
     IN  /\ "NOK" \in EndCondResults(obj.rule)
         /\ obj.timeout = 0
         /\ FailRule(obj.rule, "NOT_COMPLETED")
  /\ procFlag' = TRUE
  /\ DropObj
  /\ UNCHANGED <<delay, ready, unrelated>>

\* The rule is neither waiting to start nor to end: its object is removed
VisitIdle ==
  /\ Visit(RuleStates \ {"START_WAITING", "END_WAITING"})
  /\ DropObj
  /\ UNCHANGED <<ruleVars, enqueueList, procFlag, proc, pc, unrelated>>

\* Mutant: the main loop ignores what the timer iteration returned
ProcessPassDueMut == tickCounter >= ProcTick

\* The timer iteration asks for a process pass, or it is time for one
ProcessPassDue == procFlag \/ tickCounter >= ProcTick

\* PCD_timer_enqueue_handle, then the main loop decides on a process pass
TimerDone ==
  /\ pc = "timer"
  /\ timerTodo = <<>>
  /\ timerQ' = timerQ \o [i \in DOMAIN enqueueList |-> TimerObj(enqueueList[i])]
  /\ ruleState' = [r \in Rules |-> IF r \in Range(enqueueList)
                                   THEN "START_WAITING" ELSE ruleState[r]]
  /\ enqueueList' = <<>>
  /\ procFlag' = FALSE
  /\ IF ProcessPassDue
     THEN /\ pc' = "start"
          /\ procTodo' = procList
          /\ UNCHANGED <<tickCounter, budget>>
     ELSE /\ pc' = "messages"
          /\ tickCounter' = tickCounter + Tick
          /\ budget' = Budget
          /\ UNCHANGED procTodo
  /\ UNCHANGED <<ruleProc, delay, ready, timerTodo, procList, proc, os,
                 readyMsgs, waiting, reqs>>

TimerStep ==
  \/ StartWaits \/ StartHopeless \/ StartPseudo \/ StartProcess
  \/ StartNoMemory \/ EndReached \/ EndWaits \/ EndTimeout \/ VisitIdle
  \/ TimerDone
=============================================================================

------------------------------ MODULE PcdState ------------------------------
(***************************************************************************)
(* The state shared by the modules of the PCD supervisor (pcd/src of       *)
(* pcd-1.1.6): the rule table, the timer queue, the process list, and the  *)
(* operating-system processes the supervisor has forked; and the two       *)
(* helpers every module calls, PCD_process_stop and the failure actions.   *)
(*                                                                         *)
(* A rule is rule_t: its configuration is the constant Conf[r], its        *)
(* mutable fields are the variables ruleState, ruleProc, delay and ready.  *)
(* A process object is procObj_t: proc[p] for p in the pool Procs.  The    *)
(* pool is the memory malloc serves; when it is empty malloc returns NULL. *)
(***************************************************************************)
EXTENDS Integers, FiniteSets, Sequences, SequencesExt

CONSTANTS
  Rules,       \* the rules of the database
  ActiveRules, \* those that are ACTIVE, in the order of the database
  Conf,        \* the parsed configuration of each rule
  Procs,       \* the pool of process objects
  Clients,     \* clients of the API that call the blocking terminate
  Tick,        \* PCD_TIMER_TICK, the length of a main-loop turn
  ProcTick,    \* PCD_PROCESS_TICK, the longest wait between process passes
  StartingTm,  \* passes a process stays STARTING        (3 in the code)
  KillTm,      \* passes between SIGTERM and SIGKILL     (7 in the code)
  Budget,      \* messages served in one turn            (5 in the code)
  MaxReqs,     \* bound of the model: requests the clients ever make
  ForkMayFail, \* whether fork may return -1
  SignalWindow,\* whether SIGCHLD may hit between a read and a write of state
  NoRule, NoProc, NoClient

\* END_COND_TIMEOUT = -1, stored as ~0 in an unsigned field
Forever == -1

StartConds == {"NONE", "RULE_COMPLETED", "EXTERNAL"}
EndConds   == {"NONE", "EXIT", "PROCESS_READY", "WAIT", "EXTERNAL"}
Actions    == {"NONE", "REBOOT", "RESTART", "EXEC_RULE"}

(***************************************************************************)
(* "EXTERNAL" stands for the conditions that look at the world outside the *)
(* supervisor: FILE, NETDEVICE, IPC_OWNER and ENV_VAR.  pseudo is the rule *)
(* whose COMMAND is NONE.                                                  *)
(***************************************************************************)
ConfType ==
  [start : StartConds, deps : Seq(Rules \cup {NoRule}), pseudo : BOOLEAN,
   daemon : BOOLEAN, end : EndConds, delay : Nat,
   timeout : Nat \cup {Forever}, action : Actions,
   exec : Rules \cup {NoRule}, active : BOOLEAN]

ASSUME ConfAssumption ==
  /\ Conf \in [Rules -> ConfType]
  /\ ActiveRules \in Seq(Rules)
  /\ \A i, j \in DOMAIN ActiveRules : ActiveRules[i] = ActiveRules[j] => i = j
  /\ Range(ActiveRules) = {r \in Rules : Conf[r].active}
  /\ \A r \in Rules : Conf[r].end = "WAIT" => Conf[r].timeout = Forever

ASSUME SentinelAssumption ==
  /\ NoRule \notin Rules
  /\ NoProc \notin Procs
  /\ NoClient \notin Clients

ASSUME BoundAssumption ==
  /\ Tick \in Nat \ {0}
  /\ ProcTick \in Nat
  /\ StartingTm \in Nat
  /\ KillTm \in Nat
  /\ Budget \in Nat
  /\ MaxReqs \in Nat
  /\ ForkMayFail \in BOOLEAN
  /\ SignalWindow \in BOOLEAN

VARIABLES
  ruleState,   \* [Rules -> RuleStates]: rule->ruleState
  ruleProc,    \* [Rules -> Procs or NoProc]: rule->proc
  delay,       \* [Rules -> Nat]: rule->endCondition.delay[0]
  ready,       \* [Rules -> BOOLEAN]: rule->endCondition.processReady
  timerQ,      \* the timer queue; during an iteration, the part visited
  timerTodo,   \* during an iteration, the part still to visit
  enqueueList, \* rules the failure actions asked to enqueue (last in first)
  procFlag,    \* the result PCD_timer_iterate is accumulating
  procList,    \* the process list, newest first
  procTodo,    \* during a process pass, the part still to visit
  proc,        \* [Procs -> ProcType]: the process objects
  os,          \* [Procs -> OsStates]: the child forked for the object
  readyMsgs,   \* children whose PROCESS_READY message is in the socket
  waiting,     \* clients blocked in PCD_api_terminate_process_sync
  reqs,        \* requests made so far
  budget,      \* messages this turn may still serve
  pc,          \* where the main loop is
  tickCounter  \* time since the last process pass

ruleVars  == <<ruleState, ruleProc, delay, ready>>
timerVars == <<timerQ, timerTodo, enqueueList, procFlag>>
listVars  == <<procList, procTodo>>
envVars   == <<readyMsgs, waiting, reqs, budget>>
loopVars  == <<pc, tickCounter>>
vars == <<ruleState, ruleProc, delay, ready, timerQ, timerTodo, enqueueList,
          procFlag, procList, procTodo, proc, os, readyMsgs, waiting, reqs,
          budget, pc, tickCounter>>

RuleStates == {"IDLE", "START_WAITING", "END_WAITING", "COMPLETED",
               "NOT_COMPLETED", "FAILED"}

\* procState_e; FREE is an object that is not allocated
ProcStates == {"FREE", "RUNME", "STARTING", "RUNNING", "TERMME", "KILLME",
               "STOPPING", "STOPPED"}

(***************************************************************************)
(* How a child ends: with the exit status its rule expects (0, or the      *)
(* status of END_COND EXIT), with another one, or by a signal.  The        *)
(* decisions of process.c and condchk.c compare the return code with that  *)
(* status and nothing else.                                                *)
(***************************************************************************)
Ends == {"expected", "other", "signal"}

\* none: no child (pid 0); nofork: fork failed (pid -1); running; killed: sent
\* SIGKILL; an element of Ends: ended, not yet waited for; reaped: waited for
OsStates == {"none", "nofork", "running", "killed", "reaped"} \cup Ends

\* PCD_PROCESS_RETNOTHING, or how waitpid said the child ended
Retstats == {"NOTHING"} \cup Ends

ProcType ==
  [state : ProcStates, rule : Rules \cup {NoRule}, tm : Nat,
   signaled : BOOLEAN, retstat : Retstats, cookie : Clients \cup {NoClient}]

FreeObj == [state |-> "FREE", rule |-> NoRule, tm |-> 0, signaled |-> FALSE,
            retstat |-> "NOTHING", cookie |-> NoClient]

\* PCD_process_new
NewObj(r) == [FreeObj EXCEPT !.state = "RUNME", !.rule = r]

\* Objects malloc can hand out; a name is not reused while its child lives on
FreeObjs == {p \in Procs : /\ proc[p].state = "FREE"
                           /\ os[p] = "none"
                           /\ p \notin readyMsgs}

\* Which of them it hands out makes no difference
Malloc == CHOOSE p \in FreeObjs : TRUE

\* proc->pid > 0
HasPid(p) == os[p] \notin {"none", "nofork"}

\* The macro PCD_RULE_ACTIVE
Active(state) == state \in {"START_WAITING", "END_WAITING"}

TimerType == [rule : Rules, timeout : Nat \cup {Forever}]

\* PCD_timer_new
TimerObj(r) == [rule |-> r, timeout |-> Conf[r].timeout]

\* PCD_timer_enqueue: to the end of the queue
Enqueue(queue, r) == Append(queue, TimerObj(r))

Queued(r) == \E i \in DOMAIN timerQ : timerQ[i].rule = r

\* Mutant: the object is left in the queue
DequeueMut(r) == timerQ

\* PCD_timer_dequeue_rule takes out the first object of the rule
Dequeue(r) == RemoveFirstMatch(timerQ, LAMBDA obj : obj.rule = r)

-----------------------------------------------------------------------------
(***************************************************************************)
(* PCD_process_stop, for the rules q with mode[q] "TERMME" (gentle) or     *)
(* "KILLME" (brutal), conn being the value of the rules' proc pointers at  *)
(* that point of the code and c the cookie.  An object that is already     *)
(* being stopped refuses; one whose child has already exited is marked as  *)
(* signaled.                                                               *)
(***************************************************************************)
Keep == [q \in Rules |-> "KEEP"]

StopStates == {"RUNME", "STARTING", "RUNNING", "STOPPING", "STOPPED"}

Stops(conn, mode, p) ==
  /\ proc[p].state \in StopStates
  /\ conn[proc[p].rule] = p
  /\ mode[proc[p].rule] # "KEEP"

StopObj(obj, how, c) ==
  [obj EXCEPT !.state = how, !.tm = 0, !.cookie = c,
              !.signaled = @ \/ obj.state \in {"STOPPED", "STOPPING"}]

StopProcs(conn, mode, c) ==
  [p \in Procs |-> IF Stops(conn, mode, p)
                   THEN StopObj(proc[p], mode[proc[p].rule], c)
                   ELSE proc[p]]

\* Mutant: the rule keeps pointing at the process it stopped
StopConnMut(conn, mode) == conn

StopConn(conn, mode) ==
  [q \in Rules |-> IF conn[q] # NoProc /\ Stops(conn, mode, conn[q])
                   THEN NoProc ELSE conn[q]]

\* Mutant: EXEC_RULE does not look whether its target is active
FailureTargetMut(r, states) ==
  CASE Conf[r].action = "RESTART" -> r
    [] Conf[r].action = "EXEC_RULE" -> Conf[r].exec
    [] OTHER -> NoRule

(***************************************************************************)
(* The rule a failure action returns for the caller to enqueue, NoRule for *)
(* NULL.  EXEC_RULE refuses a rule that is unknown or active.  RESTART and *)
(* EXEC_RULE also stop the target's process brutally, and REBOOT ends the  *)
(* supervisor: the callers do both.                                        *)
(***************************************************************************)
FailureTarget(r, states) ==
  CASE Conf[r].action = "RESTART" -> r
    [] /\ Conf[r].action = "EXEC_RULE"
       /\ Conf[r].exec # NoRule
       /\ ~Active(states[Conf[r].exec]) -> Conf[r].exec
    [] OTHER -> NoRule

Reboots(r) == Conf[r].action = "REBOOT"
=============================================================================

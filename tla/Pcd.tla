-------------------------------- MODULE Pcd --------------------------------
(***************************************************************************)
(* The PCD supervisor as main.c runs it: one thread that serves messages,  *)
(* iterates over the timer queue and passes over the process list, for     *)
(* ever; the children it forks; the SIGCHLD handler that interrupts it     *)
(* anywhere; and the clients of its API.                                   *)
(***************************************************************************)
EXTENDS PcdTimer, PcdProcess, PcdApi

\* PCD_rulesdb_activate enqueues the rules that are ACTIVE
Activate ==
  /\ ruleState = [r \in Rules |-> IF Conf[r].active THEN "START_WAITING"
                                                   ELSE "IDLE"]
  /\ timerQ = [i \in DOMAIN ActiveRules |-> TimerObj(ActiveRules[i])]

\* The state PCD_main_init leaves; the first turn makes a process pass
Init ==
  /\ Activate
  /\ ruleProc = [r \in Rules |-> NoProc]
  /\ delay = [r \in Rules |-> Conf[r].delay]
  /\ ready = [r \in Rules |-> FALSE]
  /\ timerTodo = <<>>
  /\ enqueueList = <<>>
  /\ procFlag = FALSE
  /\ procList = <<>>
  /\ procTodo = <<>>
  /\ proc = [p \in Procs |-> FreeObj]
  /\ os = [p \in Procs |-> "none"]
  /\ readyMsgs = {}
  /\ waiting = {}
  /\ reqs = 0
  /\ budget = Budget
  /\ pc = "messages"
  /\ tickCounter = ProcTick

\* One step of the main loop's thread
MainStep == MessageStep \/ TimerStep \/ ProcessStep

ChildStep ==
  /\ pc # "down"
  /\ \E p \in Procs : \/ \E how \in Ends : ChildEnds(p, how)
                      \/ KilledEnds(p)
                      \/ SendReady(p)
                      \/ Sigchld(p)

\* The supervisor has rebooted the system
Down == pc = "down" /\ UNCHANGED vars

Next == MainStep \/ ApiRequest \/ ChildStep \/ Down

(***************************************************************************)
(* The supervisor's thread keeps running; the kernel delivers SIGCHLD and  *)
(* ends a process that was sent SIGKILL.  Nothing is assumed of the        *)
(* clients, nor of children that were not killed.                          *)
(***************************************************************************)
Fairness ==
  /\ WF_vars(MainStep)
  /\ \A p \in Procs : WF_vars(KilledEnds(p)) /\ WF_vars(Sigchld(p))

Spec == Init /\ [][Next]_vars

FairSpec == Spec /\ Fairness

-----------------------------------------------------------------------------
\* Every variable has the type the code declares for it.
TypeOK ==
  /\ ruleState \in [Rules -> RuleStates]
  /\ ruleProc \in [Rules -> Procs \cup {NoProc}]
  /\ delay \in [Rules -> Nat]
  /\ ready \in [Rules -> BOOLEAN]
  /\ timerQ \in Seq(TimerType)
  /\ timerTodo \in Seq(TimerType)
  /\ enqueueList \in Seq(Rules)
  /\ procFlag \in BOOLEAN
  /\ procList \in Seq(Procs)
  /\ procTodo \in Seq(Procs)
  /\ proc \in [Procs -> ProcType]
  /\ os \in [Procs -> OsStates]
  /\ readyMsgs \in SUBSET Procs
  /\ waiting \in SUBSET Clients
  /\ reqs \in 0..MaxReqs
  /\ budget \in 0..Budget
  /\ pc \in {"messages", "timer", "start", "stop", "down"}
  /\ tickCounter \in Nat

-----------------------------------------------------------------------------
(***************************************************************************)
(* Safety.                                                                 *)
(***************************************************************************)

\* rule->proc and proc->rule agree, and a rule never points at an object that
\* is being stopped or is freed: PCD_process_stop always disconnects, so the
\* pointer is never dangling and a stop through it is never refused.
Connected ==
  \A r \in Rules : ruleProc[r] # NoProc =>
    /\ proc[ruleProc[r]].rule = r
    /\ proc[ruleProc[r]].state \in StopStates

\* A process the supervisor considers up (RUNME, STARTING, RUNNING) is the one
\* its rule points at: no process runs that the API and the failure actions
\* cannot stop, and no rule has two.
Owned ==
  \A p \in Procs : proc[p].state \in {"RUNME", "STARTING", "RUNNING"} =>
    /\ proc[p].rule \in Rules
    /\ ruleProc[proc[p].rule] = p

\* A rule that waits for its start condition has no process.  This answers the
\* "(how could this be??)" of PCD_timer_handle_start_condition.
StartWaitingHasNoProcess ==
  \A r \in Rules : ruleState[r] = "START_WAITING" => ruleProc[r] = NoProc

\* An allocated object has a rule: p->rule is set by PCD_process_new and
\* cleared only when the object is freed, so the passes never follow NULL.
ObjectHasRule ==
  \A p \in Procs : proc[p].state # "FREE" => proc[p].rule \in Rules

\* A rule that a failure action has put on the enqueue list has no process and
\* stays out of the waiting states until PCD_timer_enqueue_handle: the check
\* of EXEC_RULE is still good when the list is handled.
EnqueueListIsIdle ==
  \A i \in DOMAIN enqueueList :
    /\ pc \in {"timer", "down"}
    /\ ruleProc[enqueueList[i]] = NoProc
    /\ ~Active(ruleState[enqueueList[i]])

\* The inductive invariant of PcdProofs: what the code may rely on when it
\* follows a pointer between a rule and a process.
PointerInv ==
  /\ ObjectHasRule
  /\ Connected
  /\ Owned
  /\ StartWaitingHasNoProcess
  /\ EnqueueListIsIdle

InQueue(r) ==
  \/ Queued(r)
  \/ \E i \in DOMAIN timerTodo : timerTodo[i].rule = r

\* A rule in a waiting state is in the timer queue.  Otherwise it would be
\* stuck: nothing would check it again, and PCD_timer_enqueue_rule and
\* EXEC_RULE would refuse it for being active.
ActiveIsQueued == \A r \in Rules : Active(ruleState[r]) => InQueue(r)

\* A process object that PCD_process_enqueue created is spawned in the same
\* turn: no other code ever sees it in RUNME.
SpawnedInSameTurn ==
  \A p \in Procs : proc[p].state = "RUNME" =>
    \/ pc = "timer" /\ procFlag
    \/ pc = "start" /\ p \in Range(procTodo)
    \/ pc = "down"

\* A child that runs and was not sent SIGKILL has an object in the list that
\* will end it or notice its end: no object is freed under a running child.
RunningChildIsTracked ==
  \A p \in Procs : os[p] = "running" =>
    /\ proc[p].state \in {"STARTING", "RUNNING", "TERMME", "KILLME"}
    /\ p \in Range(procList)

\* At most one process is between its SIGTERM and its SIGKILL, as the comment
\* "Check if other process is terminating" of PCD_process_iterate_stop says.
OneTermination ==
  \A p, q \in Procs :
    /\ proc[p].state = "KILLME" /\ proc[p].tm > 0
    /\ proc[q].state = "KILLME" /\ proc[q].tm > 0
    => p = q

\* The process list holds the allocated objects, each once.
ListIsExact ==
  /\ \A p \in Procs : proc[p].state # "FREE" <=> p \in Range(procList)
  /\ \A i, j \in DOMAIN procList : procList[i] = procList[j] => i = j

\* A rule that waits for the exit of its process (END_COND EXIT) loses the
\* process only when it died of a signal: an exit with any status is seen, and
\* ends the wait, before the process object goes.  The two passes between
\* SIGCHLD and the freeing of the object leave a timer iteration the time.
ExitIsSeen ==
  [][\A r \in Rules :
       /\ Conf[r].end = "EXIT"
       /\ ruleState[r] = "END_WAITING" /\ ruleState'[r] = "END_WAITING"
       /\ ruleProc[r] # NoProc /\ ruleProc'[r] = NoProc
       => proc[ruleProc[r]].retstat = "signal"]_vars

\* The supervisor takes a process for up only while it has a child that runs
\* or whose end SIGCHLD has still to report.
UpHasChild ==
  \A p \in Procs : proc[p].state \in {"STARTING", "RUNNING"} =>
    os[p] \in {"running"} \cup Ends

\* The rule a failure action names, whether or not it will be started
Named(r) ==
  CASE Conf[r].action = "RESTART" -> r
    [] Conf[r].action = "EXEC_RULE" -> Conf[r].exec
    [] OTHER -> NoRule

\* A rule base in which no two rules name the same rule in their failure actions,
\* and no start condition a rule the database does not have.
PlainRules ==
  /\ \A r, q \in Rules : Named(r) = Named(q) /\ Named(r) # NoRule => r = q
  /\ \A r \in Rules : Conf[r].start = "RULE_COMPLETED" =>
                         NoRule \notin Range(Conf[r].deps)

\* No rule has two timer objects, and none is about to get a second one.  This is
\* so of PlainRules only: two failures in one iteration may put the rule both name
\* on the enqueue list twice, and the object of a rule that waits for a missing one
\* stays in the queue for a turn, in which the rule can be started again.
TimerObjIsUnique ==
  LET all == [i \in DOMAIN timerQ |-> timerQ[i].rule]
             \o [i \in DOMAIN timerTodo |-> timerTodo[i].rule]
  IN  /\ \A i, j \in DOMAIN all : all[i] = all[j] => i = j
      /\ \A i, j \in DOMAIN enqueueList :
           enqueueList[i] = enqueueList[j] => i = j

-----------------------------------------------------------------------------
(***************************************************************************)
(* Liveness, under FairSpec.                                               *)
(***************************************************************************)

\* The main loop always comes back to its messages: in particular a pass over
\* the process list never spins on an object whose failure action is refused.
MainLoopReturns == []<>(pc \in {"messages", "down"})

\* A process the supervisor has decided to stop is freed in the end, although
\* TERMME waits behind every KILLME of the list.
StopEnds ==
  \A p \in Procs : proc[p].state \in {"TERMME", "KILLME"}
                   ~> (proc[p].state = "FREE" \/ pc = "down")

\* A daemon that must be restarted and whose child has ended runs again,
\* unless a client has stopped the rule: the supervisor recovers from crashes.
DaemonRecovers ==
  \A r \in Rules :
    Conf[r].daemon /\ Conf[r].action = "RESTART" /\ Conf[r].start = "NONE" =>
      ( \E p \in Procs : ruleProc[r] = p /\ os[p] \in Ends \cup {"reaped"} )
      ~> ( \/ \E p \in Procs : ruleProc[r] = p /\ os[p] = "running"
           \/ ruleState[r] \in {"IDLE", "NOT_COMPLETED"}
           \/ pc = "down" )

-----------------------------------------------------------------------------
(***************************************************************************)
(* What the manual and the comments say of the program, and the code does  *)
(* not keep.  Each of these is checked on its own and is violated.         *)
(***************************************************************************)

\* "Rule is now idle" (PCD_api_stop): a rule a client has stopped stays idle
\* until a client starts it.  A process that exits between PCD_process_stop and
\* the pass that would signal it counts as an unexpected exit, and the failure
\* action starts the rule again.
StoppedStaysIdle ==
  [][\A r \in Rules :
       ruleState[r] = "IDLE" /\ ruleState'[r] = "START_WAITING"
       => reqs' # reqs]_vars

\* PCD_api_terminate_process blocks "until process dies": while a client is
\* blocked, some process object holds the cookie that will answer it.
BlockedClientIsAnswered ==
  \A c \in waiting : \E p \in Procs : proc[p].cookie = c

\* END_COND PROCESS_READY is "The process sent a READY event", END_COND WAIT a
\* "Delay": both are about the process that is being started.  A rule starts to
\* wait for its end condition without a READY event, and with the whole delay,
\* of an earlier process.
FreshStart ==
  [][\A r \in Rules :
       ruleState[r] = "START_WAITING" /\ ruleState'[r] = "END_WAITING"
       => ~ready'[r] /\ delay'[r] = Conf[r].delay]_vars
=============================================================================

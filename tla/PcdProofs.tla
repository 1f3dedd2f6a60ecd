----------------------------- MODULE PcdProofs -----------------------------
(***************************************************************************)
(* The pointers between rules and process objects are consistent, for      *)
(* every rule base, every pool of process objects and every value of the   *)
(* ticks and bounds.                                                       *)
(***************************************************************************)
EXTENDS PcdTypeProofs

Up == {"RUNME", "STARTING", "RUNNING"}

\* Connected and Owned, of the pointers conn and the objects procs
Consistent(conn, procs) ==
  /\ \A r \in Rules : conn[r] # NoProc =>
       /\ procs[conn[r]].rule = r
       /\ procs[conn[r]].state \in StopStates
  /\ \A p \in Procs : procs[p].state \in Up =>
       /\ procs[p].rule \in Rules
       /\ conn[procs[p].rule] = p

\* Consistent is what Connected and Owned say.
LEMMA ConsistentDef ==
  (Connected /\ Owned) <=> Consistent(ruleProc, proc)
BY DEF Connected, Owned, Consistent, Up

-----------------------------------------------------------------------------
(***************************************************************************)
(* What the helpers do to consistent pointers.                             *)
(***************************************************************************)

\* PCD_process_stop keeps the pointers consistent, and it always succeeds: a
\* rule that is to be stopped has no process afterwards.
LEMMA StopConsistent ==
  ASSUME TypeInv, NEW conn \in Pointers, NEW mode \in Modes,
         NEW c \in Clients \cup {NoClient}, Consistent(conn, proc)
  PROVE  /\ Consistent(StopConn(conn, mode), StopProcs(conn, mode, c))
         /\ \A r \in Rules : StopConn(conn, mode)[r] \in {conn[r], NoProc}
         /\ \A r \in Rules : mode[r] # "KEEP" => StopConn(conn, mode)[r] = NoProc
<1> DEFINE conn2 == StopConn(conn, mode)
           procs2 == StopProcs(conn, mode, c)
<1>1. \A p \in Procs : procs2[p].rule = proc[p].rule
  BY StopType DEF TypeInv
<1>2. ASSUME NEW p \in Procs, ~Stops(conn, mode, p)
      PROVE  procs2[p] = proc[p]
  BY <1>2 DEF StopProcs
<1>3. ASSUME NEW p \in Procs, Stops(conn, mode, p)
      PROVE  procs2[p].state \notin Up
  <2>1. proc[p] \in ProcType /\ proc[p].rule \in Rules
    BY <1>3 DEF TypeInv, TypeOK, ObjectHasRule, Stops, StopStates
  <2>2. mode[proc[p].rule] \in {"TERMME", "KILLME"}
    BY <1>3, <2>1 DEF Stops, Modes
  <2>3. procs2[p].state = mode[proc[p].rule]
    BY <1>3, <2>1 DEF StopProcs, StopObj, ProcType
  <2> QED
    BY <2>2, <2>3 DEF Up
<1>4. \A r \in Rules : conn2[r] \in {conn[r], NoProc}
  BY DEF StopConn
<1>5. ASSUME NEW r \in Rules, mode[r] # "KEEP"
      PROVE  conn2[r] = NoProc
  <2>1. CASE conn[r] # NoProc
    <3>1. Stops(conn, mode, conn[r])
      BY <1>5, <2>1 DEF Stops, Consistent, Pointers
    <3> QED
      BY <2>1, <3>1 DEF StopConn
  <2> QED
    BY <1>4, <2>1
<1>6. ASSUME NEW r \in Rules, conn2[r] # NoProc
      PROVE  procs2[conn2[r]].rule = r /\ procs2[conn2[r]].state \in StopStates
  <2>1. conn2[r] = conn[r] /\ conn[r] \in Procs /\ ~Stops(conn, mode, conn[r])
    BY <1>6 DEF StopConn, Pointers
  <2>2. procs2[conn[r]] = proc[conn[r]]
    BY <1>2, <2>1
  <2>3. /\ proc[conn[r]].rule = r
        /\ proc[conn[r]].state \in StopStates
    BY <1>6, <2>1 DEF Consistent
  <2> HIDE DEF conn2, procs2
  <2> QED
    BY <2>1, <2>2, <2>3
<1>7. ASSUME NEW p \in Procs, procs2[p].state \in Up
      PROVE  procs2[p].rule \in Rules /\ conn2[procs2[p].rule] = p
  <2>1. ~Stops(conn, mode, p) /\ procs2[p] = proc[p]
    BY <1>2, <1>3, <1>7
  <2>2. proc[p].rule \in Rules /\ conn[proc[p].rule] = p
    BY <1>7, <2>1 DEF Consistent
  <2> QED
    BY <2>1, <2>2 DEF StopConn
<1> QED
  BY <1>4, <1>5, <1>6, <1>7 DEF Consistent

\* "Disconnect from rule": an object that is STOPPED loses its rule.
LEMMA DisconnectConsistent ==
  ASSUME TypeInv, NEW p \in Procs, proc[p].state = "STOPPED",
         Consistent(ruleProc, proc)
  PROVE  /\ Consistent(Disconnect(p), proc)
         /\ \A r \in Rules : Disconnect(p)[r] \in {ruleProc[r], NoProc}
         /\ \A r \in Rules : Disconnect(p)[r] # p
<1>1. p # NoProc /\ proc[p].state \notin Up
  BY SentinelAssumption DEF Up
<1>2. \A r \in Rules : Disconnect(p)[r] \in {ruleProc[r], NoProc}
  BY DEF Disconnect
<1>3. \A r \in Rules : Disconnect(p)[r] # p
  BY <1>1 DEF Disconnect, Consistent
<1>4. \A r \in Rules : Disconnect(p)[r] # NoProc => Disconnect(p)[r] = ruleProc[r]
  BY <1>2
<1>5. \A q \in Procs : proc[q].state \in Up => Disconnect(p)[proc[q].rule] = q
  BY <1>1 DEF Disconnect, Consistent
<1> QED
  BY <1>2, <1>3, <1>4, <1>5 DEF Consistent

\* Freeing an object nobody points at.
LEMMA FreeConsistent ==
  ASSUME NEW conn \in Pointers, NEW procs \in [Procs -> ProcType],
         NEW p \in Procs, Consistent(conn, procs),
         \A r \in Rules : conn[r] # p
  PROVE  Consistent(conn, [procs EXCEPT ![p] = FreeObj])
<1>1. FreeObj.state \notin Up
  BY DEF FreeObj, Up
<1> QED
  BY <1>1 DEF Consistent, Pointers

\* Changing the state of an object, not into one that is up, nor out of those
\* that can be stopped.
LEMMA UpdateConsistent ==
  ASSUME TypeInv, NEW p \in Procs, NEW new \in ProcType,
         new.rule = proc[p].rule,
         proc[p].state \in StopStates => new.state \in StopStates,
         new.state \in Up => proc[p].state \in Up,
         Consistent(ruleProc, proc)
  PROVE  Consistent(ruleProc, [proc EXCEPT ![p] = new])
BY DEF Consistent, TypeInv, TypeOK

-----------------------------------------------------------------------------
(***************************************************************************)
(* The steps.                                                              *)
(***************************************************************************)

\* FailRule keeps the pointers consistent, and the rule it puts on the enqueue
\* list has no process and is not active.
LEMMA FailRulePointers ==
  ASSUME TypeInv, PointerInv, pc = "timer", NEW r \in Rules,
         NEW state \in {"FAILED", "NOT_COMPLETED"},
         Active(ruleState[r]), FailRule(r, state)
  PROVE  PointerInv'
<1> DEFINE states == [ruleState EXCEPT ![r] = state]
           next == FailureTarget(r, states)
           kill == [q \in Rules |-> IF q \in {r, next} THEN "KILLME" ELSE "KEEP"]
<1>1. kill \in Modes
  BY DEF Modes
<1>2. next \in Rules \cup {NoRule}
  BY FailureTargetType
<1>3. ruleProc \in Pointers /\ NoClient \in Clients \cup {NoClient}
  BY DEF TypeInv, TypeOK, Pointers
<1>4. /\ ruleState' = states
      /\ proc' = StopProcs(ruleProc, kill, NoClient)
      /\ ruleProc' = StopConn(ruleProc, kill)
      /\ enqueueList' = IF next = NoRule THEN enqueueList
                                         ELSE Cons(next, enqueueList)
      /\ pc' \in {"timer", "down"}
  BY DEF FailRule
<1>5. next # NoRule => ~Active(states[next])
  BY SentinelAssumption DEF FailureTarget, Active, TypeInv, TypeOK
<1>6. next # NoRule => kill[next] = "KILLME"
  BY <1>2
<1>7. \A q \in Rules : q # r => states[q] = ruleState[q]
  BY DEF TypeInv, TypeOK
<1>8. states[r] = state
  BY DEF TypeInv, TypeOK
<1>9. enqueueList \in Seq(Rules)
  BY DEF TypeInv, TypeOK
<1> HIDE DEF kill, states, next
<1>10. Consistent(ruleProc, proc)
  BY ConsistentDef DEF PointerInv
<1>11. /\ Consistent(ruleProc', proc')
       /\ \A q \in Rules : ruleProc'[q] \in {ruleProc[q], NoProc}
       /\ \A q \in Rules : kill[q] # "KEEP" => ruleProc'[q] = NoProc
  BY <1>1, <1>3, <1>4, <1>10, StopConsistent
<1>12. Connected' /\ Owned'
  BY <1>11 DEF Consistent, Connected, Owned, Up
<1>13. ObjectHasRule'
  BY FailRuleType DEF RuleStates
<1>14. StartWaitingHasNoProcess'
  BY <1>4, <1>7, <1>8, <1>11 DEF PointerInv, StartWaitingHasNoProcess
<1>15. EnqueueListIsIdle'
  <2> SUFFICES ASSUME NEW i \in DOMAIN enqueueList'
               PROVE  /\ ruleProc'[enqueueList'[i]] = NoProc
                      /\ ~Active(ruleState'[enqueueList'[i]])
    BY <1>4 DEF EnqueueListIsIdle
  <2>1. \A j \in DOMAIN enqueueList :
          /\ enqueueList[j] \in Rules /\ enqueueList[j] # r
          /\ ruleProc[enqueueList[j]] = NoProc
          /\ ~Active(ruleState[enqueueList[j]])
    BY <1>9 DEF PointerInv, EnqueueListIsIdle
  <2>2. \A j \in DOMAIN enqueueList :
          /\ ruleProc'[enqueueList[j]] = NoProc
          /\ ~Active(ruleState'[enqueueList[j]])
    BY <1>4, <1>7, <1>11, <2>1
  <2>3. CASE next = NoRule
    BY <1>4, <2>2, <2>3
  <2>4. CASE next # NoRule
    <3>1. enqueueList' = Cons(next, enqueueList) /\ next \in Rules
      BY <1>2, <1>4, <2>4
    <3>2. enqueueList'[i] = next \/ \E j \in DOMAIN enqueueList :
                                      enqueueList'[i] = enqueueList[j]
      BY <1>9, <3>1, ConsType
    <3>3. ruleProc'[next] = NoProc /\ ~Active(ruleState'[next])
      BY <1>4, <1>5, <1>6, <1>11, <2>4, <3>1
    <3> QED
      BY <2>2, <3>2, <3>3
  <2> QED
    BY <2>3, <2>4
<1> QED
  BY <1>12, <1>13, <1>14, <1>15 DEF PointerInv

\* Outside the timer iteration the enqueue list is empty, and what is left to show
\* of a step is that the pointers stay consistent and that a rule that waits to
\* start has no process.
LEMMA OutsideIteration ==
  ASSUME TypeInv', PointerInv, pc \notin {"timer", "down"},
         enqueueList' = enqueueList,
         Consistent(ruleProc', proc'),
         StartWaitingHasNoProcess'
  PROVE  PointerInv'
<1>1. Connected' /\ Owned'
  BY DEF Consistent, Connected, Owned, Up
<1>2. EnqueueListIsIdle'
  BY DEF PointerInv, EnqueueListIsIdle
<1> QED
  BY <1>1, <1>2 DEF PointerInv, TypeInv

\* An action that touches neither the rules nor the objects.
LEMMA PointersUnchanged ==
  ASSUME PointerInv, UNCHANGED <<ruleProc, proc, ruleState, enqueueList>>,
         pc \in {"timer", "down"} => pc' \in {"timer", "down"}
  PROVE  PointerInv'
BY DEF PointerInv, ObjectHasRule, Connected, Owned, StartWaitingHasNoProcess,
       EnqueueListIsIdle

\* The timer iteration keeps the pointers consistent.
LEMMA TimerStepPointers ==
  ASSUME TypeInv, TypeInv', PointerInv, TimerStep
  PROVE  PointerInv'
<1> DEFINE r == Head(timerTodo).rule
<1> USE DEF unrelated, listVars, envVars, ruleVars
<1>1. CASE StartWaits
  BY <1>1, PointersUnchanged DEF StartWaits
<1>2. CASE StartHopeless
  <2>1. r \in Rules /\ pc = "timer"
    BY <1>2, VisitType DEF StartHopeless, Visit
  <2> QED
    BY <1>2, <2>1
    DEF StartHopeless, PointerInv, ObjectHasRule, Connected, Owned,
        StartWaitingHasNoProcess, EnqueueListIsIdle, Active, TypeInv, TypeOK
<1>3. CASE StartPseudo
  <2>1. r \in Rules /\ pc = "timer" /\ Active(ruleState[r])
    BY <1>3, VisitType DEF StartPseudo, Visit, Active
  <2>2. \A i \in DOMAIN enqueueList : enqueueList[i] # r
    BY <2>1 DEF PointerInv, EnqueueListIsIdle
  <2> QED
    BY <1>3, <2>1, <2>2
    DEF StartPseudo, PointerInv, ObjectHasRule, Connected, Owned,
        StartWaitingHasNoProcess, EnqueueListIsIdle, TypeInv, TypeOK
<1>4. CASE StartProcess
  <2>1. r \in Rules /\ pc = "timer" /\ ruleState[r] = "START_WAITING"
    BY <1>4, VisitType DEF StartProcess, Visit
  <2>2. ruleProc[r] = NoProc
    BY <2>1 DEF PointerInv, StartWaitingHasNoProcess
  <2> DEFINE p == Malloc
  <2>3. /\ p \in FreeObjs
        /\ proc' = [proc EXCEPT ![p] = NewObj(r)]
        /\ ruleProc' = [ruleProc EXCEPT ![r] = p]
        /\ ruleState' = [ruleState EXCEPT ![r] = "END_WAITING"]
        /\ enqueueList' = enqueueList /\ pc' = pc
    BY <1>4, <2>2 DEF StartProcess, EnqueueProcess, Malloc
  <2>4. p \in Procs /\ proc[p].state = "FREE"
    BY <2>3 DEF FreeObjs
  <2>5. NewObj(r).rule = r /\ NewObj(r).state = "RUNME"
    BY DEF NewObj, FreeObj
  <2> HIDE DEF p, r
  <2>6. \A q \in Rules : ruleProc[q] # p
    BY <2>4, SentinelAssumption DEF PointerInv, Connected, StopStates
  <2>7. \A q \in Procs : proc[q].state \in Up => proc[q].rule # r
    BY <2>2, SentinelAssumption DEF PointerInv, Owned, Up
  <2>8. ruleProc \in Pointers /\ proc \in [Procs -> ProcType]
    BY DEF TypeInv, TypeOK, Pointers
  <2>9. Connected'
    BY <2>1, <2>3, <2>4, <2>5, <2>6, <2>8
    DEF PointerInv, Connected, StopStates, Pointers
  <2>10. Owned'
    BY <2>1, <2>3, <2>4, <2>5, <2>7, <2>8 DEF PointerInv, Owned, Up, Pointers
  <2>11. StartWaitingHasNoProcess'
    BY <2>1, <2>3, <2>8
    DEF PointerInv, StartWaitingHasNoProcess, TypeInv, TypeOK, Pointers
  <2>12. EnqueueListIsIdle'
    <3>1. \A i \in DOMAIN enqueueList :
            enqueueList[i] \in Rules /\ enqueueList[i] # r
      <4>1. enqueueList \in Seq(Rules)
        BY DEF TypeInv, TypeOK
      <4>2. \A i \in DOMAIN enqueueList : ~Active(ruleState[enqueueList[i]])
        BY DEF PointerInv, EnqueueListIsIdle
      <4>3. Active(ruleState[r])
        BY <2>1 DEF Active
      <4> QED
        BY <4>1, <4>2, <4>3
    <3> QED
      BY <2>1, <2>3, <2>8, <3>1
      DEF PointerInv, EnqueueListIsIdle, TypeInv, TypeOK, Pointers
  <2> QED
    BY <2>9, <2>10, <2>11, <2>12 DEF PointerInv, TypeInv
<1>5. CASE StartNoMemory
  BY <1>5, VisitType, FailRulePointers DEF StartNoMemory, Visit, Active
<1>6. CASE EndReached
  <2>1. r \in Rules /\ pc = "timer" /\ Active(ruleState[r])
    BY <1>6, VisitType DEF EndReached, Visit, Active
  <2>2. \A i \in DOMAIN enqueueList : enqueueList[i] # r
    BY <2>1 DEF PointerInv, EnqueueListIsIdle
  <2>3. /\ ruleState' = [ruleState EXCEPT ![r] = "COMPLETED"]
        /\ UNCHANGED <<ruleProc, proc, enqueueList, pc>>
    BY <1>6 DEF EndReached
  <2>4. ruleState \in [Rules -> RuleStates] /\ enqueueList \in Seq(Rules)
    BY DEF TypeInv, TypeOK
  <2>5. ObjectHasRule' /\ Connected' /\ Owned'
    BY <2>3 DEF PointerInv, ObjectHasRule, Connected, Owned
  <2>6. StartWaitingHasNoProcess'
    BY <2>1, <2>3, <2>4 DEF PointerInv, StartWaitingHasNoProcess
  <2>7. EnqueueListIsIdle'
    BY <2>1, <2>2, <2>3, <2>4 DEF PointerInv, EnqueueListIsIdle
  <2> QED
    BY <2>5, <2>6, <2>7 DEF PointerInv
<1>7. CASE EndWaits
  BY <1>7, PointersUnchanged DEF EndWaits
<1>8. CASE EndTimeout
  BY <1>8, VisitType, FailRulePointers DEF EndTimeout, Visit, Active
<1>9. CASE VisitIdle
  BY <1>9, PointersUnchanged DEF VisitIdle
<1>10. CASE TimerDone
  <2>1. /\ ruleState' = [q \in Rules |-> IF q \in Range(enqueueList)
                                        THEN "START_WAITING" ELSE ruleState[q]]
        /\ UNCHANGED <<ruleProc, proc>>
        /\ enqueueList' = <<>>
    BY <1>10 DEF TimerDone
  <2>2. StartWaitingHasNoProcess'
    BY <2>1 DEF PointerInv, StartWaitingHasNoProcess, EnqueueListIsIdle, Range
  <2>3. EnqueueListIsIdle'
    <3>1. DOMAIN enqueueList' = {}
      BY <2>1
    <3> QED
      BY <3>1 DEF EnqueueListIsIdle
  <2> QED
    BY <2>1, <2>2, <2>3 DEF PointerInv, ObjectHasRule, Connected, Owned
<1> QED
  BY <1>1, <1>2, <1>3, <1>4, <1>5, <1>6, <1>7, <1>8, <1>9, <1>10 DEF TimerStep

\* An object changes its state and nothing else that matters to the pointers.
LEMMA ObjectMoves ==
  ASSUME TypeInv, TypeInv', PointerInv, NEW p \in Procs,
         proc[p].state # "FREE",
         \A q \in Procs : q # p => proc'[q] = proc[q],
         proc'[p].rule = proc[p].rule,
         proc[p].state \in StopStates => proc'[p].state \in StopStates,
         proc'[p].state \in Up => proc[p].state \in Up,
         UNCHANGED <<ruleProc, ruleState, enqueueList, pc>>
  PROVE  PointerInv'
<1>1. Connected'
  <2> SUFFICES ASSUME NEW r \in Rules, ruleProc[r] # NoProc
               PROVE  /\ proc'[ruleProc[r]].rule = r
                      /\ proc'[ruleProc[r]].state \in StopStates
    BY DEF Connected
  <2>1. /\ ruleProc[r] \in Procs
        /\ proc[ruleProc[r]].rule = r
        /\ proc[ruleProc[r]].state \in StopStates
    BY DEF PointerInv, Connected, TypeInv, TypeOK
  <2> QED
    BY <2>1
<1>2. Owned'
  BY DEF PointerInv, Owned, Up
<1>3. StartWaitingHasNoProcess' /\ EnqueueListIsIdle'
  BY DEF PointerInv, StartWaitingHasNoProcess, EnqueueListIsIdle
<1> QED
  BY <1>1, <1>2, <1>3 DEF PointerInv, TypeInv

\* The passes over the process list keep the pointers consistent.
LEMMA ProcessStepPointers ==
  ASSUME TypeInv, TypeInv', PointerInv, ProcessStep
  PROVE  PointerInv'
<1> DEFINE p == Head(procTodo)
<1> USE DEF Advance, ownRules, ruleVars, timerVars, listVars, envVars, loopVars
<1>0. Consistent(ruleProc, proc)
  BY ConsistentDef DEF PointerInv
<1>1. CASE Spawn
  <2>1. p \in Procs /\ proc[p] \in ProcType /\ proc[p].state = "RUNME"
    BY <1>1, ReachType DEF Spawn
  <2> QED
    BY <1>1, <2>1, ObjectMoves
    DEF Spawn, StopStates, Up, TypeInv, TypeOK, ProcType
<1>2. CASE StartingWaits
  <2>1. p \in Procs /\ proc[p] \in ProcType /\ proc[p].state = "STARTING"
    BY <1>2, ReachType DEF StartingWaits
  <2> QED
    BY <1>2, <2>1, ObjectMoves
    DEF StartingWaits, StopStates, Up, TypeInv, TypeOK, ProcType
<1>3. CASE Started
  <2>1. p \in Procs /\ proc[p] \in ProcType /\ proc[p].state = "STARTING"
    BY <1>3, ReachType DEF Started
  <2> QED
    BY <1>3, <2>1, ObjectMoves
    DEF Started, StopStates, Up, TypeInv, TypeOK, ProcType
<1>4. CASE StartedRaced
  <2>1. p \in Procs /\ proc[p] \in ProcType /\ proc[p].state = "STARTING"
    BY <1>4, ReachType DEF StartedRaced
  <2> QED
    BY <1>4, <2>1, ObjectMoves
    DEF StartedRaced, StopStates, Up, TypeInv, TypeOK, ProcType
<1>5. CASE StartSkips
  BY <1>5, PointersUnchanged DEF StartSkips, Reach
<1>6. CASE StartPassDone
  BY <1>6, PointersUnchanged DEF StartPassDone, Reach
<1>7. CASE MarkStopped
  <2>1. p \in Procs /\ proc[p] \in ProcType /\ proc[p].state \in {"STOPPING", "RUNME"}
    BY <1>7, ReachType DEF MarkStopped
  <2> QED
    BY <1>7, <2>1, ObjectMoves
    DEF MarkStopped, StopStates, Up, TypeInv, TypeOK, ProcType
<1>8. CASE Reap
  <2>1. /\ p \in Procs /\ proc[p].state = "STOPPED"
        /\ pc = "stop" /\ enqueueList' = enqueueList /\ ruleState' = ruleState
        /\ ruleProc' = Disconnect(p) /\ proc' = [proc EXCEPT ![p] = FreeObj]
    BY <1>8, ReachType DEF Reap, Reach
  <2>2. proc \in [Procs -> ProcType] /\ ruleProc' \in Pointers
    BY DEF TypeInv, TypeOK, Pointers
  <2> HIDE DEF p
  <2>3. /\ Consistent(Disconnect(p), proc)
        /\ \A r \in Rules : Disconnect(p)[r] \in {ruleProc[r], NoProc}
        /\ \A r \in Rules : Disconnect(p)[r] # p
    BY <1>0, <2>1, DisconnectConsistent
  <2>4. Consistent(ruleProc', proc')
    BY <2>1, <2>2, <2>3, FreeConsistent
  <2>5. StartWaitingHasNoProcess'
    BY <2>1, <2>3 DEF PointerInv, StartWaitingHasNoProcess
  <2> QED
    BY <2>1, <2>4, <2>5, OutsideIteration
<1>9. CASE ReapUnexpected
  <2> DEFINE r == proc[p].rule
             conn == Disconnect(p)
             states == IF Queued(r) THEN [ruleState EXCEPT ![r] = "FAILED"]
                                    ELSE ruleState
             next == FailureTarget(r, states)
             mode == TriggerMode(r, next)
             conn2 == StopConn(conn, mode)
             procs2 == StopProcs(conn, mode, NoClient)
             refused == next # NoRule
                        /\ (Active(states[next]) \/ conn2[next] # NoProc)
  <2>1. p \in Procs /\ proc[p].state = "STOPPED" /\ pc = "stop"
    BY <1>9, ReachType DEF ReapUnexpected, Reach
  <2>2. r \in Rules
    BY <2>1 DEF TypeInv, ObjectHasRule
  <2>3. conn \in Pointers
    BY <2>1, DisconnectType
  <2>4. \A q \in Rules : states[q] \in {ruleState[q], "FAILED"}
    BY <2>2 DEF TypeInv, TypeOK
  <2>5. mode \in Modes /\ NoClient \in Clients \cup {NoClient}
    BY DEF TriggerMode, Modes
  <2>6. /\ ruleProc' = conn2
        /\ IF refused
           THEN ruleState' = states /\ proc' = procs2
           ELSE /\ ruleState' = [q \in Rules |-> IF q = next
                                   THEN "START_WAITING" ELSE states[q]]
                /\ proc' = [procs2 EXCEPT ![p] = FreeObj]
        /\ enqueueList' = enqueueList
    BY <1>9 DEF ReapUnexpected
  <2>7. ~refused /\ next # NoRule => conn2[next] = NoProc
    OBVIOUS
  <2> HIDE DEF p, r, states, next, refused
  <2>8. /\ Consistent(conn, proc)
        /\ \A q \in Rules : conn[q] \in {ruleProc[q], NoProc} /\ conn[q] # p
    BY <1>0, <2>1, DisconnectConsistent
  <2> HIDE DEF conn, mode
  <2>9. /\ Consistent(conn2, procs2)
        /\ \A q \in Rules : conn2[q] \in {conn[q], NoProc}
    BY <2>3, <2>5, <2>8, StopConsistent
  <2>10. conn2 \in Pointers /\ procs2 \in [Procs -> ProcType]
    BY <2>3, <2>5, StopType DEF TypeInv
  <2> HIDE DEF conn2, procs2
  <2>11. Consistent(ruleProc', proc')
    <3>1. p # NoProc
      BY <2>1, SentinelAssumption
    <3>2. \A q \in Rules : conn2[q] # p
      BY <2>8, <2>9, <3>1
    <3>3. Consistent(conn2, [procs2 EXCEPT ![p] = FreeObj])
      BY <2>1, <2>9, <2>10, <3>2, FreeConsistent
    <3> QED
      BY <2>6, <2>9, <3>3
  <2>12. \A q \in Rules : states[q] = "START_WAITING" => conn2[q] = NoProc
    BY <2>4, <2>8, <2>9 DEF PointerInv, StartWaitingHasNoProcess
  <2>13. StartWaitingHasNoProcess'
    <3>1. CASE refused
      BY <2>6, <2>12, <3>1 DEF StartWaitingHasNoProcess
    <3>2. CASE ~refused
      BY <2>6, <2>7, <2>12, <3>2, SentinelAssumption
      DEF StartWaitingHasNoProcess
    <3> QED
      BY <3>1, <3>2
  <2> QED
    BY <2>1, <2>6, <2>11, <2>13, OutsideIteration
<1>10. CASE TermWaits
  BY <1>10, PointersUnchanged DEF TermWaits, Reach
<1>11. CASE Terminate
  <2>1. p \in Procs /\ proc[p] \in ProcType /\ proc[p].state = "TERMME"
    BY <1>11, ReachType DEF Terminate
  <2> QED
    BY <1>11, <2>1, ObjectMoves
    DEF Terminate, StopStates, Up, TypeInv, TypeOK, ProcType
<1>12. CASE KillWaits
  <2>1. p \in Procs /\ proc[p] \in ProcType /\ proc[p].state = "KILLME"
    BY <1>12, ReachType DEF KillWaits
  <2> QED
    BY <1>12, <2>1, ObjectMoves
    DEF KillWaits, StopStates, Up, TypeInv, TypeOK, ProcType
<1>13. CASE Kill
  <2>1. p \in Procs /\ proc[p] \in ProcType /\ proc[p].state = "KILLME"
    BY <1>13, ReachType DEF Kill
  <2> QED
    BY <1>13, <2>1, ObjectMoves
    DEF Kill, StopStates, Up, TypeInv, TypeOK, ProcType
<1>14. CASE StopSkips
  BY <1>14, PointersUnchanged DEF StopSkips, Reach
<1>15. CASE StopPassDone
  BY <1>15, PointersUnchanged DEF StopPassDone, Reach
<1> QED
  BY <1>1, <1>2, <1>3, <1>4, <1>5, <1>6, <1>7, <1>8, <1>9, <1>10, <1>11,
     <1>12, <1>13, <1>14, <1>15 DEF ProcessStep

\* Serving a message keeps the pointers consistent.
LEMMA ApiStepPointers ==
  ASSUME TypeInv, TypeInv', PointerInv, MessageStep \/ ApiRequest
  PROVE  PointerInv'
<1> USE DEF Serve, Request, notServed, listVars, ruleVars, loopVars
<1>0. Consistent(ruleProc, proc) /\ ruleProc \in Pointers
  BY ConsistentDef DEF PointerInv, TypeInv, TypeOK, Pointers
<1>1. CASE MessagesDone
  BY <1>1, PointersUnchanged DEF MessagesDone
<1>2. ASSUME NEW p \in Procs, ServeReady(p)
      PROVE  PointerInv'
  BY <1>2, PointersUnchanged DEF ServeReady
<1>3. CASE ApiAnswered
  BY <1>3, PointersUnchanged DEF ApiAnswered
<1>4. ASSUME NEW r \in Rules, ApiStart(r)
      PROVE  PointerInv'
  <2>1. /\ pc = "messages" /\ enqueueList' = enqueueList
        /\ ruleProc[r] = NoProc /\ UNCHANGED <<ruleProc, proc>>
        /\ ruleState' = [ruleState EXCEPT ![r] = "START_WAITING"]
    BY <1>4 DEF ApiStart, Startable
  <2>2. StartWaitingHasNoProcess'
    BY <2>1 DEF PointerInv, StartWaitingHasNoProcess, TypeInv, TypeOK
  <2> QED
    BY <1>0, <2>1, <2>2, OutsideIteration
<1>5. ASSUME NEW r \in Rules, ApiStopQueued(r)
      PROVE  PointerInv'
  <2> DEFINE mode == [Keep EXCEPT ![r] = "TERMME"]
  <2>1. mode \in Modes /\ NoClient \in Clients \cup {NoClient}
    BY DEF Keep, Modes
  <2>2. /\ pc = "messages" /\ enqueueList' = enqueueList
        /\ proc' = StopProcs(ruleProc, mode, NoClient)
        /\ ruleProc' = StopConn(ruleProc, mode)
        /\ ruleState' = [ruleState EXCEPT ![r] = DequeuedState(@)]
    BY <1>5 DEF ApiStopQueued
  <2> HIDE DEF mode
  <2>3. /\ Consistent(ruleProc', proc')
        /\ \A q \in Rules : ruleProc'[q] \in {ruleProc[q], NoProc}
    BY <1>0, <2>1, <2>2, StopConsistent
  <2>4. StartWaitingHasNoProcess'
    BY <2>2, <2>3
    DEF PointerInv, StartWaitingHasNoProcess, DequeuedState, TypeInv, TypeOK
  <2> QED
    BY <2>2, <2>3, <2>4, OutsideIteration
<1>6. ASSUME NEW r \in Rules, NEW how \in {"TERMME", "KILLME"},
             NEW c \in Clients \cup {NoClient}, ApiStopRunning(r, how, c)
      PROVE  PointerInv'
  <2> DEFINE mode == [Keep EXCEPT ![r] = how]
  <2>1. mode \in Modes
    BY DEF Keep, Modes
  <2>2. /\ pc = "messages" /\ enqueueList' = enqueueList
        /\ proc' = StopProcs(ruleProc, mode, c)
        /\ ruleProc' = StopConn(ruleProc, mode)
        /\ ruleState' = [ruleState EXCEPT ![r] = "IDLE"]
    BY <1>6 DEF ApiStopRunning
  <2> HIDE DEF mode
  <2>3. /\ Consistent(ruleProc', proc')
        /\ \A q \in Rules : ruleProc'[q] \in {ruleProc[q], NoProc}
    BY <1>0, <2>1, <2>2, StopConsistent
  <2>4. StartWaitingHasNoProcess'
    BY <2>2, <2>3 DEF PointerInv, StartWaitingHasNoProcess, TypeInv, TypeOK
  <2> QED
    BY <2>2, <2>3, <2>4, OutsideIteration
<1> QED
  BY <1>1, <1>2, <1>3, <1>4, <1>5, <1>6 DEF MessageStep, ApiRequest

\* Children and the SIGCHLD handler keep the pointers consistent, whenever the
\* signal arrives.
LEMMA ChildStepPointers ==
  ASSUME TypeInv, TypeInv', PointerInv, ChildStep
  PROVE  PointerInv'
<1> USE DEF supervisor, ownRules, ruleVars, timerVars, listVars, loopVars
<1>1. ASSUME NEW p \in Procs, NEW how \in Ends, ChildEnds(p, how)
      PROVE  PointerInv'
  BY <1>1, PointersUnchanged DEF ChildEnds
<1>2. ASSUME NEW p \in Procs, KilledEnds(p)
      PROVE  PointerInv'
  BY <1>2, PointersUnchanged DEF KilledEnds
<1>3. ASSUME NEW p \in Procs, SendReady(p)
      PROVE  PointerInv'
  BY <1>3, PointersUnchanged DEF SendReady
<1>4. ASSUME NEW p \in Procs, Sigchld(p)
      PROVE  PointerInv'
  <2>1. CASE proc[p].state = "FREE"
    BY <1>4, <2>1, PointersUnchanged DEF Sigchld
  <2>2. CASE proc[p].state # "FREE"
    <3>1. proc[p] \in ProcType
      BY DEF TypeInv, TypeOK
    <3>2. Chld(p).rule = proc[p].rule /\ Chld(p).state = "STOPPING"
      BY <3>1 DEF Chld, ProcType
    <3>3. /\ proc' = [proc EXCEPT ![p] = Chld(p)]
          /\ UNCHANGED <<ruleProc, ruleState, enqueueList, pc>>
      BY <1>4, <2>2 DEF Sigchld
    <3>4. proc'[p] = Chld(p) /\ \A q \in Procs : q # p => proc'[q] = proc[q]
      BY <3>3 DEF TypeInv, TypeOK
    <3> QED
      BY <2>2, <3>2, <3>3, <3>4, ObjectMoves DEF StopStates, Up
  <2> QED
    BY <2>1, <2>2
<1> QED
  BY <1>1, <1>2, <1>3, <1>4 DEF ChildStep

\* No rule has a process when the supervisor starts.
LEMMA InitPointers == Init => PointerInv
<1> SUFFICES ASSUME Init PROVE PointerInv
  OBVIOUS
<1>1. \A p \in Procs : proc[p].state = "FREE"
  BY DEF Init, FreeObj
<1>2. \A r \in Rules : ruleProc[r] = NoProc
  BY DEF Init
<1>3. DOMAIN enqueueList = {}
  BY DEF Init
<1> QED
  BY <1>1, <1>2, <1>3
  DEF PointerInv, ObjectHasRule, Connected, Owned, StartWaitingHasNoProcess,
      EnqueueListIsIdle

\* Every step of the specification keeps the pointers consistent.
LEMMA NextPointers ==
  TypeInv /\ TypeInv' /\ PointerInv /\ [Next]_vars => PointerInv'
<1> SUFFICES ASSUME TypeInv, TypeInv', PointerInv, [Next]_vars
             PROVE  PointerInv'
  OBVIOUS
<1>1. CASE UNCHANGED vars
  BY <1>1, PointersUnchanged DEF vars
<1>2. CASE Next
  BY <1>1, <1>2, TimerStepPointers, ProcessStepPointers, ApiStepPointers,
     ChildStepPointers
  DEF Next, MainStep, Down
<1> QED
  BY <1>1, <1>2

-----------------------------------------------------------------------------
\* The inductive invariant: process.c, timer.c and pcd_api.c never follow a
\* dangling or a null pointer between a rule and its process object, wherever
\* SIGCHLD interrupts them and whether or not fork and malloc succeed.
THEOREM PointersCorrect == Spec => []PointerInv
<1>1. Spec => []TypeInv
  BY InitTypes, NextTypes, PTL DEF Spec
<1>2. TypeInv /\ TypeInv' /\ PointerInv /\ [Next]_vars => PointerInv'
  BY NextPointers
<1> QED
  BY <1>1, <1>2, InitPointers, PTL DEF Spec

\* rule->proc and proc->rule agree, and PCD_process_stop is never refused.
THEOREM ConnectedCorrect == Spec => []Connected
<1>1. PointerInv => Connected
  BY DEF PointerInv
<1> QED
  BY <1>1, PointersCorrect, PTL

\* A process the supervisor considers up is the one its rule points at, so no
\* rule ever has two of them.
THEOREM OwnedCorrect == Spec => []Owned
<1>1. PointerInv => Owned
  BY DEF PointerInv
<1> QED
  BY <1>1, PointersCorrect, PTL

\* The branch "(how could this be??)" of PCD_timer_handle_start_condition is
\* never taken: a rule that waits for its start condition has no process.
THEOREM StartWaitingCorrect == Spec => []StartWaitingHasNoProcess
<1>1. PointerInv => StartWaitingHasNoProcess
  BY DEF PointerInv
<1> QED
  BY <1>1, PointersCorrect, PTL
=============================================================================

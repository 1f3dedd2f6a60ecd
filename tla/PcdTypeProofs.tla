--------------------------- MODULE PcdTypeProofs ---------------------------
(***************************************************************************)
(* Type correctness of the supervisor, proved for every rule base, every   *)
(* pool of process objects and every value of the ticks and bounds.        *)
(***************************************************************************)
EXTENDS Pcd, SequenceTheorems, WellFoundedInduction, TLAPS

Pointers == [Rules -> Procs \cup {NoProc}]
Modes    == [Rules -> {"KEEP", "TERMME", "KILLME"}]

-----------------------------------------------------------------------------
(***************************************************************************)
(* Sequences.                                                              *)
(***************************************************************************)

\* A nonempty set of naturals has its Min: the search of a list ends at the
\* first match.
LEMMA MinOfNat ==
  ASSUME NEW S \in SUBSET Nat, S # {}
  PROVE  Min(S) \in S
<1>1. \E x \in S : \A y \in S : ~(<<y, x>> \in OpToRel(<, Nat))
  BY WFMin, NatLessThanWellFounded
<1>2. PICK x \in S : \A y \in S : ~(<<y, x>> \in OpToRel(<, Nat))
  BY <1>1
<1>3. ASSUME NEW y \in S PROVE x =< y
  <2>1. y \in Nat /\ x \in Nat
    OBVIOUS
  <2>2. ~(y < x)
    BY <1>2, <2>1, Zenon DEF OpToRel
  <2> QED
    BY <2>1, <2>2
<1> QED
  BY <1>3 DEF Min

\* Taking an element out of a list leaves a list of the same elements.
LEMMA RemoveAtType ==
  ASSUME NEW T, NEW s \in Seq(T), NEW i \in 1..Len(s)
  PROVE  RemoveAt(s, i) \in Seq(T)
<1>1. SubSeq(s, 1, i - 1) \in Seq(T)
  OBVIOUS
<1>2. SubSeq(s, i + 1, Len(s)) \in Seq(T)
  OBVIOUS
<1> QED
  BY <1>1, <1>2 DEF RemoveAt

\* PCD_timer_dequeue leaves a queue of timer objects.
LEMMA DequeueType ==
  ASSUME TypeOK, NEW r \in Rules
  PROVE  Dequeue(r) \in Seq(TimerType)
<1> DEFINE I == {i \in 1..Len(timerQ) : timerQ[i].rule = r}
<1>1. timerQ \in Seq(TimerType)
  BY DEF TypeOK
<1>2. CASE I = {}
  BY <1>1, <1>2 DEF Dequeue, RemoveFirstMatch
<1>3. CASE I # {}
  <2>1. Min(I) \in I
    <3>1. I \in SUBSET Nat
      OBVIOUS
    <3> HIDE DEF I
    <3> QED
      BY <1>3, <3>1, MinOfNat
  <2>2. Dequeue(r) = RemoveAt(timerQ, Min(I))
    BY <1>3 DEF Dequeue, RemoveFirstMatch, SelectInSeq
  <2> QED
    BY <1>1, <2>1, <2>2, RemoveAtType
<1> QED
  BY <1>2, <1>3

\* NODE_DEL leaves a list of process objects.
LEMMA UnlinkType ==
  ASSUME TypeOK, NEW p \in Procs
  PROVE  Unlink(p) \in Seq(Procs)
<1> DEFINE I == {i \in 1..Len(procList) : procList[i] = p}
<1>1. procList \in Seq(Procs)
  BY DEF TypeOK
<1>2. CASE I = {}
  BY <1>1, <1>2 DEF Unlink, RemoveFirst
<1>3. CASE I # {}
  <2>1. Min(I) \in I
    <3>1. I \in SUBSET Nat
      OBVIOUS
    <3> HIDE DEF I
    <3> QED
      BY <1>3, <3>1, MinOfNat
  <2>2. Unlink(p) = RemoveAt(procList, Min(I))
    BY <1>3 DEF Unlink, RemoveFirst, SelectInSeq
  <2> QED
    BY <1>1, <2>1, <2>2, RemoveAtType
<1> QED
  BY <1>2, <1>3

\* The enqueue list and the process list grow at the head.
LEMMA ConsType ==
  ASSUME NEW T, NEW e \in T, NEW s \in Seq(T)
  PROVE  /\ Cons(e, s) \in Seq(T)
         /\ \A i \in DOMAIN Cons(e, s) :
              Cons(e, s)[i] = e \/ \E j \in DOMAIN s : Cons(e, s)[i] = s[j]
<1>1. <<e>> \in Seq(T)
  OBVIOUS
<1>2. Cons(e, s) \in Seq(T)
  BY <1>1 DEF Cons
<1>3. \A i \in 1..Len(<<e>> \o s) :
        (<<e>> \o s)[i] = IF i = 1 THEN e ELSE s[i - 1]
  BY <1>1
<1>4. Len(<<e>> \o s) = 1 + Len(s)
  BY <1>1
<1> QED
  BY <1>2, <1>3, <1>4 DEF Cons

-----------------------------------------------------------------------------
(***************************************************************************)
(* The helpers.                                                            *)
(***************************************************************************)

\* PCD_process_stop keeps the types, and no object changes its rule.
LEMMA StopType ==
  ASSUME TypeOK, ObjectHasRule,
         NEW conn \in Pointers, NEW mode \in Modes,
         NEW c \in Clients \cup {NoClient}
  PROVE  /\ StopProcs(conn, mode, c) \in [Procs -> ProcType]
         /\ StopConn(conn, mode) \in Pointers
         /\ \A p \in Procs :
              /\ StopProcs(conn, mode, c)[p].rule = proc[p].rule
              /\ StopProcs(conn, mode, c)[p].state = "FREE"
                  <=> proc[p].state = "FREE"
<1>1. StopConn(conn, mode) \in Pointers
  BY DEF StopConn, Pointers
<1>2. ASSUME NEW p \in Procs
      PROVE  /\ StopProcs(conn, mode, c)[p] \in ProcType
             /\ StopProcs(conn, mode, c)[p].rule = proc[p].rule
             /\ StopProcs(conn, mode, c)[p].state = "FREE"
                 <=> proc[p].state = "FREE"
  <2>1. proc[p] \in ProcType
    BY DEF TypeOK
  <2>2. CASE Stops(conn, mode, p)
    <3>1. proc[p].rule \in Rules
      BY <2>2 DEF Stops, ObjectHasRule, StopStates
    <3>2. mode[proc[p].rule] \in {"TERMME", "KILLME"}
      BY <2>2, <3>1 DEF Stops, Modes
    <3>3. StopProcs(conn, mode, c)[p] = StopObj(proc[p], mode[proc[p].rule], c)
      BY <2>2 DEF StopProcs
    <3>4. proc[p].state # "FREE"
      BY <2>2 DEF Stops, StopStates
    <3> DEFINE how == mode[proc[p].rule]
               sig == proc[p].signaled \/ proc[p].state \in {"STOPPED", "STOPPING"}
    <3>5. StopProcs(conn, mode, c)[p] =
            [proc[p] EXCEPT !.state = how, !.tm = 0, !.cookie = c,
                            !.signaled = sig]
      BY <2>1, <3>3 DEF StopObj, ProcType
    <3>6. sig \in BOOLEAN
      OBVIOUS
    <3>7. how \in ProcStates /\ how # "FREE"
      BY <3>2 DEF ProcStates
    <3> HIDE DEF how, sig
    <3> DEFINE new == [proc[p] EXCEPT !.state = how, !.tm = 0, !.cookie = c,
                                      !.signaled = sig]
    <3>8. new \in ProcType /\ new.rule = proc[p].rule /\ new.state = how
      <4>1. \A obj \in ProcType, x \in BOOLEAN :
              LET o == [obj EXCEPT !.state = how, !.tm = 0, !.cookie = c,
                                   !.signaled = x]
              IN  o \in ProcType /\ o.rule = obj.rule /\ o.state = how
        BY <3>7 DEF ProcType
      <4> QED
        BY <2>1, <3>6, <4>1, Zenon
    <3> HIDE DEF new
    <3> QED
      BY <3>4, <3>5, <3>7, <3>8 DEF new
  <2>3. CASE ~Stops(conn, mode, p)
    BY <2>1, <2>3 DEF StopProcs
  <2> QED
    BY <2>2, <2>3
<1>3. StopProcs(conn, mode, c) \in [Procs -> ProcType]
  BY <1>2 DEF StopProcs
<1> QED
  BY <1>1, <1>2, <1>3

\* A failure action names a rule of the database or none.
LEMMA FailureTargetType ==
  ASSUME NEW r \in Rules, NEW states
  PROVE  FailureTarget(r, states) \in Rules \cup {NoRule}
BY ConfAssumption DEF FailureTarget, ConfType

\* PCD_timer_new makes a timer object.
LEMMA TimerObjType ==
  ASSUME NEW r \in Rules
  PROVE  TimerObj(r) \in TimerType
BY ConfAssumption DEF TimerObj, TimerType, ConfType

-----------------------------------------------------------------------------
(***************************************************************************)
(* Types.                                                                  *)
(***************************************************************************)

\* What is proved of the types: an allocated process object needs its rule.
TypeInv == TypeOK /\ ObjectHasRule

\* The object a timer iteration visits is a timer object of some rule.
LEMMA VisitType ==
  ASSUME TypeInv, NEW s, Visit(s)
  PROVE  /\ Head(timerTodo) \in TimerType
         /\ Head(timerTodo).rule \in Rules
         /\ timerTodo' \in Seq(TimerType)
         /\ \A obj \in TimerType : Append(timerQ, obj) \in Seq(TimerType)
<1>1. timerTodo \in Seq(TimerType) /\ timerTodo # <<>> /\ timerQ \in Seq(TimerType)
  BY DEF TypeInv, TypeOK, Visit
<1>2. Head(timerTodo) \in TimerType /\ Tail(timerTodo) \in Seq(TimerType)
  BY <1>1
<1>3. Head(timerTodo).rule \in Rules
  BY <1>2 DEF TimerType
<1> QED
  BY <1>1, <1>2, <1>3 DEF Visit

\* FailRule keeps the types.
LEMMA FailRuleType ==
  ASSUME TypeInv, NEW r \in Rules, NEW state \in RuleStates, FailRule(r, state)
  PROVE  /\ ruleState' \in [Rules -> RuleStates]
         /\ ruleProc' \in Pointers
         /\ proc' \in [Procs -> ProcType]
         /\ enqueueList' \in Seq(Rules)
         /\ pc' \in {pc, "down"}
         /\ ObjectHasRule'
<1> DEFINE states == [ruleState EXCEPT ![r] = state]
           next == FailureTarget(r, states)
           kill == [q \in Rules |-> IF q \in {r, next} THEN "KILLME" ELSE "KEEP"]
<1>1. kill \in Modes
  BY DEF Modes
<1>2. next \in Rules \cup {NoRule}
  BY FailureTargetType
<1>3. ruleProc \in Pointers /\ NoClient \in Clients \cup {NoClient}
  BY DEF TypeInv, TypeOK, Pointers
<1>4. /\ ruleState' = states
      /\ proc' = StopProcs(ruleProc, kill, NoClient)
      /\ ruleProc' = StopConn(ruleProc, kill)
      /\ enqueueList' = IF next = NoRule THEN enqueueList
                                         ELSE Cons(next, enqueueList)
      /\ pc' \in {pc, "down"}
  BY DEF FailRule
<1>5. states \in [Rules -> RuleStates]
  BY DEF TypeInv, TypeOK
<1>6. enqueueList' \in Seq(Rules)
  <2>1. enqueueList \in Seq(Rules)
    BY DEF TypeInv, TypeOK
  <2> HIDE DEF next
  <2> QED
    BY <1>2, <1>4, <2>1, ConsType
<1> HIDE DEF kill, states, next
<1>7. /\ proc' \in [Procs -> ProcType]
      /\ ruleProc' \in Pointers
      /\ \A p \in Procs : /\ proc'[p].rule = proc[p].rule
                          /\ proc'[p].state = "FREE" <=> proc[p].state = "FREE"
  BY <1>1, <1>3, <1>4, StopType DEF TypeInv
<1>8. ObjectHasRule'
  BY <1>7 DEF TypeInv, ObjectHasRule
<1> QED
  BY <1>4, <1>5, <1>6, <1>7, <1>8

\* PCD_end_cond_check_WAIT never lets the delay wrap below zero.
LEMMA WaitCheckType ==
  ASSUME TypeInv, NEW r \in Rules, WaitCheck(r)
  PROVE  delay' \in [Rules -> Nat]
<1>1. Conf[r].delay \in Nat /\ Tick \in Nat
  BY ConfAssumption, BoundAssumption DEF ConfType
<1>2. delay \in [Rules -> Nat]
  BY DEF TypeInv, TypeOK
<1> QED
  BY <1>1, <1>2 DEF WaitCheck

\* The steps of the timer iteration keep the types.
LEMMA TimerStepTypes ==
  ASSUME TypeInv, TimerStep
  PROVE  TypeInv'
<1> USE DEF TypeInv, KeepObj, DropObj, unrelated, listVars, envVars, ruleVars
<1>1. CASE StartWaits
  BY <1>1, VisitType DEF StartWaits, TypeOK, ObjectHasRule
<1>2. CASE StartHopeless
  BY <1>2, VisitType DEF StartHopeless, TypeOK, ObjectHasRule, RuleStates
<1>3. CASE StartPseudo
  BY <1>3, VisitType DEF StartPseudo, TypeOK, ObjectHasRule, RuleStates
<1>4. CASE StartProcess
  <2> DEFINE r == Head(timerTodo).rule
             kill == [Keep EXCEPT ![r] = "KILLME"]
  <2>1. r \in Rules /\ timerQ' \in Seq(TimerType) /\ timerTodo' \in Seq(TimerType)
    BY <1>4, VisitType DEF StartProcess
  <2>2. CASE ruleProc[r] # NoProc
    <3>1. kill \in Modes
      BY <2>1 DEF Keep, Modes
    <3>2. /\ proc' = StopProcs(ruleProc, kill, NoClient)
          /\ ruleProc' = StopConn(ruleProc, kill)
          /\ UNCHANGED <<ruleState, procList>>
      BY <1>4, <2>2 DEF StartProcess
    <3>3. ruleProc \in Pointers
      BY DEF TypeOK, Pointers
    <3> HIDE DEF kill
    <3>4. /\ proc' \in [Procs -> ProcType]
          /\ ruleProc' \in Pointers
          /\ \A p \in Procs :
               /\ proc'[p].rule = proc[p].rule
               /\ proc'[p].state = "FREE" <=> proc[p].state = "FREE"
      BY <3>1, <3>2, <3>3, StopType
    <3> QED
      BY <1>4, <2>1, <3>2, <3>4
      DEF StartProcess, TypeOK, ObjectHasRule, Pointers
  <2>3. CASE ruleProc[r] = NoProc
    <3>1. Malloc \in Procs
      BY <1>4, <2>3 DEF StartProcess, EnqueueProcess, Malloc, FreeObjs
    <3>2. NewObj(r) \in ProcType /\ NewObj(r).rule = r
      BY <2>1 DEF NewObj, FreeObj, ProcType, ProcStates, Retstats
    <3>3. procList' \in Seq(Procs)
      BY <1>4, <2>3, <3>1, ConsType DEF StartProcess, EnqueueProcess, TypeOK
    <3>4. /\ proc' = [proc EXCEPT ![Malloc] = NewObj(r)]
          /\ ruleProc' = [ruleProc EXCEPT ![r] = Malloc]
          /\ ruleState' = [ruleState EXCEPT ![r] = "END_WAITING"]
      BY <1>4, <2>3 DEF StartProcess, EnqueueProcess
    <3> QED
      BY <1>4, <2>1, <3>1, <3>2, <3>3, <3>4
      DEF StartProcess, TypeOK, ObjectHasRule, RuleStates
  <2> QED
    BY <2>2, <2>3
<1>5. CASE StartNoMemory
  <2> DEFINE r == Head(timerTodo).rule
  <2>1. r \in Rules /\ timerTodo' \in Seq(TimerType)
    BY <1>5, VisitType DEF StartNoMemory
  <2>2. FailRule(r, "FAILED") /\ "FAILED" \in RuleStates
    BY <1>5 DEF StartNoMemory, RuleStates
  <2> HIDE DEF r
  <2> QED
    BY <1>5, <2>1, <2>2, FailRuleType DEF StartNoMemory, TypeOK, Pointers
<1>6. CASE EndReached
  <2> DEFINE r == Head(timerTodo).rule
  <2>1. r \in Rules /\ timerTodo' \in Seq(TimerType)
    BY <1>6, VisitType DEF EndReached
  <2>2. delay' \in [Rules -> Nat]
    BY <1>6, <2>1, WaitCheckType DEF EndReached
  <2>3. ready' \in [Rules -> BOOLEAN]
    BY <1>6, <2>1 DEF EndReached, ReadyCheck, TypeOK
  <2> QED
    BY <1>6, <2>1, <2>2, <2>3 DEF EndReached, TypeOK, ObjectHasRule, RuleStates
<1>7. CASE EndWaits
  <2> DEFINE obj == Head(timerTodo)
  <2>1. obj \in TimerType /\ obj.rule \in Rules /\ timerTodo' \in Seq(TimerType)
    BY <1>7, VisitType DEF EndWaits
  <2>2. delay' \in [Rules -> Nat]
    BY <1>7, <2>1, WaitCheckType DEF EndWaits
  <2>3. [obj EXCEPT !.timeout = Countdown(@)] \in TimerType
    BY <2>1, BoundAssumption DEF TimerType, Countdown, Forever
  <2>4. timerQ' \in Seq(TimerType)
    BY <1>7, <2>3, VisitType DEF EndWaits
  <2> QED
    BY <1>7, <2>1, <2>2, <2>4 DEF EndWaits, TypeOK, ObjectHasRule
<1>8. CASE EndTimeout
  <2> DEFINE r == Head(timerTodo).rule
  <2>1. r \in Rules /\ timerTodo' \in Seq(TimerType)
    BY <1>8, VisitType DEF EndTimeout
  <2>2. FailRule(r, "NOT_COMPLETED") /\ "NOT_COMPLETED" \in RuleStates
    BY <1>8 DEF EndTimeout, RuleStates
  <2> HIDE DEF r
  <2> QED
    BY <1>8, <2>1, <2>2, FailRuleType DEF EndTimeout, TypeOK, Pointers
<1>9. CASE VisitIdle
  BY <1>9, VisitType DEF VisitIdle, TypeOK, ObjectHasRule
<1>10. CASE TimerDone
  <2> DEFINE objs == [i \in DOMAIN enqueueList |-> TimerObj(enqueueList[i])]
  <2>1. objs \in Seq(TimerType)
    <3>1. enqueueList \in Seq(Rules)
      BY DEF TypeOK
    <3>2. \A i \in 1..Len(enqueueList) : TimerObj(enqueueList[i]) \in TimerType
      BY <3>1, TimerObjType
    <3> QED
      BY <3>1, <3>2
  <2>2. timerQ' \in Seq(TimerType)
    BY <1>10, <2>1 DEF TimerDone, TypeOK
  <2>3. ruleState' \in [Rules -> RuleStates]
    BY <1>10 DEF TimerDone, TypeOK, RuleStates
  <2>4. /\ procTodo' \in Seq(Procs)
        /\ tickCounter' \in Nat
        /\ budget' \in 0..Budget
        /\ pc' \in {"start", "messages"}
    BY <1>10, BoundAssumption DEF TimerDone, TypeOK
  <2>5. enqueueList' = <<>> /\ procFlag' = FALSE
    BY <1>10 DEF TimerDone
  <2>6. enqueueList' \in Seq(Rules) /\ procFlag' \in BOOLEAN
    <3>1. <<>> \in Seq(Rules)
      OBVIOUS
    <3> QED
      BY <2>5, <3>1
  <2>7. UNCHANGED <<ruleProc, delay, ready, timerTodo, procList, proc, os,
                    readyMsgs, waiting, reqs>>
    BY <1>10 DEF TimerDone
  <2> QED
    BY <2>2, <2>3, <2>4, <2>6, <2>7 DEF TypeOK, ObjectHasRule
<1> QED
  BY <1>1, <1>2, <1>3, <1>4, <1>5, <1>6, <1>7, <1>8, <1>9, <1>10 DEF TimerStep

\* The object a pass reaches is an allocated one, and the rest is a list again.
LEMMA ReachType ==
  ASSUME TypeInv, NEW name, NEW s, Reach(name, s)
  PROVE  /\ Head(procTodo) \in Procs
         /\ proc[Head(procTodo)] \in ProcType
         /\ proc[Head(procTodo)].state \in s
         /\ Tail(procTodo) \in Seq(Procs)
<1>1. procTodo \in Seq(Procs) /\ procTodo # <<>>
  BY DEF TypeInv, TypeOK, Reach
<1>2. Head(procTodo) \in Procs /\ Tail(procTodo) \in Seq(Procs)
  BY <1>1
<1> QED
  BY <1>2 DEF TypeInv, TypeOK, Reach

\* Updating the object a pass reaches, without freeing it or changing its rule.
LEMMA UpdateType ==
  ASSUME TypeInv, NEW p \in Procs, NEW new \in ProcType,
         proc[p].state # "FREE", new.rule = proc[p].rule,
         proc' = [proc EXCEPT ![p] = new]
  PROVE  proc' \in [Procs -> ProcType] /\ ObjectHasRule'
BY DEF TypeInv, TypeOK, ObjectHasRule

\* "Disconnect from rule" leaves pointers to process objects.
LEMMA DisconnectType ==
  ASSUME TypeInv, NEW p \in Procs
  PROVE  Disconnect(p) \in Pointers
BY DEF TypeInv, TypeOK, Disconnect, Pointers

\* The passes over the process list keep the types.
LEMMA ProcessStepTypes ==
  ASSUME TypeInv, ProcessStep
  PROVE  TypeInv'
<1> DEFINE p == Head(procTodo)
<1> USE DEF TypeInv, Advance, ownRules, ruleVars, timerVars, listVars, envVars,
            loopVars
<1>1. CASE Spawn
  <2>1. /\ p \in Procs /\ proc[p] \in ProcType /\ proc[p].state = "RUNME"
        /\ procTodo' \in Seq(Procs)
    BY <1>1, ReachType DEF Spawn
  <2> DEFINE new == [proc[p] EXCEPT !.state = "STARTING", !.tm = StartingTm]
  <2>2. new \in ProcType /\ new.rule = proc[p].rule
    BY <2>1, BoundAssumption DEF ProcType, ProcStates
  <2>3. proc' = [proc EXCEPT ![p] = new]
    BY <1>1, <2>1 DEF Spawn, TypeOK, ProcType
  <2>4. os' \in [Procs -> OsStates]
    BY <1>1, <2>1 DEF Spawn, TypeOK, OsStates
  <2> HIDE DEF new
  <2>5. proc' \in [Procs -> ProcType] /\ ObjectHasRule'
    BY <2>1, <2>2, <2>3, UpdateType
  <2> QED
    BY <1>1, <2>1, <2>4, <2>5 DEF Spawn, TypeOK
<1>2. CASE StartingWaits
  <2>1. /\ p \in Procs /\ proc[p] \in ProcType /\ proc[p].state = "STARTING"
        /\ proc[p].tm # 0 /\ procTodo' \in Seq(Procs)
    BY <1>2, ReachType DEF StartingWaits
  <2> DEFINE new == [proc[p] EXCEPT !.tm = @ - 1]
  <2>2. new \in ProcType /\ new.rule = proc[p].rule
    BY <2>1 DEF ProcType
  <2>3. proc' = [proc EXCEPT ![p] = new]
    BY <1>2, <2>1 DEF StartingWaits, TypeOK, ProcType
  <2> HIDE DEF new
  <2>4. proc' \in [Procs -> ProcType] /\ ObjectHasRule'
    BY <2>1, <2>2, <2>3, UpdateType
  <2> QED
    BY <1>2, <2>1, <2>4 DEF StartingWaits, TypeOK
<1>3. CASE Started
  <2>1. /\ p \in Procs /\ proc[p] \in ProcType /\ proc[p].state = "STARTING"
        /\ procTodo' \in Seq(Procs)
    BY <1>3, ReachType DEF Started
  <2> DEFINE new == [proc[p] EXCEPT !.state = "RUNNING"]
  <2>2. new \in ProcType /\ new.rule = proc[p].rule
    BY <2>1 DEF ProcType, ProcStates
  <2>3. proc' = [proc EXCEPT ![p] = new]
    BY <1>3, <2>1 DEF Started, TypeOK, ProcType
  <2> HIDE DEF new
  <2>4. proc' \in [Procs -> ProcType] /\ ObjectHasRule'
    BY <2>1, <2>2, <2>3, UpdateType
  <2> QED
    BY <1>3, <2>1, <2>4 DEF Started, TypeOK
<1>4. CASE StartedRaced
  <2>1. /\ p \in Procs /\ proc[p] \in ProcType /\ proc[p].state = "STARTING"
        /\ procTodo' \in Seq(Procs) /\ os[p] \in Ends
    BY <1>4, ReachType DEF StartedRaced
  <2> DEFINE new == [proc[p] EXCEPT !.state = "RUNNING", !.retstat = os[p]]
  <2>2. new \in ProcType /\ new.rule = proc[p].rule
    BY <2>1 DEF ProcType, ProcStates, Retstats
  <2>3. proc' = [proc EXCEPT ![p] = new]
    BY <1>4, <2>1 DEF StartedRaced, TypeOK, ProcType
  <2>4. os' \in [Procs -> OsStates]
    BY <1>4, <2>1 DEF StartedRaced, TypeOK, OsStates
  <2> HIDE DEF new
  <2>5. proc' \in [Procs -> ProcType] /\ ObjectHasRule'
    BY <2>1, <2>2, <2>3, UpdateType
  <2> QED
    BY <1>4, <2>1, <2>4, <2>5 DEF StartedRaced, TypeOK
<1>5. CASE StartSkips
  BY <1>5, ReachType DEF StartSkips, TypeOK, ObjectHasRule
<1>6. CASE StartPassDone
  BY <1>6 DEF StartPassDone, TypeOK, ObjectHasRule
<1>7. CASE MarkStopped
  <2>1. /\ p \in Procs /\ proc[p] \in ProcType
        /\ proc[p].state \in {"STOPPING", "RUNME"} /\ procTodo' \in Seq(Procs)
    BY <1>7, ReachType DEF MarkStopped
  <2> DEFINE new == [proc[p] EXCEPT !.state = "STOPPED"]
  <2>2. new \in ProcType /\ new.rule = proc[p].rule
    BY <2>1 DEF ProcType, ProcStates
  <2>3. proc' = [proc EXCEPT ![p] = new]
    BY <1>7, <2>1 DEF MarkStopped, TypeOK, ProcType
  <2> HIDE DEF new
  <2>4. proc' \in [Procs -> ProcType] /\ ObjectHasRule'
    BY <2>1, <2>2, <2>3, UpdateType
  <2> QED
    BY <1>7, <2>1, <2>4 DEF MarkStopped, TypeOK
<1>8. CASE Reap
  <2>1. p \in Procs /\ procTodo' \in Seq(Procs)
    BY <1>8, ReachType DEF Reap
  <2>2. ruleProc' \in Pointers /\ procList' \in Seq(Procs)
    BY <1>8, <2>1, DisconnectType, UnlinkType DEF Reap
  <2>3. FreeObj \in ProcType
    BY DEF FreeObj, ProcType, ProcStates, Retstats
  <2>4. proc' \in [Procs -> ProcType] /\ ObjectHasRule'
    BY <1>8, <2>1, <2>3 DEF Reap, TypeOK, ObjectHasRule, FreeObj
  <2>5. os' \in [Procs -> OsStates]
    BY <1>8, <2>1 DEF Reap, FreeOs, TypeOK, OsStates
  <2>6. waiting' \in SUBSET Clients
    BY <1>8 DEF Reap, Reply, TypeOK
  <2> QED
    BY <1>8, <2>1, <2>2, <2>4, <2>5, <2>6 DEF Reap, TypeOK, Pointers
<1>9. CASE ReapUnexpected
  <2> DEFINE r == proc[p].rule
             conn == Disconnect(p)
             states == IF Queued(r) THEN [ruleState EXCEPT ![r] = "FAILED"]
                                    ELSE ruleState
             next == FailureTarget(r, states)
             mode == TriggerMode(r, next)
             conn2 == StopConn(conn, mode)
             procs2 == StopProcs(conn, mode, NoClient)
             queue == Dequeue(r)
             refused == next # NoRule
                        /\ (Active(states[next]) \/ conn2[next] # NoProc)
  <2>1. /\ p \in Procs /\ proc[p] \in ProcType /\ proc[p].state = "STOPPED"
        /\ Tail(procTodo) \in Seq(Procs)
    <3>1. Reach("stop", {"STOPPED"})
      BY <1>9 DEF ReapUnexpected
    <3> QED
      BY <3>1, ReachType
  <2>2. r \in Rules
    BY <2>1 DEF ObjectHasRule
  <2>3. conn \in Pointers
    BY <2>1, DisconnectType
  <2>4. states \in [Rules -> RuleStates]
    BY <2>2 DEF TypeOK, RuleStates
  <2>5. next \in Rules \cup {NoRule}
    BY <2>2, FailureTargetType
  <2>6. mode \in Modes
    BY DEF TriggerMode, Modes
  <2>7. queue \in Seq(TimerType)
    BY <2>2, DequeueType
  <2>8. /\ conn2 \in Pointers
        /\ procs2 \in [Procs -> ProcType]
        /\ \A q \in Procs : /\ procs2[q].rule = proc[q].rule
                            /\ procs2[q].state = "FREE" <=> proc[q].state = "FREE"
    <3> HIDE DEF conn, mode
    <3> QED
      BY <2>3, <2>6, StopType
  <2>9. /\ ruleProc' = conn2
        /\ IF refused
           THEN /\ ruleState' = states
                /\ timerQ' = queue
                /\ proc' = procs2
                /\ UNCHANGED <<procList, procTodo, os>>
           ELSE /\ ruleState' = [q \in Rules |-> IF q = next
                                   THEN "START_WAITING" ELSE states[q]]
                /\ timerQ' = IF next = NoRule THEN queue ELSE Enqueue(queue, next)
                /\ proc' = [procs2 EXCEPT ![p] = FreeObj]
                /\ procList' = Unlink(p)
                /\ FreeOs(p)
                /\ procTodo' = Tail(procTodo)
        /\ pc' \in {pc, "down"}
        /\ UNCHANGED <<delay, ready, timerTodo, enqueueList, procFlag, envVars,
                       tickCounter>>
    BY <1>9 DEF ReapUnexpected
  <2> HIDE DEF r, conn, states, next, mode, conn2, procs2, queue, refused
  <2>10. CASE refused
    BY <2>4, <2>7, <2>8, <2>9, <2>10 DEF TypeOK, ObjectHasRule, Pointers
  <2>11. CASE ~refused
    <3>1. FreeObj \in ProcType /\ FreeObj.state = "FREE"
      BY DEF FreeObj, ProcType, ProcStates, Retstats
    <3>2. proc' = [procs2 EXCEPT ![p] = FreeObj]
      BY <2>9, <2>11
    <3>3. proc' \in [Procs -> ProcType] /\ ObjectHasRule'
      BY <2>1, <2>8, <3>1, <3>2 DEF ObjectHasRule
    <3>4. procList' \in Seq(Procs) /\ procTodo' \in Seq(Procs)
      BY <2>1, <2>9, <2>11, UnlinkType
    <3>5. os' \in [Procs -> OsStates]
      BY <2>1, <2>9, <2>11 DEF FreeOs, TypeOK, OsStates
    <3>6. ruleState' \in [Rules -> RuleStates]
      BY <2>4, <2>9, <2>11 DEF RuleStates
    <3>7. timerQ' \in Seq(TimerType)
      <4>1. CASE next = NoRule
        BY <2>7, <2>9, <2>11, <4>1
      <4>2. CASE next # NoRule
        <5>1. TimerObj(next) \in TimerType
          BY <2>5, <4>2, TimerObjType
        <5>2. timerQ' = Append(queue, TimerObj(next))
          BY <2>9, <2>11, <4>2 DEF Enqueue
        <5> QED
          BY <2>7, <5>1, <5>2
      <4> QED
        BY <4>1, <4>2
    <3> QED
      BY <2>8, <2>9, <3>3, <3>4, <3>5, <3>6, <3>7 DEF TypeOK, Pointers
  <2> QED
    BY <2>10, <2>11
<1>10. CASE TermWaits
  BY <1>10, ReachType DEF TermWaits, TypeOK, ObjectHasRule
<1>11. CASE Terminate
  <2>1. /\ p \in Procs /\ proc[p] \in ProcType /\ proc[p].state = "TERMME"
        /\ procTodo' \in Seq(Procs)
    BY <1>11, ReachType DEF Terminate
  <2> DEFINE state == IF os[p] = "reaped" THEN "STOPPED" ELSE "KILLME"
             new == IF HasPid(p)
                    THEN [proc[p] EXCEPT !.signaled = TRUE, !.tm = KillTm,
                                         !.state = state]
                    ELSE [proc[p] EXCEPT !.state = "STOPPED"]
  <2>2. new \in ProcType /\ new.rule = proc[p].rule
    BY <2>1, BoundAssumption DEF ProcType, ProcStates
  <2>3. proc' = [proc EXCEPT ![p] = new]
    BY <1>11, <2>1 DEF Terminate, TypeOK, ProcType
  <2> HIDE DEF new
  <2>4. proc' \in [Procs -> ProcType] /\ ObjectHasRule'
    BY <2>1, <2>2, <2>3, UpdateType
  <2> QED
    BY <1>11, <2>1, <2>4 DEF Terminate, TypeOK
<1>12. CASE KillWaits
  <2>1. /\ p \in Procs /\ proc[p] \in ProcType /\ proc[p].state = "KILLME"
        /\ proc[p].tm # 0 /\ procTodo' \in Seq(Procs)
    BY <1>12, ReachType DEF KillWaits
  <2> DEFINE new == [proc[p] EXCEPT !.tm = @ - 1]
  <2>2. new \in ProcType /\ new.rule = proc[p].rule
    BY <2>1 DEF ProcType
  <2>3. proc' = [proc EXCEPT ![p] = new]
    BY <1>12, <2>1 DEF KillWaits, TypeOK, ProcType
  <2> HIDE DEF new
  <2>4. proc' \in [Procs -> ProcType] /\ ObjectHasRule'
    BY <2>1, <2>2, <2>3, UpdateType
  <2> QED
    BY <1>12, <2>1, <2>4 DEF KillWaits, TypeOK
<1>13. CASE Kill
  <2>1. /\ p \in Procs /\ proc[p] \in ProcType /\ proc[p].state = "KILLME"
        /\ procTodo' \in Seq(Procs)
    BY <1>13, ReachType DEF Kill
  <2> DEFINE sig == proc[p].signaled \/ HasPid(p)
             new == [proc[p] EXCEPT !.state = "STOPPED", !.signaled = sig]
  <2>2. new \in ProcType /\ new.rule = proc[p].rule
    <3>1. sig \in BOOLEAN
      OBVIOUS
    <3>2. \A x \in BOOLEAN :
            LET o == [proc[p] EXCEPT !.state = "STOPPED", !.signaled = x]
            IN  o \in ProcType /\ o.rule = proc[p].rule
      BY <2>1 DEF ProcType, ProcStates
    <3> HIDE DEF sig
    <3> QED
      BY <3>1, <3>2, Zenon
  <2>3. proc' = [proc EXCEPT ![p] = new]
    BY <1>13, <2>1 DEF Kill, TypeOK, ProcType
  <2>4. os' \in [Procs -> OsStates]
    BY <1>13, <2>1 DEF Kill, Sigkill, TypeOK, OsStates
  <2> HIDE DEF new
  <2>5. proc' \in [Procs -> ProcType] /\ ObjectHasRule'
    BY <2>1, <2>2, <2>3, UpdateType
  <2> QED
    BY <1>13, <2>1, <2>4, <2>5 DEF Kill, TypeOK
<1>14. CASE StopSkips
  BY <1>14, ReachType DEF StopSkips, TypeOK, ObjectHasRule
<1>15. CASE StopPassDone
  BY <1>15, BoundAssumption DEF StopPassDone, TypeOK, ObjectHasRule
<1> QED
  BY <1>1, <1>2, <1>3, <1>4, <1>5, <1>6, <1>7, <1>8, <1>9, <1>10, <1>11,
     <1>12, <1>13, <1>14, <1>15 DEF ProcessStep

\* Serving a message keeps the types.
LEMMA ApiStepTypes ==
  ASSUME TypeInv, MessageStep \/ ApiRequest
  PROVE  TypeInv'
<1> USE DEF TypeInv, Serve, Request, notServed, listVars, ruleVars, loopVars
<1>1. CASE MessagesDone
  <2>1. /\ timerQ' = <<>> /\ timerTodo' = timerQ /\ pc' = "timer" /\ budget' = 0
        /\ UNCHANGED <<ruleVars, enqueueList, procFlag, listVars, proc, os,
                       readyMsgs, waiting, reqs, tickCounter>>
    BY <1>1 DEF MessagesDone
  <2>2. timerQ' \in Seq(TimerType) /\ budget' \in 0..Budget
    BY <2>1, BoundAssumption
  <2> QED
    BY <2>1, <2>2 DEF TypeOK, ObjectHasRule
<1>2. ASSUME NEW p \in Procs, ServeReady(p)
      PROVE  TypeInv'
  <2>1. ready' \in [Rules -> BOOLEAN]
    BY <1>2 DEF ServeReady, TypeOK, ObjectHasRule
  <2>2. budget' \in 0..Budget /\ readyMsgs' \in SUBSET Procs
    BY <1>2, BoundAssumption DEF ServeReady, TypeOK
  <2> QED
    BY <1>2, <2>1, <2>2 DEF ServeReady, TypeOK, ObjectHasRule
<1>3. ASSUME Request
      PROVE  budget' \in 0..Budget /\ reqs' \in 0..MaxReqs
  BY <1>3, BoundAssumption DEF TypeOK
<1>4. CASE ApiAnswered
  BY <1>3, <1>4 DEF ApiAnswered, TypeOK, ObjectHasRule
<1>5. ASSUME NEW r \in Rules, ApiStart(r)
      PROVE  TypeInv'
  <2>1. TimerObj(r) \in TimerType
    BY TimerObjType
  <2>2. timerQ' \in Seq(TimerType)
    BY <1>5, <2>1 DEF ApiStart, Enqueue, TypeOK
  <2>3. ruleState' \in [Rules -> RuleStates]
    BY <1>5 DEF ApiStart, TypeOK, RuleStates
  <2> QED
    BY <1>3, <1>5, <2>2, <2>3 DEF ApiStart, TypeOK, ObjectHasRule
<1>6. ASSUME NEW r \in Rules, ApiStopQueued(r)
      PROVE  TypeInv'
  <2> DEFINE mode == [Keep EXCEPT ![r] = "TERMME"]
  <2>1. mode \in Modes
    BY DEF Keep, Modes
  <2>2. /\ proc' = StopProcs(ruleProc, mode, NoClient)
        /\ ruleProc' = StopConn(ruleProc, mode)
    BY <1>6 DEF ApiStopQueued
  <2>3. ruleProc \in Pointers
    BY DEF TypeOK, Pointers
  <2> HIDE DEF mode
  <2>4. /\ proc' \in [Procs -> ProcType]
        /\ ruleProc' \in Pointers
        /\ \A p \in Procs : /\ proc'[p].rule = proc[p].rule
                            /\ proc'[p].state = "FREE" <=> proc[p].state = "FREE"
    BY <2>1, <2>2, <2>3, StopType
  <2>5. timerQ' \in Seq(TimerType)
    BY <1>6, DequeueType DEF ApiStopQueued
  <2>6. ruleState' \in [Rules -> RuleStates]
    BY <1>6 DEF ApiStopQueued, DequeuedState, TypeOK, RuleStates
  <2> QED
    BY <1>3, <1>6, <2>4, <2>5, <2>6
    DEF ApiStopQueued, TypeOK, ObjectHasRule, Pointers
<1>7. ASSUME NEW r \in Rules, NEW how \in {"TERMME", "KILLME"},
             NEW c \in Clients \cup {NoClient}, ApiStopRunning(r, how, c)
      PROVE  TypeInv'
  <2> DEFINE mode == [Keep EXCEPT ![r] = how]
  <2>1. mode \in Modes
    BY DEF Keep, Modes
  <2>2. /\ proc' = StopProcs(ruleProc, mode, c)
        /\ ruleProc' = StopConn(ruleProc, mode)
    BY <1>7 DEF ApiStopRunning
  <2>3. ruleProc \in Pointers
    BY DEF TypeOK, Pointers
  <2> HIDE DEF mode
  <2>4. /\ proc' \in [Procs -> ProcType]
        /\ ruleProc' \in Pointers
        /\ \A p \in Procs : /\ proc'[p].rule = proc[p].rule
                            /\ proc'[p].state = "FREE" <=> proc[p].state = "FREE"
    BY <2>1, <2>2, <2>3, StopType
  <2>5. ruleState' \in [Rules -> RuleStates]
    BY <1>7 DEF ApiStopRunning, TypeOK, RuleStates
  <2>6. waiting' \in SUBSET Clients
    BY <1>7 DEF ApiStopRunning, TypeOK
  <2> QED
    BY <1>3, <1>7, <2>4, <2>5, <2>6
    DEF ApiStopRunning, TypeOK, ObjectHasRule, Pointers
<1> QED
  BY <1>1, <1>2, <1>4, <1>5, <1>6, <1>7 DEF MessageStep, ApiRequest

\* What children do, and the SIGCHLD handler, keep the types.
LEMMA ChildStepTypes ==
  ASSUME TypeInv, ChildStep
  PROVE  TypeInv'
<1> USE DEF TypeInv, supervisor, ownRules, ruleVars, timerVars, listVars,
            loopVars
<1>1. ASSUME NEW p \in Procs, NEW how \in Ends, ChildEnds(p, how)
      PROVE  TypeInv'
  BY <1>1 DEF ChildEnds, TypeOK, ObjectHasRule, OsStates
<1>2. ASSUME NEW p \in Procs, KilledEnds(p)
      PROVE  TypeInv'
  BY <1>2 DEF KilledEnds, TypeOK, ObjectHasRule, OsStates, Ends
<1>3. ASSUME NEW p \in Procs, SendReady(p)
      PROVE  TypeInv'
  BY <1>3 DEF SendReady, TypeOK, ObjectHasRule
<1>4. ASSUME NEW p \in Procs, Sigchld(p)
      PROVE  TypeInv'
  <2>1. CASE proc[p].state = "FREE"
    BY <1>4, <2>1 DEF Sigchld, TypeOK, ObjectHasRule, OsStates
  <2>2. CASE proc[p].state # "FREE"
    <3> DEFINE new == Chld(p)
    <3>1. proc[p] \in ProcType /\ os[p] \in Ends
      BY <1>4 DEF Sigchld, TypeOK
    <3>2. new \in ProcType /\ new.rule = proc[p].rule
      BY <3>1 DEF Chld, ProcType, ProcStates, Retstats
    <3>3. proc' = [proc EXCEPT ![p] = new]
      BY <1>4, <2>2 DEF Sigchld
    <3>4. os' \in [Procs -> OsStates]
      BY <1>4, <2>2 DEF Sigchld, TypeOK, OsStates
    <3> HIDE DEF new
    <3>5. proc' \in [Procs -> ProcType] /\ ObjectHasRule'
      BY <2>2, <3>2, <3>3, UpdateType
    <3> QED
      BY <1>4, <3>4, <3>5 DEF Sigchld, TypeOK
  <2> QED
    BY <2>1, <2>2
<1> QED
  BY <1>1, <1>2, <1>3, <1>4 DEF ChildStep

\* The state PCD_main_init leaves has the declared types.
LEMMA InitTypes == Init => TypeInv
<1> SUFFICES ASSUME Init PROVE TypeInv
  OBVIOUS
<1>1. timerQ \in Seq(TimerType)
  <2>1. \A i \in 1..Len(ActiveRules) : TimerObj(ActiveRules[i]) \in TimerType
    BY ConfAssumption, TimerObjType
  <2> QED
    BY <2>1, ConfAssumption DEF Init, Activate
<1>2. FreeObj \in ProcType /\ FreeObj.state = "FREE"
  BY DEF FreeObj, ProcType, ProcStates, Retstats
<1>3. delay \in [Rules -> Nat]
  BY ConfAssumption DEF Init, ConfType
<1>4. /\ timerTodo \in Seq(TimerType) /\ enqueueList \in Seq(Rules)
      /\ procList \in Seq(Procs) /\ procTodo \in Seq(Procs)
  BY DEF Init
<1>5. ruleState \in [Rules -> RuleStates]
  BY DEF Init, Activate, RuleStates
<1>6. ready \in [Rules -> BOOLEAN] /\ procFlag \in BOOLEAN
  BY DEF Init
<1>7. /\ ruleProc \in [Rules -> Procs \cup {NoProc}]
      /\ os \in [Procs -> OsStates]
      /\ readyMsgs \in SUBSET Procs /\ waiting \in SUBSET Clients
  BY DEF Init, OsStates
<1>8. reqs \in 0..MaxReqs /\ budget \in 0..Budget /\ tickCounter \in Nat
  BY BoundAssumption DEF Init
<1>9. proc \in [Procs -> ProcType] /\ ObjectHasRule
  BY <1>2 DEF Init, ObjectHasRule
<1>10. pc = "messages"
  BY DEF Init
<1> QED
  BY <1>1, <1>3, <1>4, <1>5, <1>6, <1>7, <1>8, <1>9, <1>10 DEF TypeInv, TypeOK

\* Every step of the specification keeps the types.
LEMMA NextTypes == TypeInv /\ [Next]_vars => TypeInv'
<1> SUFFICES ASSUME TypeInv, [Next]_vars PROVE TypeInv'
  OBVIOUS
<1>1. CASE UNCHANGED vars
  BY <1>1 DEF TypeInv, TypeOK, ObjectHasRule, vars
<1>2. CASE Next
  BY <1>1, <1>2, TimerStepTypes, ProcessStepTypes, ApiStepTypes, ChildStepTypes
  DEF Next, MainStep, Down
<1> QED
  BY <1>1, <1>2

\* Every variable keeps the type the code declares for it, for every rule base,
\* pool and bound: in particular the counters of process.c, timer.c and
\* condchk.c never run below zero.
THEOREM TypeCorrect == Spec => []TypeOK
<1>1. Spec => []TypeInv
  BY InitTypes, NextTypes, PTL DEF Spec
<1>2. TypeInv => TypeOK
  BY DEF TypeInv
<1> QED
  BY <1>1, <1>2, PTL
=============================================================================

--------------------------- MODULE PcdTimerProofs ---------------------------
(***************************************************************************)
(* One timer object for each rule: which rule bases keep it, and why.      *)
(***************************************************************************)
EXTENDS PcdLifeProofs

-----------------------------------------------------------------------------
(***************************************************************************)
(* Queues of timer objects.                                                *)
(***************************************************************************)

\* The queue has an object of rule r.
Holds(s, r) == \E i \in DOMAIN s : s[i].rule = r

\* It has no second object of any rule.
Once(s) == \A i, j \in DOMAIN s : s[i].rule = s[j].rule => i = j

\* An object is put at the end.
LEMMA AppendHolds ==
  ASSUME NEW s \in Seq(TimerType), NEW o \in TimerType
  PROVE  /\ \A r : Holds(Append(s, o), r) <=> Holds(s, r) \/ r = o.rule
         /\ Once(s) /\ ~Holds(s, o.rule) => Once(Append(s, o))
<1> DEFINE t == Append(s, o)
<1>1. /\ Len(s) \in Nat /\ DOMAIN s = 1..Len(s) /\ DOMAIN t = 1..(Len(s) + 1)
      /\ t[Len(s) + 1] = o /\ \A i \in DOMAIN s : t[i] = s[i]
  OBVIOUS
<1> HIDE DEF t
<1>2. Len(s) + 1 \in DOMAIN t /\ \A i \in DOMAIN t : i \in DOMAIN s \/ i = Len(s) + 1
  BY <1>1
<1>3. \A i \in DOMAIN s : i \in DOMAIN t
  BY <1>1
<1>4. \A r : Holds(t, r) <=> Holds(s, r) \/ r = o.rule
  BY <1>1, <1>2, <1>3 DEF Holds
<1>5. ASSUME Once(s), ~Holds(s, o.rule), NEW i \in DOMAIN t, NEW j \in DOMAIN t,
             t[i].rule = t[j].rule
      PROVE  i = j
  BY <1>1, <1>2, <1>5 DEF Once, Holds
<1> QED
  BY <1>4, <1>5 DEF Once, t

\* The iteration takes the first object off.
LEMMA TailHolds ==
  ASSUME NEW s \in Seq(TimerType), s # <<>>
  PROVE  /\ \A r : Holds(s, r) <=> Holds(Tail(s), r) \/ r = Head(s).rule
         /\ Once(s) => Once(Tail(s)) /\ ~Holds(Tail(s), Head(s).rule)
<1> DEFINE t == Tail(s)
<1>1. /\ Len(s) \in Nat /\ Len(s) >= 1 /\ DOMAIN s = 1..Len(s)
      /\ Head(s) = s[1] /\ DOMAIN t = 1..(Len(s) - 1)
      /\ \A i \in 1..(Len(s) - 1) : t[i] = s[i + 1]
  OBVIOUS
<1> HIDE DEF t
<1>2. \A i \in DOMAIN t : i + 1 \in DOMAIN s /\ i + 1 # 1 /\ t[i] = s[i + 1]
  BY <1>1
<1>3. \A i \in DOMAIN s : i = 1 \/ (i - 1 \in DOMAIN t /\ t[i - 1] = s[i])
  BY <1>1
<1>4. 1 \in DOMAIN s
  BY <1>1
<1>5. \A r : Holds(s, r) <=> Holds(t, r) \/ r = Head(s).rule
  BY <1>1, <1>2, <1>3, <1>4 DEF Holds
<1>6. ASSUME Once(s) PROVE ~Holds(t, Head(s).rule)
  BY <1>1, <1>2, <1>4, <1>6 DEF Once, Holds
<1>7. ASSUME Once(s), NEW i \in DOMAIN t, NEW j \in DOMAIN t, t[i].rule = t[j].rule
      PROVE  i = j
  <2>1. i + 1 = j + 1
    BY <1>2, <1>7 DEF Once
  <2> QED
    BY <1>1, <2>1
<1> QED
  BY <1>5, <1>6, <1>7 DEF Once, t

\* PCD_timer_dequeue_rule takes out the object of the rule.
LEMMA DequeueHolds ==
  ASSUME TypeOK, Once(timerQ), NEW r \in Rules
  PROVE  /\ Dequeue(r) \in Seq(TimerType) /\ Once(Dequeue(r))
         /\ \A q : Holds(Dequeue(r), q) <=> Holds(timerQ, q) /\ q # r
<1> DEFINE I == {i \in 1..Len(timerQ) : timerQ[i].rule = r}
<1>1. /\ timerQ \in Seq(TimerType) /\ DOMAIN timerQ = 1..Len(timerQ)
      /\ Len(timerQ) \in Nat
  BY DEF TypeOK
<1>2. CASE I = {}
  <2>1. Dequeue(r) = timerQ
    BY <1>2 DEF Dequeue, RemoveFirstMatch
  <2>2. ~Holds(timerQ, r)
    BY <1>1, <1>2 DEF Holds
  <2> QED
    BY <1>1, <2>1, <2>2
<1>3. CASE I # {}
  <2>1. Min(I) \in I
    <3>1. I \in SUBSET Nat
      OBVIOUS
    <3> HIDE DEF I
    <3> QED
      BY <1>3, <3>1, MinOfNat
  <2> DEFINE m == Min(I)
             t == RemoveAt(timerQ, m)
  <2>2. Dequeue(r) = t
    BY <1>3 DEF Dequeue, RemoveFirstMatch, SelectInSeq
  <2>3. m \in 1..Len(timerQ) /\ timerQ[m].rule = r
    BY <2>1
  <2> HIDE DEF m
  <2>4. /\ t \in Seq(TimerType) /\ Len(t) = Len(timerQ) - 1
        /\ \A k \in 1..(Len(timerQ) - 1) : t[k] = IF k < m THEN timerQ[k] ELSE timerQ[k + 1]
    BY <1>1, <2>3, RemoveAtElements
  <2>5. DOMAIN t = 1..(Len(timerQ) - 1)
    BY <2>4
  <2> HIDE DEF t
  <2>6. ASSUME NEW k \in DOMAIN t
        PROVE  \E n \in DOMAIN timerQ : /\ n # m /\ t[k] = timerQ[n]
                                        /\ n = IF k < m THEN k ELSE k + 1
    BY <1>1, <2>3, <2>4, <2>5
  <2>7. ASSUME NEW n \in DOMAIN timerQ, n # m
        PROVE  \E k \in DOMAIN t : t[k] = timerQ[n]
    <3>1. CASE n < m
      <4>1. n \in DOMAIN t /\ t[n] = timerQ[n]
        BY <1>1, <2>3, <2>4, <2>5, <3>1
      <4> QED
        BY <4>1
    <3>2. CASE n > m
      <4>1. n - 1 \in DOMAIN t /\ t[n - 1] = timerQ[n]
        BY <1>1, <2>3, <2>4, <2>5, <3>2
      <4> QED
        BY <4>1
    <3> QED
      BY <1>1, <2>3, <2>7, <3>1, <3>2
  <2>8. ASSUME NEW i \in DOMAIN t, NEW j \in DOMAIN t, t[i].rule = t[j].rule
        PROVE  i = j
    <3>1. PICK a \in DOMAIN timerQ : /\ t[i] = timerQ[a]
                                     /\ a = IF i < m THEN i ELSE i + 1
      BY <2>6
    <3>2. PICK b \in DOMAIN timerQ : /\ t[j] = timerQ[b]
                                     /\ b = IF j < m THEN j ELSE j + 1
      BY <2>6
    <3>3. a = b
      BY <2>8, <3>1, <3>2 DEF Once
    <3> QED
      BY <1>1, <2>3, <2>5, <3>1, <3>2, <3>3
  <2>9. ~Holds(t, r)
    BY <1>1, <2>3, <2>6 DEF Once, Holds
  <2>10. \A q : q # r => (Holds(t, q) <=> Holds(timerQ, q))
    <3>1. ASSUME NEW q, Holds(t, q) PROVE Holds(timerQ, q)
      BY <2>6, <3>1 DEF Holds
    <3>2. ASSUME NEW q, q # r, Holds(timerQ, q) PROVE Holds(t, q)
      BY <2>3, <2>7, <3>2 DEF Holds
    <3> QED
      BY <3>1, <3>2
  <2> QED
    BY <2>2, <2>4, <2>8, <2>9, <2>10 DEF Once
<1> QED
  BY <1>2, <1>3

\* PCD_timer_enqueue_handle puts an object for each rule of a list at the end.
LEMMA EnqueueAllHolds ==
  ASSUME NEW s \in Seq(TimerType), Once(s), NEW l \in Seq(Rules), Distinct(l),
         \A i \in DOMAIN l : ~Holds(s, l[i])
  PROVE  LET t == s \o [i \in DOMAIN l |-> TimerObj(l[i])]
         IN  /\ Once(t)
             /\ \A r : Holds(t, r) <=> Holds(s, r) \/ r \in Range(l)
<1> DEFINE new == [i \in DOMAIN l |-> TimerObj(l[i])]
           t == s \o new
<1>1. /\ DOMAIN l = 1..Len(l) /\ Len(l) \in Nat
      /\ DOMAIN s = 1..Len(s) /\ Len(s) \in Nat
  OBVIOUS
<1>2. /\ new \in Seq(TimerType) /\ Len(new) = Len(l)
      /\ \A i \in DOMAIN l : new[i].rule = l[i]
  <2>1. \A i \in 1..Len(l) : /\ TimerObj(l[i]) \in TimerType
                             /\ TimerObj(l[i]).rule = l[i]
    BY <1>1, TimerObjType DEF TimerObj
  <2> QED
    BY <1>1, <2>1
<1> HIDE DEF new
<1>3. /\ DOMAIN t = 1..(Len(s) + Len(l))
      /\ \A i \in DOMAIN s : i \in DOMAIN t /\ t[i] = s[i]
      /\ \A i \in 1..Len(l) : Len(s) + i \in DOMAIN t /\ t[Len(s) + i] = new[i]
  <2>1. /\ t \in Seq(TimerType) /\ Len(t) = Len(s) + Len(l)
        /\ \A i \in 1..(Len(s) + Len(l)) :
             t[i] = IF i <= Len(s) THEN s[i] ELSE new[i - Len(s)]
    <3>1. new \in Seq(TimerType) /\ Len(new) = Len(l)
      BY <1>2
    <3>2. /\ s \o new \in Seq(TimerType) /\ Len(s \o new) = Len(s) + Len(new)
          /\ \A i \in 1..(Len(s) + Len(new)) :
               (s \o new)[i] = IF i <= Len(s) THEN s[i] ELSE new[i - Len(s)]
      BY <3>1, ConcatProperties
    <3> QED
      BY <3>1, <3>2, Zenon
  <2>2. DOMAIN t = 1..(Len(s) + Len(l))
    BY <2>1
  <2> HIDE DEF t
  <2>3. ASSUME NEW i \in 1..Len(l)
        PROVE  Len(s) + i \in DOMAIN t /\ t[Len(s) + i] = new[i]
    <3>1. /\ Len(s) + i \in 1..(Len(s) + Len(l)) /\ ~(Len(s) + i <= Len(s))
          /\ (Len(s) + i) - Len(s) = i
      BY <1>1
    <3> QED
      BY <2>1, <2>2, <3>1
  <2> QED
    BY <1>1, <2>1, <2>2, <2>3
<1> HIDE DEF t
<1>4. ASSUME NEW k \in DOMAIN t
      PROVE  \/ k \in DOMAIN s /\ t[k] = s[k]
             \/ \E i \in DOMAIN l : k = Len(s) + i /\ t[k].rule = l[i]
  <2>1. CASE k <= Len(s)
    BY <1>1, <1>3, <2>1
  <2>2. CASE k > Len(s)
    <3>1. k - Len(s) \in 1..Len(l) /\ k = Len(s) + (k - Len(s))
      BY <1>1, <1>3, <2>2
    <3>2. t[k] = new[k - Len(s)] /\ k - Len(s) \in DOMAIN l
      BY <1>1, <1>3, <3>1
    <3>3. t[k].rule = l[k - Len(s)]
      BY <1>2, <3>2
    <3> QED
      BY <3>1, <3>2, <3>3
  <2> QED
    BY <1>1, <1>3, <2>1, <2>2
<1>5. ASSUME NEW i \in DOMAIN t, NEW j \in DOMAIN t, t[i].rule = t[j].rule
      PROVE  i = j
  <2>1. CASE i \in DOMAIN s /\ t[i] = s[i] /\ j \in DOMAIN s /\ t[j] = s[j]
    BY <1>5, <2>1 DEF Once
  <2>2. ASSUME NEW a \in DOMAIN l, t[i].rule = l[a], i = Len(s) + a,
               NEW b \in DOMAIN l, t[j].rule = l[b], j = Len(s) + b
        PROVE  i = j
    BY <1>5, <2>2 DEF Distinct
  <2>3. \A a \in DOMAIN l, b \in DOMAIN s : s[b].rule # l[a]
    BY DEF Holds
  <2> QED
    BY <1>4, <1>5, <2>1, <2>2, <2>3
<1>6. ASSUME NEW r, Holds(t, r) PROVE Holds(s, r) \/ r \in Range(l)
  BY <1>4, <1>6 DEF Holds, Range
<1>7. ASSUME NEW r, Holds(s, r) PROVE Holds(t, r)
  BY <1>3, <1>7 DEF Holds
<1>8. ASSUME NEW r \in Range(l) PROVE Holds(t, r)
  <2>1. PICK i \in DOMAIN l : l[i] = r
    BY DEF Range
  <2>2. Len(s) + i \in DOMAIN t /\ t[Len(s) + i].rule = r
    BY <1>1, <1>2, <1>3, <2>1
  <2> QED
    BY <2>2 DEF Holds
<1> QED
  BY <1>5, <1>6, <1>7, <1>8 DEF Once, t, new

-----------------------------------------------------------------------------
(***************************************************************************)
(* The inductive invariant.                                                *)
(***************************************************************************)

\* No rule has two objects, in the part of the queue that has been visited and
\* in the rest.
UniqueObjs ==
  /\ Once(timerQ) /\ Once(timerTodo)
  /\ \A r \in Rules : ~(Holds(timerQ, r) /\ Holds(timerTodo, r))

\* The converse of ActiveIsQueued.
QueuedIsActive == \A r \in Rules : InQueue(r) => Active(ruleState[r])

\* A rule is on the enqueue list because of a rule that names it, whose object
\* this iteration has taken out.
Blamed ==
  \A i \in DOMAIN enqueueList :
    \E r \in Rules : Named(r) = enqueueList[i] /\ ~Holds(timerTodo, r)

UniqueInv == UniqueObjs /\ QueuedIsActive /\ Distinct(enqueueList) /\ Blamed

LEMMA InQueueMeans ==
  \A r : InQueue(r) <=> Holds(timerQ, r) \/ Holds(timerTodo, r)
BY DEF InQueue, Queued, Holds

LEMMA InQueueMeansNext ==
  \A r : InQueue(r)' <=> Holds(timerQ', r) \/ Holds(timerTodo', r)
BY DEF InQueue, Queued, Holds

LEMMA TargetIsNamed ==
  ASSUME NEW r \in Rules, NEW states, FailureTarget(r, states) # NoRule
  PROVE  FailureTarget(r, states) = Named(r)
BY DEF FailureTarget, Named

\* The iteration takes an object off and puts it back, or another of the same rule.
LEMMA VisitPutsBack ==
  ASSUME TypeInv, UniqueInv, NEW s, Visit(s), enqueueList' = enqueueList,
         NEW o \in TimerType, o.rule = Head(timerTodo).rule,
         timerQ' = Append(timerQ, o),
         \A q \in Rules : Active(ruleState[q]) => Active(ruleState'[q])
  PROVE  UniqueInv'
<1> DEFINE h == Head(timerTodo).rule
<1>0. /\ timerTodo \in Seq(TimerType) /\ timerTodo # <<>> /\ timerQ \in Seq(TimerType)
      /\ timerTodo' = Tail(timerTodo)
  BY DEF TypeInv, TypeOK, Visit
<1>1. /\ \A r : Holds(timerTodo, r) <=> Holds(timerTodo', r) \/ r = h
      /\ Once(timerTodo') /\ ~Holds(timerTodo', h)
  BY <1>0, TailHolds DEF UniqueInv, UniqueObjs
<1>2. h \in Rules
  BY VisitType
<1>3. ~Holds(timerQ, h) /\ Once(timerQ)
  BY <1>1, <1>2 DEF UniqueInv, UniqueObjs
<1>4. /\ \A r : Holds(timerQ', r) <=> Holds(timerQ, r) \/ r = h
      /\ Once(timerQ')
  BY <1>0, <1>3, AppendHolds
<1> HIDE DEF h
<1>5. UniqueObjs'
  BY <1>1, <1>4 DEF UniqueInv, UniqueObjs
<1>6. QueuedIsActive'
  BY <1>1, <1>4, InQueueMeans, InQueueMeansNext DEF UniqueInv, QueuedIsActive
<1>7. Blamed' /\ Distinct(enqueueList')
  BY <1>1 DEF UniqueInv, Blamed
<1> QED
  BY <1>5, <1>6, <1>7 DEF UniqueInv

\* The iteration drops the object of a rule.
LEMMA VisitDrops ==
  ASSUME TypeInv, UniqueInv, NEW s, Visit(s), timerQ' = timerQ,
         \A q \in Rules : q # Head(timerTodo).rule => ruleState'[q] = ruleState[q]
  PROVE  /\ UniqueObjs' /\ QueuedIsActive'
         /\ \A r : Holds(timerTodo', r) => Holds(timerTodo, r)
         /\ ~Holds(timerTodo', Head(timerTodo).rule)
         /\ Holds(timerTodo, Head(timerTodo).rule)
<1> DEFINE h == Head(timerTodo).rule
<1>0. /\ timerTodo \in Seq(TimerType) /\ timerTodo # <<>> /\ timerQ \in Seq(TimerType)
      /\ timerTodo' = Tail(timerTodo)
  BY DEF TypeInv, TypeOK, Visit
<1>1. /\ \A r : Holds(timerTodo, r) <=> Holds(timerTodo', r) \/ r = h
      /\ Once(timerTodo') /\ ~Holds(timerTodo', h)
  BY <1>0, TailHolds DEF UniqueInv, UniqueObjs
<1>2. h \in Rules
  BY VisitType
<1>3. ~Holds(timerQ, h) /\ Once(timerQ)
  BY <1>1, <1>2 DEF UniqueInv, UniqueObjs
<1> HIDE DEF h
<1>4. \A q \in Rules : q # h => ruleState'[q] = ruleState[q]
  BY DEF h
<1>5. UniqueObjs'
  BY <1>1 DEF UniqueInv, UniqueObjs
<1>6. QueuedIsActive'
  BY <1>1, <1>3, <1>4, InQueueMeans, InQueueMeansNext DEF UniqueInv, QueuedIsActive
<1> QED
  BY <1>1, <1>5, <1>6 DEF h

\* A rule fails, and the rule it names goes to the enqueue list.
LEMMA FailRuleOnce ==
  ASSUME PlainRules, TypeInv, UniqueInv, NEW s, Visit(s), timerQ' = timerQ,
         NEW state \in RuleStates, FailRule(Head(timerTodo).rule, state)
  PROVE  UniqueInv'
<1> DEFINE h == Head(timerTodo).rule
           states == [ruleState EXCEPT ![h] = state]
           next == FailureTarget(h, states)
<1>0. /\ ruleState' = states
      /\ enqueueList' = IF next = NoRule THEN enqueueList ELSE Cons(next, enqueueList)
  BY DEF FailRule
<1>1. h \in Rules /\ enqueueList \in Seq(Rules) /\ ruleState \in [Rules -> RuleStates]
  BY VisitType DEF TypeInv, TypeOK
<1>2. \A q \in Rules : q # h => ruleState'[q] = ruleState[q]
  BY <1>0, <1>1
<1>3. /\ UniqueObjs' /\ QueuedIsActive'
      /\ \A r : Holds(timerTodo', r) => Holds(timerTodo, r)
      /\ ~Holds(timerTodo', h) /\ Holds(timerTodo, h)
  BY <1>2, VisitDrops
<1>4. Distinct(enqueueList) /\ Blamed
  BY DEF UniqueInv
<1>5. CASE next = NoRule
  BY <1>0, <1>3, <1>4, <1>5 DEF UniqueInv, Blamed
<1>6. CASE next # NoRule
  <2>1. next = Named(h)
    BY <1>1, <1>6, TargetIsNamed
  <2>2. next \in Rules
    BY <1>1, <1>6, FailureTargetType
  <2> HIDE DEF next, h
  <2>3. enqueueList' = Cons(next, enqueueList)
    BY <1>0, <1>6
  <2>4. next \notin Range(enqueueList)
    <3> SUFFICES ASSUME NEW i \in DOMAIN enqueueList, enqueueList[i] = next PROVE FALSE
      BY DEF Range
    <3>1. PICK r \in Rules : Named(r) = next /\ ~Holds(timerTodo, r)
      BY <1>4 DEF Blamed
    <3>2. r = h
      BY <1>1, <1>6, <2>1, <3>1 DEF PlainRules
    <3> QED
      BY <1>3, <3>1, <3>2
  <2>5. Distinct(enqueueList')
    BY <1>1, <1>4, <2>2, <2>3, <2>4, ConsElements
  <2>6. Range(enqueueList') = {next} \cup Range(enqueueList)
    BY <1>1, <2>2, <2>3, ConsElements
  <2>7. Blamed'
    <3> SUFFICES ASSUME NEW i \in DOMAIN enqueueList'
                 PROVE  \E r \in Rules : Named(r) = enqueueList'[i] /\ ~Holds(timerTodo', r)
      BY DEF Blamed
    <3>1. enqueueList'[i] \in Range(enqueueList')
      BY DEF Range
    <3>2. CASE enqueueList'[i] = next
      BY <1>1, <1>3, <2>1, <3>2
    <3>3. CASE enqueueList'[i] \in Range(enqueueList)
      <4>1. PICK j \in DOMAIN enqueueList : enqueueList[j] = enqueueList'[i]
        BY <3>3 DEF Range
      <4> QED
        BY <1>3, <1>4, <4>1 DEF Blamed
    <3> QED
      BY <2>6, <3>1, <3>2, <3>3
  <2> QED
    BY <1>3, <2>5, <2>7 DEF UniqueInv
<1> QED
  BY <1>5, <1>6

-----------------------------------------------------------------------------
(***************************************************************************)
(* The steps.                                                              *)
(***************************************************************************)

\* A start condition that names only rules of the database is never hopeless.
LEMMA NeverHopeless ==
  ASSUME PlainRules, NEW r \in Rules
  PROVE  "MISSING" \notin StartCondResults(r)
<1>1. CASE Conf[r].start = "RULE_COMPLETED"
  <2> DEFINE deps == Conf[r].deps
             I == {i \in 1..Len(deps) : IF deps[i] = NoRule THEN TRUE
                                        ELSE ruleState[deps[i]] # "COMPLETED"}
  <2>1. deps \in Seq(Rules \cup {NoRule}) /\ DOMAIN deps = 1..Len(deps)
    BY ConfAssumption DEF ConfType
  <2>2. \A i \in 1..Len(deps) : deps[i] # NoRule
    BY <1>1, <2>1 DEF PlainRules, Range
  <2>3. CASE I = {}
    BY <1>1, <2>3 DEF StartCondResults, DepsResult, SelectInSeq
  <2>4. CASE I # {}
    <3>1. Min(I) \in I
      <4>1. I \in SUBSET Nat
        OBVIOUS
      <4> HIDE DEF I
      <4> QED
        BY <2>4, <4>1, MinOfNat
    <3>2. deps[Min(I)] # NoRule
      BY <2>2, <3>1
    <3>3. DepsResult(r) \in {"NOK", "OK"}
      BY <2>4, <3>2 DEF DepsResult, SelectInSeq
    <3> QED
      BY <1>1, <3>3 DEF StartCondResults
  <2> QED
    BY <2>3, <2>4
<1>2. CASE Conf[r].start # "RULE_COMPLETED"
  <2>1. Conf[r].start \in {"NONE", "EXTERNAL"}
    BY <1>2, ConfAssumption DEF ConfType, StartConds
  <2> QED
    BY <2>1 DEF StartCondResults
<1> QED
  BY <1>1, <1>2

LEMMA ListKept ==
  ASSUME UniqueInv, enqueueList' = enqueueList,
         \A r : Holds(timerTodo', r) => Holds(timerTodo, r)
  PROVE  Distinct(enqueueList') /\ Blamed'
BY DEF UniqueInv, Blamed

\* A step that leaves the rules and the queue alone.
LEMMA UniqueUnchanged ==
  ASSUME UniqueInv, UNCHANGED <<ruleState, timerQ, timerTodo, enqueueList>>
  PROVE  UniqueInv'
<1>1. UniqueObjs' /\ QueuedIsActive'
  BY DEF UniqueInv, UniqueObjs, QueuedIsActive, InQueue, Queued
<1> QED
  BY <1>1, ListKept DEF UniqueInv

LEMMA TimerOnce ==
  ASSUME PlainRules, TypeInv, PointerInv, UniqueInv, TimerStep
  PROVE  UniqueInv'
<1> DEFINE obj == Head(timerTodo)
           h == Head(timerTodo).rule
<1> USE DEF unrelated, listVars, envVars, ruleVars
<1>0. ruleState \in [Rules -> RuleStates] /\ timerQ \in Seq(TimerType)
      /\ enqueueList \in Seq(Rules)
  BY DEF TypeInv, TypeOK
<1>1. CASE StartWaits \/ StartPseudo \/ StartProcess
  <2>1. /\ Visit({"START_WAITING"}) /\ timerQ' = Append(timerQ, obj)
        /\ enqueueList' = enqueueList
        /\ \/ ruleState' = ruleState
           \/ ruleState' = [ruleState EXCEPT ![h] = "END_WAITING"]
    BY <1>1 DEF StartWaits, StartPseudo, StartProcess, EnqueueProcess, KeepObj
  <2>2. obj \in TimerType /\ h \in Rules
    BY <2>1, VisitType
  <2>3. \A q \in Rules : Active(ruleState[q]) => Active(ruleState'[q])
    BY <1>0, <2>1, <2>2 DEF Active
  <2> QED
    BY <2>1, <2>2, <2>3, VisitPutsBack
<1>2. CASE StartHopeless
  <2>1. Visit({"START_WAITING"}) /\ "MISSING" \in StartCondResults(h)
    BY <1>2 DEF StartHopeless
  <2> QED
    BY <2>1, VisitType, NeverHopeless
<1>3. CASE EndWaits
  <2> DEFINE new == [obj EXCEPT !.timeout = Countdown(@)]
  <2>1. /\ Visit({"END_WAITING"}) /\ ruleState' = ruleState
        /\ timerQ' = Append(timerQ, new) /\ enqueueList' = enqueueList
    BY <1>3 DEF EndWaits, KeepObj
  <2>2. obj \in TimerType
    BY <2>1, VisitType
  <2>3. new \in TimerType /\ new.rule = h
    <3>1. Countdown(obj.timeout) \in Nat \cup {Forever}
      BY <2>2, BoundAssumption DEF TimerType, Countdown, Forever
    <3> HIDE DEF obj
    <3> QED
      BY <2>2, <3>1 DEF TimerType, obj
  <2> HIDE DEF new
  <2> QED
    BY <2>1, <2>3, VisitPutsBack
<1>4. CASE StartNoMemory
  <2>1. Visit({"START_WAITING"}) /\ timerQ' = timerQ /\ FailRule(h, "FAILED")
    BY <1>4 DEF StartNoMemory, DropObj
  <2> QED
    BY <2>1, FailRuleOnce DEF RuleStates
<1>5. CASE EndTimeout
  <2>1. Visit({"END_WAITING"}) /\ timerQ' = timerQ /\ FailRule(h, "NOT_COMPLETED")
    BY <1>5 DEF EndTimeout, DropObj
  <2> QED
    BY <2>1, FailRuleOnce DEF RuleStates
<1>6. CASE EndReached \/ VisitIdle
  <2>1. /\ \E s : Visit(s)
        /\ timerQ' = timerQ /\ enqueueList' = enqueueList
        /\ \A q \in Rules : q # h => ruleState'[q] = ruleState[q]
    BY <1>0, <1>6 DEF EndReached, VisitIdle, DropObj
  <2>2. /\ UniqueObjs' /\ QueuedIsActive'
        /\ \A r : Holds(timerTodo', r) => Holds(timerTodo, r)
    BY <2>1, VisitDrops
  <2> QED
    BY <2>1, <2>2, ListKept DEF UniqueInv
<1>7. CASE TimerDone
  <2>1. /\ timerTodo = <<>> /\ timerTodo' = <<>> /\ enqueueList' = <<>>
        /\ timerQ' = timerQ \o [i \in DOMAIN enqueueList |-> TimerObj(enqueueList[i])]
        /\ ruleState' = [r \in Rules |-> IF r \in Range(enqueueList)
                                         THEN "START_WAITING" ELSE ruleState[r]]
    BY <1>7 DEF TimerDone
  <2>2. \A i \in DOMAIN enqueueList : ~Holds(timerQ, enqueueList[i])
    <3>1. \A i \in DOMAIN enqueueList : /\ enqueueList[i] \in Rules
                                        /\ ~Active(ruleState[enqueueList[i]])
      BY <1>0 DEF PointerInv, EnqueueListIsIdle
    <3> QED
      BY <3>1, InQueueMeans DEF UniqueInv, QueuedIsActive
  <2>3. /\ Once(timerQ')
        /\ \A r : Holds(timerQ', r) <=> Holds(timerQ, r) \/ r \in Range(enqueueList)
    BY <1>0, <2>1, <2>2, EnqueueAllHolds DEF UniqueInv, UniqueObjs
  <2>4. /\ \A r : ~Holds(timerTodo', r)
        /\ Once(timerTodo') /\ Distinct(enqueueList') /\ Blamed'
    BY <2>1 DEF Holds, Once, Distinct, Blamed
  <2>5. QueuedIsActive'
    <3> SUFFICES ASSUME NEW r \in Rules, Holds(timerQ', r) PROVE Active(ruleState'[r])
      BY <2>4, InQueueMeansNext DEF QueuedIsActive
    <3>1. r \notin Range(enqueueList) => Active(ruleState[r])
      BY <2>3, InQueueMeans DEF UniqueInv, QueuedIsActive
    <3> QED
      BY <2>1, <3>1 DEF Active
  <2> QED
    BY <2>3, <2>4, <2>5 DEF UniqueInv, UniqueObjs
<1> QED
  BY <1>1, <1>2, <1>3, <1>4, <1>5, <1>6, <1>7 DEF TimerStep

\* Outside an iteration all objects are in timerQ and the enqueue list is empty.
LEMMA OutsideOnce ==
  ASSUME TypeInv, PointerInv, QueueInv, UniqueInv, pc \notin {"timer", "down"}
  PROVE  /\ timerTodo = <<>> /\ \A r : ~Holds(timerTodo, r)
         /\ DOMAIN enqueueList = {}
         /\ \A r \in Rules : Holds(timerQ, r) => Active(ruleState[r])
<1>1. timerTodo = <<>>
  BY DEF QueueInv, TodoIsTimers
<1>2. \A r : ~Holds(timerTodo, r)
  BY <1>1 DEF Holds
<1>3. DOMAIN enqueueList = {}
  BY DEF PointerInv, EnqueueListIsIdle
<1> QED
  BY <1>1, <1>2, <1>3, InQueueMeans DEF UniqueInv, QueuedIsActive

\* The queue outside an iteration, after a step that stays outside.
LEMMA OutsideStep ==
  ASSUME UniqueInv, timerTodo = <<>>, timerTodo' = timerTodo,
         enqueueList' = enqueueList, Once(timerQ'),
         \A r \in Rules : Holds(timerQ', r) => Active(ruleState'[r])
  PROVE  UniqueInv'
<1>1. \A r : ~Holds(timerTodo', r)
  BY DEF Holds
<1>2. Once(timerTodo')
  BY DEF Once
<1>3. UniqueObjs' /\ QueuedIsActive'
  BY <1>1, <1>2, InQueueMeansNext DEF UniqueObjs, QueuedIsActive
<1> QED
  BY <1>3, ListKept DEF UniqueInv

LEMMA ApiOnce ==
  ASSUME TypeInv, PointerInv, QueueInv, UniqueInv, MessageStep \/ ApiRequest
  PROVE  UniqueInv'
<1> USE DEF Serve, Request, notServed, listVars, ruleVars, loopVars
<1>0. /\ pc = "messages" /\ TypeOK /\ timerQ \in Seq(TimerType) /\ Once(timerQ)
      /\ ruleState \in [Rules -> RuleStates]
  BY DEF MessageStep, MessagesDone, ServeReady, ApiRequest, ApiAnswered, ApiStart,
         ApiStopQueued, ApiStopRunning, TypeInv, TypeOK, UniqueInv, UniqueObjs
<1>1. /\ timerTodo = <<>> /\ \A r : ~Holds(timerTodo, r)
      /\ DOMAIN enqueueList = {}
      /\ \A r \in Rules : Holds(timerQ, r) => Active(ruleState[r])
  BY <1>0, OutsideOnce
<1>2. CASE MessagesDone
  <2>1. /\ timerTodo' = timerQ /\ timerQ' = <<>> /\ ruleState' = ruleState
        /\ enqueueList' = enqueueList
    BY <1>2 DEF MessagesDone
  <2>2. /\ \A r : ~Holds(timerQ', r)
        /\ Once(timerQ')
    BY <2>1 DEF Holds, Once
  <2>3. UniqueObjs'
    BY <1>0, <2>1, <2>2 DEF UniqueObjs
  <2>4. QueuedIsActive'
    BY <1>1, <2>1, <2>2, InQueueMeansNext DEF QueuedIsActive
  <2>5. Distinct(enqueueList') /\ Blamed'
    BY <1>1, <2>1 DEF Distinct, Blamed
  <2> QED
    BY <2>3, <2>4, <2>5 DEF UniqueInv
<1>3. CASE ApiAnswered \/ \E p \in Procs : ServeReady(p)
  BY <1>3, UniqueUnchanged DEF ApiAnswered, ServeReady
<1>4. ASSUME NEW r \in Rules, ApiStart(r) PROVE UniqueInv'
  <2>1. /\ ruleState' = [ruleState EXCEPT ![r] = "START_WAITING"]
        /\ timerQ' = Append(timerQ, TimerObj(r)) /\ ~Active(ruleState[r])
        /\ timerTodo' = timerTodo /\ enqueueList' = enqueueList
    BY <1>4 DEF ApiStart, Enqueue, Startable
  <2>2. TimerObj(r) \in TimerType /\ TimerObj(r).rule = r
    BY TimerObjType DEF TimerObj
  <2>3. /\ Once(timerQ')
        /\ \A q : Holds(timerQ', q) <=> Holds(timerQ, q) \/ q = r
    BY <1>0, <1>1, <2>1, <2>2, AppendHolds
  <2>4. \A q \in Rules : Holds(timerQ', q) => Active(ruleState'[q])
    BY <1>0, <1>1, <2>1, <2>3 DEF Active
  <2> QED
    BY <1>1, <2>1, <2>3, <2>4, OutsideStep
<1>5. ASSUME NEW r \in Rules, ApiStopQueued(r) PROVE UniqueInv'
  <2>1. /\ ruleState' = [ruleState EXCEPT ![r] = DequeuedState(@)]
        /\ timerQ' = Dequeue(r) /\ timerTodo' = timerTodo /\ enqueueList' = enqueueList
    BY <1>5 DEF ApiStopQueued
  <2>2. /\ Once(timerQ')
        /\ \A q : Holds(timerQ', q) <=> Holds(timerQ, q) /\ q # r
    BY <1>0, <2>1, DequeueHolds
  <2>3. \A q \in Rules : Holds(timerQ', q) => Active(ruleState'[q])
    BY <1>0, <1>1, <2>1, <2>2
  <2> QED
    BY <1>1, <2>1, <2>2, <2>3, OutsideStep
<1>6. ASSUME NEW r \in Rules, NEW how \in {"TERMME", "KILLME"},
             NEW c \in Clients \cup {NoClient}, ApiStopRunning(r, how, c)
      PROVE  UniqueInv'
  <2>1. /\ ruleState' = [ruleState EXCEPT ![r] = "IDLE"] /\ ~Queued(r)
        /\ timerQ' = timerQ /\ timerTodo' = timerTodo /\ enqueueList' = enqueueList
    BY <1>6 DEF ApiStopRunning
  <2>2. ~Holds(timerQ, r)
    BY <2>1 DEF Queued, Holds
  <2>3. \A q \in Rules : Holds(timerQ', q) => Active(ruleState'[q])
    BY <1>0, <1>1, <2>1, <2>2
  <2> QED
    BY <1>0, <1>1, <2>1, <2>3, OutsideStep
<1> QED
  BY <1>2, <1>3, <1>4, <1>5, <1>6 DEF MessageStep, ApiRequest

\* PCD_process_trigger_action dequeues the failed rule before it enqueues the one
\* the failure action names.
LEMMA TriggerOnce ==
  ASSUME TypeInv, PointerInv, QueueInv, UniqueInv, ReapUnexpected
  PROVE  UniqueInv'
<1> DEFINE r == proc[Head(procTodo)].rule
           states == TriggerStates(r)
           next == Trigger(r)
           queue == Dequeue(r)
<1>0. /\ pc = "stop" /\ TypeOK /\ timerQ \in Seq(TimerType) /\ Once(timerQ)
      /\ ruleState \in [Rules -> RuleStates]
  BY DEF ReapUnexpected, Reach, TypeInv, TypeOK, UniqueInv, UniqueObjs
<1>1. /\ timerTodo = <<>>
      /\ \A q \in Rules : Holds(timerQ, q) => Active(ruleState[q])
  BY <1>0, OutsideOnce
<1>2. r \in Rules
  <2>1. Reach("stop", {"STOPPED"})
    BY DEF ReapUnexpected
  <2>2. Head(procTodo) \in Procs /\ proc[Head(procTodo)].state = "STOPPED"
    BY <2>1, ReachType
  <2> QED
    BY <2>2 DEF TypeInv, ObjectHasRule
<1>3. next \in Rules \cup {NoRule}
  BY <1>2, FailureTargetType DEF Trigger
<1>4. /\ timerTodo' = timerTodo /\ enqueueList' = enqueueList
      /\ \/ ruleState' = states /\ timerQ' = queue
         \/ /\ ruleState' = [q \in Rules |-> IF q = next THEN "START_WAITING"
                                                         ELSE states[q]]
            /\ timerQ' = IF next = NoRule THEN queue ELSE Enqueue(queue, next)
  BY DEF ReapUnexpected, Trigger, TriggerStates
<1>5. /\ queue \in Seq(TimerType) /\ Once(queue)
      /\ \A q : Holds(queue, q) <=> Holds(timerQ, q) /\ q # r
  BY <1>0, <1>2, DequeueHolds
<1>6. \A q \in Rules : q # r => states[q] = ruleState[q]
  BY <1>0, <1>2 DEF TriggerStates
<1>7. next # NoRule => next = r \/ ~Active(states[next])
  BY <1>2 DEF Trigger, FailureTarget
<1> HIDE DEF r, states, next, queue
<1>8. \A q \in Rules : Holds(queue, q) => Active(states[q])
  BY <1>1, <1>5, <1>6
<1>9. CASE timerQ' = queue
  <2>1. \A q \in Rules : ruleState'[q] \in {states[q], "START_WAITING"}
    BY <1>4
  <2>2. \A q \in Rules : Holds(timerQ', q) => Active(ruleState'[q])
    BY <1>8, <1>9, <2>1 DEF Active
  <2> QED
    BY <1>1, <1>4, <1>5, <1>9, <2>2, OutsideStep
<1>10. CASE timerQ' # queue
  <2>1. /\ next \in Rules /\ timerQ' = Append(queue, TimerObj(next))
        /\ ruleState' = [q \in Rules |-> IF q = next THEN "START_WAITING" ELSE states[q]]
    BY <1>3, <1>4, <1>10 DEF Enqueue
  <2>2. ~Holds(queue, next)
    BY <1>5, <1>7, <1>8, <2>1, SentinelAssumption
  <2>3. TimerObj(next) \in TimerType /\ TimerObj(next).rule = next
    BY <2>1, TimerObjType DEF TimerObj
  <2>4. /\ Once(timerQ')
        /\ \A q : Holds(timerQ', q) <=> Holds(queue, q) \/ q = next
    BY <1>5, <2>1, <2>2, <2>3, AppendHolds
  <2>5. \A q \in Rules : Holds(timerQ', q) => Active(ruleState'[q])
    BY <1>8, <2>1, <2>4 DEF Active
  <2> QED
    BY <1>1, <1>4, <2>4, <2>5, OutsideStep
<1> QED
  BY <1>9, <1>10

LEMMA NextOnce ==
  ASSUME PlainRules
  PROVE  TypeInv /\ PointerInv /\ QueueInv /\ UniqueInv /\ [Next]_vars => UniqueInv'
<1> SUFFICES ASSUME TypeInv, PointerInv, QueueInv, UniqueInv, [Next]_vars
             PROVE  UniqueInv'
  OBVIOUS
<1>1. CASE ChildStep \/ UNCHANGED vars
  BY <1>1, UniqueUnchanged
     DEF ChildStep, ChildEnds, KilledEnds, SendReady, Sigchld, supervisor, ownRules,
         ruleVars, timerVars, vars
<1>2. CASE ProcessStep /\ ~ReapUnexpected
  BY <1>2, UniqueUnchanged
     DEF ProcessStep, Spawn, StartingWaits, Started, StartedRaced, StartSkips,
         StartPassDone, MarkStopped, Reap, TermWaits, Terminate, KillWaits, Kill,
         StopSkips, StopPassDone, ownRules, ruleVars, timerVars
<1> QED
  BY <1>1, <1>2, TriggerOnce, TimerOnce, ApiOnce DEF Next, MainStep, Down

LEMMA InitOnce == Init => UniqueInv
<1> SUFFICES ASSUME Init PROVE UniqueInv
  OBVIOUS
<1>1. /\ timerQ = [i \in DOMAIN ActiveRules |-> TimerObj(ActiveRules[i])]
      /\ timerTodo = <<>> /\ enqueueList = <<>>
      /\ ruleState = [r \in Rules |-> IF Conf[r].active THEN "START_WAITING" ELSE "IDLE"]
  BY DEF Init, Activate
<1>2. /\ DOMAIN timerQ = DOMAIN ActiveRules
      /\ \A i \in DOMAIN timerQ : timerQ[i].rule = ActiveRules[i]
  BY <1>1 DEF TimerObj
<1>3. Once(timerQ)
  BY <1>2, ConfAssumption DEF Once
<1>4. \A r \in Rules : Holds(timerQ, r) => Active(ruleState[r])
  <2> SUFFICES ASSUME NEW r \in Rules, Holds(timerQ, r) PROVE Active(ruleState[r])
    OBVIOUS
  <2>1. r \in Range(ActiveRules)
    BY <1>2 DEF Holds, Range
  <2>2. Conf[r].active
    BY <2>1, ConfAssumption
  <2> QED
    BY <1>1, <2>2 DEF Active
<1>5. /\ \A r : ~Holds(timerTodo, r)
      /\ Once(timerTodo) /\ Distinct(enqueueList) /\ Blamed
  BY <1>1 DEF Holds, Once, Distinct, Blamed
<1> QED
  BY <1>3, <1>4, <1>5, InQueueMeans DEF UniqueInv, UniqueObjs, QueuedIsActive

LEMMA UniqueCorrect ==
  ASSUME PlainRules
  PROVE  Spec => []UniqueInv
BY InitOnce, NextOnce, LifeCorrect, QueueInvCorrect, PTL DEF Spec

-----------------------------------------------------------------------------
(***************************************************************************)
(* The theorems.                                                           *)
(***************************************************************************)

\* Two sequences without duplicates and without a common element, one after the
\* other.
LEMMA ConcatDistinct ==
  ASSUME NEW T, NEW a \in Seq(T), NEW b \in Seq(T), Distinct(a), Distinct(b),
         \A i \in DOMAIN a, j \in DOMAIN b : a[i] # b[j]
  PROVE  Distinct(a \o b)
<1> DEFINE c == a \o b
<1>1. /\ c \in Seq(T) /\ Len(c) = Len(a) + Len(b)
      /\ \A i \in 1..(Len(a) + Len(b)) : c[i] = IF i <= Len(a) THEN a[i] ELSE b[i - Len(a)]
  BY ConcatProperties
<1>2. /\ Len(a) \in Nat /\ Len(b) \in Nat /\ DOMAIN a = 1..Len(a) /\ DOMAIN b = 1..Len(b)
      /\ DOMAIN c = 1..(Len(a) + Len(b))
  BY <1>1
<1> HIDE DEF c
<1>3. ASSUME NEW i \in DOMAIN c
      PROVE  \/ i \in DOMAIN a /\ c[i] = a[i]
             \/ ~(i <= Len(a)) /\ i - Len(a) \in DOMAIN b /\ c[i] = b[i - Len(a)]
  <2>1. CASE i <= Len(a)
    BY <1>1, <1>2, <2>1
  <2>2. CASE ~(i <= Len(a))
    <3>1. i - Len(a) \in DOMAIN b
      BY <1>2, <2>2
    <3> QED
      BY <1>1, <1>2, <2>2, <3>1
  <2> QED
    BY <2>1, <2>2
<1>4. ASSUME NEW i \in DOMAIN c, NEW j \in DOMAIN c, c[i] = c[j]
      PROVE  i = j
  <2>1. CASE i \in DOMAIN a /\ c[i] = a[i] /\ j \in DOMAIN a /\ c[j] = a[j]
    BY <1>4, <2>1 DEF Distinct
  <2>2. CASE /\ i - Len(a) \in DOMAIN b /\ c[i] = b[i - Len(a)]
             /\ j - Len(a) \in DOMAIN b /\ c[j] = b[j - Len(a)]
    <3>1. i - Len(a) = j - Len(a)
      BY <1>4, <2>2 DEF Distinct
    <3> QED
      BY <1>2, <3>1
  <2> QED
    BY <1>3, <1>4, <2>1, <2>2
<1> QED
  BY <1>4 DEF Distinct, c

LEMMA RulesOfQueue ==
  ASSUME NEW s \in Seq(TimerType)
  PROVE  /\ [i \in DOMAIN s |-> s[i].rule] \in Seq(Rules)
         /\ Once(s) => Distinct([i \in DOMAIN s |-> s[i].rule])
<1>1. DOMAIN s = 1..Len(s) /\ Len(s) \in Nat
  OBVIOUS
<1>2. \A i \in DOMAIN s : s[i].rule \in Rules
  <2>1. \A i \in DOMAIN s : s[i] \in TimerType
    BY <1>1
  <2>2. \A o \in TimerType : o.rule \in Rules
    BY DEF TimerType
  <2> QED
    BY <2>1, <2>2, Zenon
<1>3. [i \in 1..Len(s) |-> s[i].rule] \in Seq(Rules)
  BY <1>1, <1>2, IsASeq
<1>4. Once(s) => Distinct([i \in DOMAIN s |-> s[i].rule])
  BY DEF Once, Distinct
<1> QED
  BY <1>1, <1>3, <1>4

\* No rule gets a second timer object, which would start, time out or restart its
\* process twice, whatever requests, failures and signals do; for every rule base in
\* which no rule is named by the failure actions of two rules and no rule waits for
\* one that does not exist.  The rules of the platform are of this kind.
THEOREM TimerObjIsUniqueCorrect ==
  ASSUME PlainRules
  PROVE  Spec => []TimerObjIsUnique
<1>1. TypeInv /\ UniqueInv => TimerObjIsUnique
  <2> SUFFICES ASSUME TypeInv, UniqueInv PROVE TimerObjIsUnique
    OBVIOUS
  <2> DEFINE a == [i \in DOMAIN timerQ |-> timerQ[i].rule]
             b == [i \in DOMAIN timerTodo |-> timerTodo[i].rule]
  <2>1. timerQ \in Seq(TimerType) /\ timerTodo \in Seq(TimerType)
    BY DEF TypeInv, TypeOK
  <2>2. a \in Seq(Rules) /\ b \in Seq(Rules) /\ Distinct(a) /\ Distinct(b)
    BY <2>1, RulesOfQueue DEF UniqueInv, UniqueObjs
  <2>3. \A i \in DOMAIN a, j \in DOMAIN b : a[i] # b[j]
    <3>1. \A i \in DOMAIN a : a[i] \in Rules
      BY <2>2
    <3>2. DOMAIN a = DOMAIN timerQ /\ DOMAIN b = DOMAIN timerTodo
      OBVIOUS
    <3>3. /\ \A i \in DOMAIN a : Holds(timerQ, a[i])
          /\ \A j \in DOMAIN b : Holds(timerTodo, b[j])
      BY DEF Holds
    <3> QED
      BY <3>1, <3>3 DEF UniqueInv, UniqueObjs
  <2> HIDE DEF a, b
  <2>4. Distinct(a \o b)
    BY <2>2, <2>3, ConcatDistinct
  <2> QED
    BY <2>4 DEF TimerObjIsUnique, Distinct, UniqueInv, a, b
<1> QED
  BY <1>1, UniqueCorrect, LifeCorrect, PTL

\* For the same rule bases the state of a rule and the timer queue agree exactly: a
\* rule waits if and only if it is in the queue.  So PCD_timer_enqueue_rule may look
\* at the state alone, and the iteration never meets an object of a rule that does
\* not wait.
THEOREM QueueIsExact ==
  ASSUME PlainRules
  PROVE  Spec => [](\A r \in Rules : InQueue(r) <=> Active(ruleState[r]))
<1>1. QueueInv /\ UniqueInv => \A r \in Rules : InQueue(r) <=> Active(ruleState[r])
  BY DEF QueueInv, ActiveIsQueued, UniqueInv, QueuedIsActive
<1> QED
  BY <1>1, UniqueCorrect, QueueInvCorrect, PTL
=============================================================================

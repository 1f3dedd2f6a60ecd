--------------------------- MODULE PcdLifeProofs ---------------------------
(***************************************************************************)
(* The life of a process object, from the malloc of PCD_process_new to the *)
(* free of PCD_process_iterate_stop, and of the child that is forked for   *)
(* it; and the timer queue, which must not lose a rule that waits.  Proved *)
(* for every rule base, every pool of process objects and every value of   *)
(* the ticks and bounds.                                                   *)
(***************************************************************************)
EXTENDS PcdProofs

-----------------------------------------------------------------------------
(***************************************************************************)
(* Lists.                                                                  *)
(***************************************************************************)
Distinct(s) == \A i, j \in DOMAIN s : s[i] = s[j] => i = j

\* A list with one element taken out.
LEMMA RemoveAtElements ==
  ASSUME NEW T, NEW s \in Seq(T), NEW i \in 1..Len(s)
  PROVE  /\ RemoveAt(s, i) \in Seq(T)
         /\ Len(RemoveAt(s, i)) = Len(s) - 1
         /\ \A k \in 1..(Len(s) - 1) :
              RemoveAt(s, i)[k] = IF k < i THEN s[k] ELSE s[k + 1]
<1> DEFINE a == SubSeq(s, 1, i - 1)
           b == SubSeq(s, i + 1, Len(s))
<1>1. /\ a \in Seq(T) /\ Len(a) = i - 1
      /\ \A k \in 1..(i - 1) : a[k] = s[k]
  OBVIOUS
<1>2. /\ b \in Seq(T) /\ Len(b) = Len(s) - i
      /\ \A k \in 1..(Len(s) - i) : b[k] = s[k + i]
  OBVIOUS
<1> HIDE DEF a, b
<1>3. /\ a \o b \in Seq(T) /\ Len(a \o b) = Len(s) - 1
      /\ \A k \in 1..(Len(s) - 1) :
           (a \o b)[k] = IF k < i THEN a[k] ELSE b[k - (i - 1)]
  <2>1. /\ Len(a \o b) = Len(a) + Len(b) /\ a \o b \in Seq(T)
        /\ \A k \in 1..(Len(a) + Len(b)) :
             (a \o b)[k] = IF k <= Len(a) THEN a[k] ELSE b[k - Len(a)]
    BY <1>1, <1>2, ConcatProperties
  <2>2. Len(a) + Len(b) = Len(s) - 1 /\ \A k \in Int : k < i <=> k <= Len(a)
    BY <1>1, <1>2
  <2> QED
    BY <1>1, <2>1, <2>2
<1>4. ASSUME NEW k \in 1..(Len(s) - 1)
      PROVE  (a \o b)[k] = IF k < i THEN s[k] ELSE s[k + 1]
  <2>1. CASE k < i
    BY <1>1, <1>3, <2>1
  <2>2. CASE ~(k < i)
    <3>1. k - (i - 1) \in 1..(Len(s) - i) /\ (k - (i - 1)) + i = k + 1
      BY <2>2
    <3> QED
      BY <1>2, <1>3, <2>2, <3>1
  <2> QED
    BY <2>1, <2>2
<1> QED
  BY <1>3, <1>4 DEF RemoveAt, a, b

\* Taking the i-th element out of a list of distinct elements leaves the others.
LEMMA RemoveDistinct ==
  ASSUME NEW T, NEW s \in Seq(T), NEW i \in 1..Len(s), Distinct(s)
  PROVE  /\ Range(RemoveAt(s, i)) = Range(s) \ {s[i]}
         /\ Distinct(RemoveAt(s, i))
<1> DEFINE r == RemoveAt(s, i)
<1>1. /\ r \in Seq(T) /\ Len(r) = Len(s) - 1
      /\ \A k \in 1..(Len(s) - 1) : r[k] = IF k < i THEN s[k] ELSE s[k + 1]
  BY RemoveAtElements
<1>2. DOMAIN s = 1..Len(s) /\ DOMAIN r = 1..(Len(s) - 1) /\ Len(s) \in Nat
  BY <1>1
<1> HIDE DEF r
<1>3. ASSUME NEW x \in Range(r)
      PROVE  x \in Range(s) \ {s[i]}
  <2>1. PICK k \in 1..(Len(s) - 1) : x = r[k]
    BY <1>2 DEF Range
  <2>2. PICK l \in 1..Len(s) : x = s[l] /\ l # i
    BY <1>1, <1>2, <2>1
  <2> QED
    BY <1>2, <2>2 DEF Range, Distinct
<1>4. ASSUME NEW x \in Range(s) \ {s[i]}
      PROVE  x \in Range(r)
  <2>1. PICK k \in 1..Len(s) : x = s[k] /\ k # i
    BY <1>2 DEF Range
  <2>2. CASE k < i
    BY <1>1, <1>2, <2>1, <2>2 DEF Range
  <2>3. CASE k > i
    <3>1. k - 1 \in 1..(Len(s) - 1) /\ ~(k - 1 < i) /\ (k - 1) + 1 = k
      BY <1>2, <2>1, <2>3
    <3>2. r[k - 1] = s[k]
      BY <1>1, <3>1
    <3> QED
      BY <1>2, <2>1, <3>1, <3>2 DEF Range
  <2> QED
    BY <2>1, <2>2, <2>3
<1>5. Distinct(r)
  <2> SUFFICES ASSUME NEW j \in 1..(Len(s) - 1), NEW k \in 1..(Len(s) - 1),
                      r[j] = r[k]
               PROVE  j = k
    BY <1>2 DEF Distinct
  <2> DEFINE f(m) == IF m < i THEN m ELSE m + 1
  <2>1. f(j) \in DOMAIN s /\ f(k) \in DOMAIN s
    BY <1>2
  <2>2. r[j] = s[f(j)] /\ r[k] = s[f(k)]
    BY <1>1, <1>2
  <2>3. f(j) = f(k)
    <3> HIDE DEF f
    <3> QED
      BY <2>1, <2>2 DEF Distinct
  <2> QED
    BY <1>2, <2>3
<1> QED
  BY <1>3, <1>4, <1>5 DEF r

\* NODE_DEL takes the object out of the process list, and nothing else.
LEMMA UnlinkElements ==
  ASSUME TypeOK, NEW p \in Procs, Distinct(procList), p \in Range(procList)
  PROVE  /\ Range(Unlink(p)) = Range(procList) \ {p}
         /\ Distinct(Unlink(p))
<1> DEFINE I == {i \in 1..Len(procList) : procList[i] = p}
<1>1. procList \in Seq(Procs) /\ DOMAIN procList = 1..Len(procList)
  BY DEF TypeOK
<1>2. I # {} /\ I \in SUBSET Nat
  BY <1>1 DEF Range
<1>3. Min(I) \in I
  <2> HIDE DEF I
  <2> QED
    BY <1>2, MinOfNat
<1>4. Unlink(p) = RemoveAt(procList, Min(I))
  BY <1>2 DEF Unlink, RemoveFirst, SelectInSeq
<1>5. Min(I) \in 1..Len(procList) /\ procList[Min(I)] = p
  BY <1>3
<1> HIDE DEF I
<1> QED
  BY <1>1, <1>4, <1>5, RemoveDistinct

\* PCD_timer_dequeue_rule takes out an object of the rule, and nothing else.
LEMMA DequeueElements ==
  ASSUME TypeOK, NEW r \in Rules
  PROVE  /\ Dequeue(r) \in Seq(TimerType)
         /\ ~Queued(r) => Dequeue(r) = timerQ
         /\ \A q \in Rules : q # r /\ Queued(q) =>
              \E i \in DOMAIN Dequeue(r) : Dequeue(r)[i].rule = q
<1> DEFINE I == {i \in 1..Len(timerQ) : timerQ[i].rule = r}
<1>1. timerQ \in Seq(TimerType) /\ DOMAIN timerQ = 1..Len(timerQ)
  BY DEF TypeOK
<1>2. CASE I = {}
  <2>1. Dequeue(r) = timerQ
    BY <1>2 DEF Dequeue, RemoveFirstMatch
  <2> QED
    BY <1>1, <2>1 DEF Queued
<1>3. CASE I # {}
  <2>1. Min(I) \in I
    <3>1. I \in SUBSET Nat
      OBVIOUS
    <3> HIDE DEF I
    <3> QED
      BY <1>3, <3>1, MinOfNat
  <2>2. Dequeue(r) = RemoveAt(timerQ, Min(I))
    BY <1>3 DEF Dequeue, RemoveFirstMatch, SelectInSeq
  <2>3. Min(I) \in 1..Len(timerQ) /\ timerQ[Min(I)].rule = r /\ Queued(r)
    BY <1>1, <2>1 DEF Queued
  <2> DEFINE m == Min(I)
             d == Dequeue(r)
  <2> HIDE DEF I, m, d
  <2>4. /\ d \in Seq(TimerType) /\ Len(d) = Len(timerQ) - 1
        /\ \A k \in 1..(Len(timerQ) - 1) :
             d[k] = IF k < m THEN timerQ[k] ELSE timerQ[k + 1]
    BY <1>1, <2>2, <2>3, RemoveAtElements DEF m, d
  <2>5. ASSUME NEW q \in Rules, q # r, Queued(q)
        PROVE  \E i \in DOMAIN d : d[i].rule = q
    <3>1. PICK k \in 1..Len(timerQ) : timerQ[k].rule = q
      BY <1>1, <2>5 DEF Queued
    <3>2. k # m /\ m \in 1..Len(timerQ)
      BY <2>3, <2>5, <3>1 DEF m
    <3>3. CASE k < m
      BY <2>4, <3>1, <3>2, <3>3
    <3>4. CASE k > m
      <4>1. k - 1 \in 1..(Len(timerQ) - 1) /\ ~(k - 1 < m) /\ (k - 1) + 1 = k
        BY <3>1, <3>2, <3>4
      <4>2. d[k - 1] = timerQ[k]
        BY <2>4, <4>1
      <4> QED
        BY <2>4, <3>1, <4>1, <4>2
    <3> QED
      BY <3>2, <3>3, <3>4
  <2> QED
    BY <2>3, <2>4, <2>5 DEF d
<1> QED
  BY <1>2, <1>3

\* PCD_process_enqueue puts the object at the head of the process list.
LEMMA ConsElements ==
  ASSUME NEW T, NEW s \in Seq(T), NEW e \in T
  PROVE  /\ Range(Cons(e, s)) = {e} \cup Range(s)
         /\ Distinct(s) /\ e \notin Range(s) => Distinct(Cons(e, s))
<1>1. <<e>> \in Seq(T)
  OBVIOUS
<1> DEFINE r == <<e>> \o s
<1>2. /\ r \in Seq(T) /\ Len(r) = 1 + Len(s)
      /\ \A i \in 1..(1 + Len(s)) : r[i] = IF i = 1 THEN e ELSE s[i - 1]
  BY <1>1
<1>3. DOMAIN r = 1..(1 + Len(s)) /\ DOMAIN s = 1..Len(s) /\ Len(s) \in Nat
  BY <1>2
<1> HIDE DEF r
<1>4. ASSUME NEW x \in Range(s)
      PROVE  x \in Range(r)
  <2>1. PICK k \in 1..Len(s) : x = s[k]
    BY <1>3 DEF Range
  <2>2. k + 1 \in 1..(1 + Len(s)) /\ k + 1 # 1 /\ (k + 1) - 1 = k
    BY <1>3
  <2> QED
    BY <1>2, <1>3, <2>1, <2>2 DEF Range
<1>5. e \in Range(r)
  BY <1>2, <1>3 DEF Range
<1>6. ASSUME NEW x \in Range(r)
      PROVE  x = e \/ x \in Range(s)
  <2>1. PICK k \in 1..(1 + Len(s)) : x = r[k]
    BY <1>3 DEF Range
  <2>2. k # 1 => k - 1 \in 1..Len(s)
    BY <1>3
  <2> QED
    BY <1>2, <1>3, <2>1, <2>2 DEF Range
<1>7. ASSUME Distinct(s), e \notin Range(s)
      PROVE  Distinct(r)
  <2> SUFFICES ASSUME NEW i \in 1..(1 + Len(s)), NEW j \in 1..(1 + Len(s)),
                      r[i] = r[j]
               PROVE  i = j
    BY <1>3 DEF Distinct
  <2>1. \A k \in 1..(1 + Len(s)) : k # 1 => k - 1 \in DOMAIN s /\ r[k] = s[k - 1]
    BY <1>2, <1>3
  <2>2. \A k \in DOMAIN s : s[k] # e
    BY <1>7 DEF Range
  <2>3. r[1] = e
    BY <1>2, <1>3
  <2>4. i = 1 <=> j = 1
    BY <2>1, <2>2, <2>3
  <2>5. CASE i # 1
    <3>1. i - 1 = j - 1
      BY <1>7, <2>1, <2>4, <2>5 DEF Distinct
    <3> QED
      BY <1>3, <3>1
  <2> QED
    BY <2>4, <2>5
<1> QED
  BY <1>4, <1>5, <1>6, <1>7 DEF Cons, r

\* A pass or an iteration goes on to the rest of its list.
LEMMA TailElements ==
  ASSUME NEW T, NEW s \in Seq(T), s # <<>>
  PROVE  /\ Range(s) = {Head(s)} \cup Range(Tail(s))
         /\ Distinct(s) => Distinct(Tail(s)) /\ Head(s) \notin Range(Tail(s))
<1>1. /\ Tail(s) \in Seq(T) /\ Len(Tail(s)) = Len(s) - 1 /\ Len(s) \in Nat
      /\ Len(s) >= 1 /\ Head(s) = s[1]
      /\ \A i \in 1..(Len(s) - 1) : Tail(s)[i] = s[i + 1]
      /\ DOMAIN s = 1..Len(s) /\ DOMAIN Tail(s) = 1..(Len(s) - 1)
  OBVIOUS
<1> DEFINE r == Tail(s)
<1>2. /\ DOMAIN r = 1..(Len(s) - 1)
      /\ \A i \in 1..(Len(s) - 1) : r[i] = s[i + 1]
  BY <1>1
<1> HIDE DEF r
<1>3. ASSUME NEW x \in Range(s)
      PROVE  x = s[1] \/ x \in Range(r)
  <2>1. PICK k \in 1..Len(s) : x = s[k]
    BY <1>1 DEF Range
  <2>2. k # 1 => k - 1 \in 1..(Len(s) - 1) /\ (k - 1) + 1 = k
    BY <1>1, <2>1
  <2> QED
    BY <1>2, <2>1, <2>2 DEF Range
<1>4. ASSUME NEW x \in Range(r)
      PROVE  \E k \in 2..Len(s) : x = s[k]
  <2>1. PICK k \in 1..(Len(s) - 1) : x = r[k]
    BY <1>2 DEF Range
  <2>2. k + 1 \in 2..Len(s)
    BY <1>1
  <2> QED
    BY <1>2, <2>1, <2>2
<1>5. s[1] \in Range(s)
  BY <1>1 DEF Range
<1>6. ASSUME Distinct(s)
      PROVE  Distinct(r) /\ s[1] \notin Range(r)
  <2>1. \A k \in 2..Len(s) : s[k] # s[1]
    BY <1>1, <1>6 DEF Distinct
  <2>2. ASSUME NEW i \in 1..(Len(s) - 1), NEW j \in 1..(Len(s) - 1), r[i] = r[j]
        PROVE  i = j
    <3>1. i + 1 \in DOMAIN s /\ j + 1 \in DOMAIN s
      BY <1>1
    <3>2. s[i + 1] = s[j + 1]
      BY <1>2, <2>2
    <3>3. i + 1 = j + 1
      BY <1>6, <3>1, <3>2 DEF Distinct
    <3> QED
      BY <3>3
  <2> QED
    BY <1>2, <1>4, <2>1, <2>2 DEF Distinct
<1>7. \A x \in Range(r) : x \in Range(s)
  <2> SUFFICES ASSUME NEW x \in Range(r) PROVE x \in Range(s)
    OBVIOUS
  <2>1. PICK k \in 2..Len(s) : x = s[k]
    BY <1>4
  <2>2. k \in DOMAIN s
    BY <1>1, <2>1
  <2> QED
    BY <2>1, <2>2 DEF Range
<1> QED
  BY <1>1, <1>3, <1>5, <1>6, <1>7 DEF r

-----------------------------------------------------------------------------
(***************************************************************************)
(* What a step does to an object and its child.                            *)
(***************************************************************************)
Untouched(p) == proc'[p] = proc[p] /\ os'[p] = os[p]

\* The child of the object ends
ChildOver(p) ==
  proc'[p] = proc[p] /\ os[p] \in {"running", "killed"} /\ os'[p] \in Ends

\* SIGCHLD finds no object, or the object of the child
Orphaned(p) ==
  proc'[p] = proc[p] /\ proc[p].state = "FREE" /\ os'[p] = "none"
Noticed(p) ==
  /\ os[p] \in Ends /\ os'[p] = "reaped"
  /\ proc[p].state # "FREE" /\ proc'[p].state = "STOPPING"
  /\ proc'[p].retstat = os[p] /\ proc'[p].signaled = proc[p].signaled

\* PCD_process_new
Made(p) ==
  /\ pc = "timer" /\ procFlag' = TRUE
  /\ proc[p].state = "FREE" /\ os[p] = "none" /\ os'[p] = "none"
  /\ proc'[p].state = "RUNME" /\ proc'[p].signaled = FALSE

\* PCD_process_stop
LetGo(p) ==
  /\ proc[p].state \in StopStates /\ proc'[p].state \in {"TERMME", "KILLME"}
  /\ proc'[p].tm = 0 /\ os'[p] = os[p]
  /\ \A r \in Rules : ruleProc'[r] # p

\* PCD_process_spawn
Spawned(p) ==
  /\ pc = "start" /\ proc[p].state = "RUNME" /\ proc'[p].state = "STARTING"
  /\ os'[p] = "running" \/ (ForkMayFail /\ os'[p] = "nofork")
  /\ proc'[p].signaled = proc[p].signaled

\* The object is still starting, or is taken for running
Starts(p) ==
  /\ pc = "start"
  /\ proc[p].state = "STARTING" /\ proc'[p].state \in {"STARTING", "RUNNING"}
  /\ proc'[p].signaled = proc[p].signaled
  /\ os'[p] = os[p] \/ (SignalWindow /\ os[p] \in Ends /\ os'[p] = "reaped")

Marked(p) ==
  /\ pc = "stop" /\ pc' = "stop" /\ procTodo # <<>> /\ p = Head(procTodo)
  /\ procTodo' = Tail(procTodo)
  /\ proc[p].state \in {"STOPPING", "RUNME"} /\ proc'[p].state = "STOPPED"
  /\ os'[p] = os[p] /\ proc'[p].retstat = proc[p].retstat
  /\ proc'[p].signaled = proc[p].signaled

\* SIGTERM, and the time until SIGKILL
Termed(p) ==
  /\ proc[p].state = "TERMME" /\ os'[p] = os[p]
  /\ \/ proc'[p].state = "KILLME" /\ ~SomeKillme /\ procList' = procList
     \/ proc'[p].state = "STOPPED" /\ os[p] # "running"
  /\ \A q \in Procs : q # p => proc'[q] = proc[q]
Killing(p) ==
  /\ proc[p].state = "KILLME"
  /\ \/ /\ proc'[p].state = "KILLME" /\ os'[p] = os[p]
        /\ proc[p].tm # 0 /\ proc'[p].tm = proc[p].tm - 1
     \/ proc'[p].state = "STOPPED" /\ os'[p] = Sigkill(p)

\* PCD_process_iterate_stop frees the object
Freed(p) ==
  /\ proc[p].state = "STOPPED" /\ proc'[p] = FreeObj
  /\ os'[p] \in {os[p], "none"}

Life(p) ==
  \/ Untouched(p) \/ ChildOver(p) \/ Orphaned(p) \/ Noticed(p)
  \/ Made(p) \/ LetGo(p) \/ Spawned(p) \/ Starts(p)
  \/ Marked(p) \/ Termed(p) \/ Killing(p) \/ Freed(p)

\* What a step does to the process list and to the rest of a pass.
Lists ==
  \/ /\ procList' = procList
     /\ \A p \in Procs : proc'[p].state = "FREE" <=> proc[p].state = "FREE"
     /\ \/ procTodo' \in {procTodo, procList}
        \/ procTodo # <<>> /\ procTodo' = Tail(procTodo)
  \/ \E p \in Procs :
       /\ proc[p].state = "FREE" /\ proc'[p].state # "FREE"
       /\ \A q \in Procs : q # p =>
            (proc'[q].state = "FREE" <=> proc[q].state = "FREE")
       /\ procList' = Cons(p, procList) /\ procTodo' = procTodo
  \/ /\ procTodo # <<>> /\ procTodo' = Tail(procTodo)
     /\ procList' = Unlink(Head(procTodo))
     /\ proc'[Head(procTodo)].state = "FREE"
     /\ \A q \in Procs : q # Head(procTodo) =>
          (proc'[q].state = "FREE" <=> proc[q].state = "FREE")

\* What a step does to the main loop.
Turn ==
  \/ UNCHANGED <<pc, procFlag, timerTodo, procTodo>>
  \/ /\ pc = "messages" /\ pc' = "timer" /\ timerTodo' = timerQ
     /\ UNCHANGED <<procFlag, procTodo>>
  \/ /\ pc = "timer" /\ pc' \in {"timer", "down"} /\ procFlag' \in {procFlag, TRUE}
     /\ timerTodo # <<>> /\ timerTodo' = Tail(timerTodo) /\ UNCHANGED procTodo
  \/ /\ pc = "timer" /\ timerTodo = <<>> /\ timerTodo' = <<>> /\ procFlag' = FALSE
     /\ \/ pc' = "start" /\ procTodo' = procList /\ procList' = procList
        \/ pc' = "messages" /\ ~procFlag /\ UNCHANGED procTodo
  \/ /\ pc \in {"start", "stop"} /\ UNCHANGED <<procFlag, timerTodo>>
     /\ procTodo # <<>> /\ procTodo' = Tail(procTodo)
     /\ pc' = pc \/ (pc = "stop" /\ pc' = "down")
     /\ pc = "start" => proc'[Head(procTodo)].state # "RUNME"
  \/ /\ pc = "stop" /\ pc' = "down" /\ UNCHANGED <<procFlag, timerTodo, procTodo>>
  \/ /\ pc = "start" /\ procTodo = <<>> /\ pc' = "stop" /\ procTodo' = procList
     /\ UNCHANGED <<procFlag, timerTodo, procList>>
  \/ /\ pc = "stop" /\ procTodo = <<>> /\ pc' = "messages"
     /\ UNCHANGED <<procFlag, timerTodo, procTodo>>

Shape == (\A p \in Procs : Life(p)) /\ Lists /\ Turn

\* PCD_process_stop on an object.
LEMMA StopLife ==
  ASSUME TypeInv, NEW conn \in Pointers, NEW mode \in Modes,
         NEW c \in Clients \cup {NoClient}, Consistent(conn, proc),
         NEW p \in Procs
  PROVE  LET new == StopProcs(conn, mode, c)[p]
         IN  /\ new.state = "FREE" <=> proc[p].state = "FREE"
             /\ \/ new = proc[p]
                \/ /\ proc[p].state \in StopStates
                   /\ new.state \in {"TERMME", "KILLME"} /\ new.tm = 0
                   /\ \A r \in Rules : StopConn(conn, mode)[r] # p
<1> DEFINE new == StopProcs(conn, mode, c)[p]
<1>1. new.state = "FREE" <=> proc[p].state = "FREE"
  BY StopType DEF TypeInv
<1>2. CASE ~Stops(conn, mode, p)
  BY <1>1, <1>2 DEF StopProcs
<1>3. CASE Stops(conn, mode, p)
  <2>1. proc[p] \in ProcType /\ proc[p].rule \in Rules /\ proc[p].state \in StopStates
    BY <1>3 DEF TypeInv, TypeOK, ObjectHasRule, Stops, StopStates
  <2>2. mode[proc[p].rule] \in {"TERMME", "KILLME"}
    BY <1>3, <2>1 DEF Stops, Modes
  <2>3. new.state = mode[proc[p].rule] /\ new.tm = 0
    BY <1>3, <2>1 DEF StopProcs, StopObj, ProcType
  <2>4. \A r \in Rules : StopConn(conn, mode)[r] # p
    BY <1>3, SentinelAssumption DEF StopConn
  <2> QED
    BY <1>1, <2>1, <2>2, <2>3, <2>4
<1> QED
  BY <1>2, <1>3

LEMMA StopShape ==
  ASSUME TypeInv, NEW conn \in Pointers, NEW mode \in Modes,
         NEW c \in Clients \cup {NoClient}, Consistent(conn, proc),
         proc' = StopProcs(conn, mode, c), ruleProc' = StopConn(conn, mode),
         os' = os
  PROVE  /\ \A p \in Procs : Life(p)
         /\ \A p \in Procs : proc'[p].state = "FREE" <=> proc[p].state = "FREE"
BY StopLife DEF Life, Untouched, LetGo

\* An object moves on and the others stay where they are.
LEMMA OneMoves ==
  ASSUME NEW p \in Procs, Life(p), \A q \in Procs : q # p => Untouched(q)
  PROVE  \A q \in Procs : Life(q)
BY DEF Life

\* FailRule stops processes and may reboot.
LEMMA FailRuleShape ==
  ASSUME TypeInv, PointerInv, NEW r \in Rules, NEW state,
         FailRule(r, state), os' = os
  PROVE  /\ \A p \in Procs : Life(p)
         /\ \A p \in Procs : proc'[p].state = "FREE" <=> proc[p].state = "FREE"
         /\ pc' \in {pc, "down"}
<1> DEFINE states == [ruleState EXCEPT ![r] = state]
           next == FailureTarget(r, states)
           kill == [q \in Rules |-> IF q \in {r, next} THEN "KILLME" ELSE "KEEP"]
<1>1. kill \in Modes /\ ruleProc \in Pointers /\ NoClient \in Clients \cup {NoClient}
  BY DEF Modes, Pointers, TypeInv, TypeOK
<1>2. /\ proc' = StopProcs(ruleProc, kill, NoClient)
      /\ ruleProc' = StopConn(ruleProc, kill)
      /\ pc' \in {pc, "down"}
  BY DEF FailRule
<1>3. Consistent(ruleProc, proc)
  BY ConsistentDef DEF PointerInv
<1> HIDE DEF kill
<1> QED
  BY <1>1, <1>2, <1>3, StopShape

\* The timer iteration makes objects, and stops them.
LEMMA TimerShape ==
  ASSUME TypeInv, TypeInv', PointerInv, TimerStep
  PROVE  Shape
<1> USE DEF unrelated, listVars, envVars, ruleVars
<1>0. proc \in [Procs -> ProcType] /\ os \in [Procs -> OsStates]
  BY DEF TypeInv, TypeOK
<1>1. ASSUME StartWaits \/ StartHopeless \/ StartPseudo \/ EndReached \/ EndWaits
             \/ VisitIdle
      PROVE  Shape
  <2>1. /\ UNCHANGED <<proc, os, procList, procTodo, pc, procFlag>>
        /\ pc = "timer" /\ timerTodo # <<>> /\ timerTodo' = Tail(timerTodo)
    BY <1>1 DEF StartWaits, StartHopeless, StartPseudo, EndReached, EndWaits,
                VisitIdle, Visit
  <2> QED
    BY <2>1 DEF Shape, Life, Untouched, Lists, Turn
<1>2. ASSUME StartNoMemory \/ EndTimeout
      PROVE  Shape
  <2>1. /\ UNCHANGED <<os, procList, procTodo>> /\ procFlag' \in {procFlag, TRUE}
        /\ pc = "timer" /\ timerTodo # <<>> /\ timerTodo' = Tail(timerTodo)
        /\ Head(timerTodo).rule \in Rules
        /\ \E state : FailRule(Head(timerTodo).rule, state)
    <3>1. CASE StartNoMemory
      BY <3>1, VisitType DEF StartNoMemory, Visit
    <3>2. CASE EndTimeout
      BY <3>2, VisitType DEF EndTimeout, Visit
    <3> QED
      BY <1>2, <3>1, <3>2
  <2>2. /\ \A p \in Procs : Life(p)
        /\ \A p \in Procs : proc'[p].state = "FREE" <=> proc[p].state = "FREE"
        /\ pc' \in {pc, "down"}
    BY <2>1, FailRuleShape
  <2> QED
    BY <2>1, <2>2 DEF Shape, Lists, Turn
<1>3. CASE StartProcess
  <2> DEFINE r == Head(timerTodo).rule
             p == Malloc
  <2>1. r \in Rules /\ pc = "timer" /\ ruleState[r] = "START_WAITING"
    BY <1>3, VisitType DEF StartProcess, Visit
  <2>2. ruleProc[r] = NoProc
    BY <2>1 DEF PointerInv, StartWaitingHasNoProcess
  <2>3. /\ p \in FreeObjs
        /\ proc' = [proc EXCEPT ![p] = NewObj(r)]
        /\ procList' = Cons(p, procList)
        /\ UNCHANGED <<pc, os, procTodo>> /\ procFlag' = TRUE
        /\ timerTodo # <<>> /\ timerTodo' = Tail(timerTodo)
    BY <1>3, <2>2 DEF StartProcess, EnqueueProcess, Malloc, Visit
  <2>4. p \in Procs /\ proc[p].state = "FREE" /\ os[p] = "none"
    BY <2>3 DEF FreeObjs
  <2>5. NewObj(r).state = "RUNME" /\ NewObj(r).signaled = FALSE
    BY DEF NewObj, FreeObj
  <2> HIDE DEF p, r
  <2>6. Made(p) /\ \A q \in Procs : q # p => Untouched(q)
    BY <1>0, <2>1, <2>3, <2>4, <2>5 DEF Made, Untouched
  <2>7. Lists
    BY <2>3, <2>4, <2>6 DEF Lists, Made, Untouched
  <2>8. Turn
    BY <2>1, <2>3 DEF Turn
  <2> QED
    BY <2>4, <2>6, <2>7, <2>8, OneMoves DEF Shape, Life
<1>4. CASE TimerDone
  <2>1. /\ UNCHANGED <<proc, os, procList, timerTodo>>
        /\ pc = "timer" /\ timerTodo = <<>> /\ procFlag' = FALSE
        /\ \/ pc' = "start" /\ procTodo' = procList
           \/ pc' = "messages" /\ ~procFlag /\ UNCHANGED procTodo
    BY <1>4 DEF TimerDone, ProcessPassDue
  <2> QED
    BY <2>1 DEF Shape, Life, Untouched, Lists, Turn
<1> QED
  BY <1>1, <1>2, <1>3, <1>4 DEF TimerStep

\* Messages and requests stop objects.
LEMMA ApiShape ==
  ASSUME TypeInv, PointerInv, MessageStep \/ ApiRequest
  PROVE  Shape
<1> USE DEF Serve, Request, notServed, listVars, ruleVars, loopVars
<1>0. Consistent(ruleProc, proc) /\ ruleProc \in Pointers
  BY ConsistentDef DEF PointerInv, TypeInv, TypeOK, Pointers
<1>1. ASSUME UNCHANGED <<proc, os, procList, procTodo, pc, procFlag, timerTodo>>
      PROVE  Shape
  BY <1>1 DEF Shape, Life, Untouched, Lists, Turn
<1>2. CASE MessagesDone
  BY <1>2 DEF MessagesDone, Shape, Life, Untouched, Lists, Turn
<1>3. ASSUME NEW p \in Procs, ServeReady(p)
      PROVE  Shape
  BY <1>1, <1>3 DEF ServeReady
<1>4. CASE ApiAnswered
  BY <1>1, <1>4 DEF ApiAnswered
<1>5. ASSUME NEW r \in Rules, ApiStart(r)
      PROVE  Shape
  BY <1>1, <1>5 DEF ApiStart
<1>6. ASSUME NEW mode \in Modes, NEW c \in Clients \cup {NoClient},
             proc' = StopProcs(ruleProc, mode, c),
             ruleProc' = StopConn(ruleProc, mode),
             UNCHANGED <<os, procList, procTodo, pc, procFlag, timerTodo>>
      PROVE  Shape
  BY <1>0, <1>6, StopShape DEF Shape, Lists, Turn
<1>7. ASSUME NEW r \in Rules, ApiStopQueued(r)
      PROVE  Shape
  <2>1. [Keep EXCEPT ![r] = "TERMME"] \in Modes /\ NoClient \in Clients \cup {NoClient}
    BY DEF Keep, Modes
  <2> QED
    BY <1>6, <1>7, <2>1 DEF ApiStopQueued
<1>8. ASSUME NEW r \in Rules, NEW how \in {"TERMME", "KILLME"},
             NEW c \in Clients \cup {NoClient}, ApiStopRunning(r, how, c)
      PROVE  Shape
  <2>1. [Keep EXCEPT ![r] = how] \in Modes
    BY DEF Keep, Modes
  <2> QED
    BY <1>6, <1>8, <2>1 DEF ApiStopRunning
<1> QED
  BY <1>2, <1>3, <1>4, <1>5, <1>7, <1>8 DEF MessageStep, ApiRequest

\* Children end, and SIGCHLD is delivered.
LEMMA ChildShape ==
  ASSUME TypeInv, ChildStep
  PROVE  Shape
<1> USE DEF supervisor, ownRules, ruleVars, timerVars, listVars, loopVars
<1>0. proc \in [Procs -> ProcType] /\ os \in [Procs -> OsStates]
  BY DEF TypeInv, TypeOK
<1>1. ASSUME NEW p \in Procs, Life(p), \A q \in Procs : q # p => Untouched(q),
             proc'[p].state = "FREE" <=> proc[p].state = "FREE",
             UNCHANGED <<procList, procTodo, pc, procFlag, timerTodo>>
      PROVE  Shape
  <2>1. Lists /\ Turn
    BY <1>1 DEF Lists, Turn, Untouched
  <2> QED
    BY <1>1, <2>1, OneMoves DEF Shape
<1>2. ASSUME NEW p \in Procs, (\E how \in Ends : ChildEnds(p, how)) \/ KilledEnds(p)
      PROVE  Shape
  <2>1. ChildOver(p) /\ \A q \in Procs : q # p => Untouched(q)
    BY <1>0, <1>2 DEF ChildEnds, KilledEnds, ChildOver, Untouched, Ends
  <2>2. UNCHANGED <<proc, procList, procTodo, pc, procFlag, timerTodo>>
    BY <1>2 DEF ChildEnds, KilledEnds
  <2> QED
    BY <1>1, <2>1, <2>2 DEF Life
<1>3. ASSUME NEW p \in Procs, SendReady(p)
      PROVE  Shape
  BY <1>3 DEF SendReady, Shape, Life, Untouched, Lists, Turn
<1>4. ASSUME NEW p \in Procs, Sigchld(p)
      PROVE  Shape
  <2>0. UNCHANGED <<procList, procTodo, pc, procFlag, timerTodo>> /\ os[p] \in Ends
    BY <1>4 DEF Sigchld
  <2>1. CASE proc[p].state = "FREE"
    <3>1. Orphaned(p) /\ \A q \in Procs : q # p => Untouched(q)
      BY <1>0, <1>4, <2>1 DEF Sigchld, Orphaned, Untouched
    <3> QED
      BY <1>1, <2>0, <3>1 DEF Life, Orphaned
  <2>2. CASE proc[p].state # "FREE"
    <3>1. /\ proc' = [proc EXCEPT ![p] = Chld(p)]
          /\ os' = [os EXCEPT ![p] = "reaped"]
      BY <1>4, <2>2 DEF Sigchld
    <3>2. /\ Chld(p).state = "STOPPING" /\ Chld(p).retstat = os[p]
          /\ Chld(p).signaled = proc[p].signaled
      BY <1>0 DEF Chld, ProcType
    <3>3. proc'[p] = Chld(p) /\ os'[p] = "reaped"
          /\ \A q \in Procs : q # p => Untouched(q)
      BY <1>0, <3>1 DEF Untouched
    <3>4. Noticed(p)
      BY <2>0, <2>2, <3>2, <3>3 DEF Noticed
    <3> QED
      BY <1>1, <2>0, <2>2, <3>3, <3>4 DEF Life, Noticed
  <2> QED
    BY <2>1, <2>2
<1> QED
  BY <1>2, <1>3, <1>4 DEF ChildStep

\* A pass moves one object on.
LEMMA PassMoves ==
  ASSUME NEW p \in Procs, p = Head(procTodo), procTodo # <<>>,
         pc \in {"start", "stop"}, Life(p),
         \A q \in Procs : q # p => Untouched(q),
         proc'[p].state = "FREE" <=> proc[p].state = "FREE",
         pc = "start" => proc'[p].state # "RUNME",
         procTodo' = Tail(procTodo),
         UNCHANGED <<procList, pc, procFlag, timerTodo>>
  PROVE  Shape
<1>1. Lists /\ Turn
  BY DEF Lists, Turn, Untouched
<1> QED
  BY <1>1, OneMoves DEF Shape

\* PCD_process_iterate_start spawns objects and counts their passes.
LEMMA StartPassShape ==
  ASSUME TypeInv, Spawn \/ StartingWaits \/ Started \/ StartedRaced \/ StartSkips
  PROVE  Shape
<1> DEFINE p == Head(procTodo)
<1> USE DEF Advance, ownRules, ruleVars, timerVars, listVars, envVars, loopVars
<1>0. /\ proc \in [Procs -> ProcType] /\ os \in [Procs -> OsStates]
      /\ p \in Procs /\ proc[p] \in ProcType /\ pc = "start" /\ procTodo # <<>>
      /\ procTodo' = Tail(procTodo)
      /\ UNCHANGED <<procList, pc, procFlag, timerTodo>>
  <2>1. \E s : Reach("start", s)
    BY DEF Spawn, StartingWaits, Started, StartedRaced, StartSkips
  <2> QED
    BY <2>1, ReachType DEF TypeInv, TypeOK, Reach, Spawn, StartingWaits, Started,
                           StartedRaced, StartSkips
<1>1. CASE Spawn
  <2>1. /\ proc[p].state = "RUNME"
        /\ proc' = [proc EXCEPT ![p].state = "STARTING", ![p].tm = StartingTm]
        /\ \/ os' = [os EXCEPT ![p] = "running"]
           \/ ForkMayFail /\ os' = [os EXCEPT ![p] = "nofork"]
    BY <1>1 DEF Spawn, Reach
  <2> HIDE DEF p
  <2>2. /\ proc'[p].state = "STARTING" /\ proc'[p].signaled = proc[p].signaled
        /\ os'[p] = "running" \/ (ForkMayFail /\ os'[p] = "nofork")
        /\ \A q \in Procs : q # p => Untouched(q)
    <3>1. proc'[p].state = "STARTING" /\ proc'[p].signaled = proc[p].signaled
      BY <1>0, <2>1 DEF ProcType
    <3>2. \A q \in Procs : q # p => proc'[q] = proc[q]
      BY <1>0, <2>1
    <3>3. /\ os'[p] = "running" \/ (ForkMayFail /\ os'[p] = "nofork")
          /\ \A q \in Procs : q # p => os'[q] = os[q]
      <4>1. /\ os' = [os EXCEPT ![p] = "running"] => os'[p] = "running"
            /\ os' = [os EXCEPT ![p] = "nofork"] => os'[p] = "nofork"
            /\ \A x : os' = [os EXCEPT ![p] = x]
                      => \A q \in Procs : q # p => os'[q] = os[q]
        BY <1>0
      <4> QED
        BY <2>1, <4>1, Zenon
    <3> QED
      BY <3>1, <3>2, <3>3 DEF Untouched
  <2>3. Spawned(p)
    BY <1>0, <2>1, <2>2 DEF Spawned
  <2> QED
    BY <1>0, <2>1, <2>2, <2>3, PassMoves DEF Life, p
<1>2. CASE StartingWaits \/ Started \/ StartedRaced
  <2>1. /\ proc[p].state = "STARTING"
        /\ proc'[p].state \in {"STARTING", "RUNNING"}
        /\ proc'[p].signaled = proc[p].signaled
        /\ os'[p] = os[p] \/ (SignalWindow /\ os[p] \in Ends /\ os'[p] = "reaped")
        /\ \A q \in Procs : q # p => Untouched(q)
    <3>1. CASE StartingWaits
      <4>1. /\ proc[p].state = "STARTING" /\ os' = os
            /\ proc' = [proc EXCEPT ![p].tm = @ - 1]
        BY <3>1 DEF StartingWaits, Reach
      <4> HIDE DEF p
      <4>2. /\ proc'[p].state \in {"STARTING", "RUNNING"}
            /\ proc'[p].signaled = proc[p].signaled
            /\ \A q \in Procs : q # p => Untouched(q)
        BY <1>0, <4>1 DEF ProcType, Untouched
      <4> QED
        BY <4>1, <4>2, Zenon
    <3>2. CASE Started
      <4>1. /\ proc[p].state = "STARTING" /\ os' = os
            /\ proc' = [proc EXCEPT ![p].state = "RUNNING"]
        BY <3>2 DEF Started, Reach
      <4> HIDE DEF p
      <4>2. /\ proc'[p].state \in {"STARTING", "RUNNING"}
            /\ proc'[p].signaled = proc[p].signaled
            /\ \A q \in Procs : q # p => Untouched(q)
        BY <1>0, <4>1 DEF ProcType, Untouched
      <4> QED
        BY <4>1, <4>2, Zenon
    <3>3. CASE StartedRaced
      <4>1. /\ proc[p].state = "STARTING" /\ SignalWindow /\ os[p] \in Ends
            /\ proc' = [proc EXCEPT ![p].state = "RUNNING", ![p].retstat = os[p]]
            /\ os' = [os EXCEPT ![p] = "reaped"]
        BY <3>3 DEF StartedRaced, Reach
      <4> HIDE DEF p
      <4> QED
        BY <1>0, <4>1 DEF ProcType, Untouched
    <3> QED
      BY <1>2, <3>1, <3>2, <3>3
  <2>2. Starts(p)
    BY <1>0, <2>1 DEF Starts
  <2> QED
    BY <1>0, <2>1, <2>2, PassMoves DEF Life
<1>3. CASE StartSkips
  <2>1. proc' = proc /\ os' = os /\ proc[p].state # "RUNME"
    BY <1>3 DEF StartSkips, Reach
  <2> QED
    BY <1>0, <2>1, PassMoves DEF Life, Untouched
<1> QED
  BY <1>1, <1>2, <1>3

\* PCD_process_iterate_stop sends the signals.
LEMMA StopPassShape ==
  ASSUME TypeInv, MarkStopped \/ TermWaits \/ Terminate \/ KillWaits \/ Kill
                  \/ StopSkips
  PROVE  Shape
<1> DEFINE p == Head(procTodo)
<1> USE DEF Advance, ownRules, ruleVars, timerVars, listVars, envVars, loopVars
<1>0. /\ proc \in [Procs -> ProcType] /\ os \in [Procs -> OsStates]
      /\ p \in Procs /\ proc[p] \in ProcType /\ pc = "stop" /\ procTodo # <<>>
      /\ procTodo' = Tail(procTodo)
      /\ UNCHANGED <<procList, pc, procFlag, timerTodo>>
  <2>1. \E s : Reach("stop", s)
    BY DEF MarkStopped, TermWaits, Terminate, KillWaits, Kill, StopSkips
  <2> QED
    BY <2>1, ReachType DEF TypeInv, TypeOK, Reach, MarkStopped, TermWaits,
                           Terminate, KillWaits, Kill, StopSkips
<1>1. CASE MarkStopped
  <2>1. /\ proc[p].state \in {"STOPPING", "RUNME"} /\ os' = os
        /\ proc' = [proc EXCEPT ![p].state = "STOPPED"]
    BY <1>1 DEF MarkStopped, Reach
  <2>2. /\ proc'[p].state = "STOPPED" /\ proc'[p].signaled = proc[p].signaled
        /\ proc'[p].retstat = proc[p].retstat
        /\ \A q \in Procs : q # p => Untouched(q)
    <3> HIDE DEF p
    <3> QED
      BY <1>0, <2>1 DEF ProcType, Untouched
  <2>3. Marked(p)
    BY <1>0, <2>1, <2>2 DEF Marked
  <2> QED
    BY <1>0, <2>1, <2>2, <2>3, PassMoves DEF Life
<1>2. CASE TermWaits \/ StopSkips
  <2>1. proc' = proc /\ os' = os
    BY <1>2 DEF TermWaits, StopSkips
  <2> QED
    BY <1>0, <2>1, PassMoves DEF Life, Untouched
<1>3. CASE Terminate
  <2>1. /\ proc[p].state = "TERMME" /\ os' = os /\ ~SomeKillme
        /\ proc' = IF HasPid(p)
                   THEN [proc EXCEPT ![p].signaled = TRUE, ![p].tm = KillTm,
                          ![p].state = IF os[p] = "reaped" THEN "STOPPED"
                                                           ELSE "KILLME"]
                   ELSE [proc EXCEPT ![p].state = "STOPPED"]
    BY <1>3 DEF Terminate, Reach
  <2>2. /\ \/ proc'[p].state = "KILLME"
           \/ proc'[p].state = "STOPPED" /\ os[p] # "running"
        /\ \A q \in Procs : q # p => Untouched(q)
    <3> HIDE DEF p
    <3> QED
      BY <1>0, <2>1 DEF ProcType, Untouched, HasPid
  <2>3. Termed(p)
    BY <1>0, <2>1, <2>2 DEF Termed, Untouched
  <2> QED
    BY <1>0, <2>1, <2>2, <2>3, PassMoves DEF Life
<1>4. CASE KillWaits
  <2>1. /\ proc[p].state = "KILLME" /\ os' = os /\ proc[p].tm # 0
        /\ proc' = [proc EXCEPT ![p].tm = @ - 1]
    BY <1>4 DEF KillWaits, Reach
  <2>2. /\ proc'[p].state = "KILLME" /\ proc'[p].tm = proc[p].tm - 1
        /\ \A q \in Procs : q # p => Untouched(q)
    <3> HIDE DEF p
    <3> QED
      BY <1>0, <2>1 DEF ProcType, Untouched
  <2>3. Killing(p)
    BY <1>0, <2>1, <2>2 DEF Killing
  <2> QED
    BY <1>0, <2>1, <2>2, <2>3, PassMoves DEF Life
<1>5. CASE Kill
  <2>1. /\ proc[p].state = "KILLME"
        /\ proc' = [proc EXCEPT ![p].state = "STOPPED",
                                ![p].signaled = @ \/ HasPid(p)]
        /\ os' = [os EXCEPT ![p] = Sigkill(p)]
    BY <1>5 DEF Kill, Reach
  <2>2. /\ proc'[p].state = "STOPPED" /\ os'[p] = Sigkill(p)
        /\ \A q \in Procs : q # p => Untouched(q)
    <3> HIDE DEF p
    <3> QED
      BY <1>0, <2>1 DEF ProcType, Untouched
  <2>3. Killing(p)
    BY <1>0, <2>1, <2>2 DEF Killing
  <2> QED
    BY <1>0, <2>1, <2>2, <2>3, PassMoves DEF Life
<1> QED
  BY <1>1, <1>2, <1>3, <1>4, <1>5

\* An object is freed, the others are stopped or left alone.
LEMMA FreeShape ==
  ASSUME NEW p \in Procs, p = Head(procTodo), procTodo # <<>>, pc = "stop",
         proc[p].state = "STOPPED", proc'[p] = FreeObj,
         os'[p] \in {os[p], "none"},
         \A q \in Procs : q # p => /\ Life(q)
                                   /\ proc'[q].state = "FREE" <=> proc[q].state = "FREE",
         procTodo' = Tail(procTodo), procList' = Unlink(p),
         UNCHANGED <<procFlag, timerTodo>>, pc' \in {pc, "down"}
  PROVE  Shape
<1>1. Freed(p)
  BY DEF Freed
<1>2. proc'[p].state = "FREE"
  BY DEF FreeObj
<1> QED
  BY <1>1, <1>2 DEF Shape, Lists, Turn, Life

\* What the failure action of a process that ended on its own does.
TriggerStates(r) ==
  IF Queued(r) THEN [ruleState EXCEPT ![r] = "FAILED"] ELSE ruleState
Trigger(r) == FailureTarget(r, TriggerStates(r))

LEMMA ReapUnexpectedShape ==
  ASSUME TypeInv, PointerInv, ReapUnexpected
  PROVE  Shape
<1> DEFINE p == Head(procTodo)
           r == proc[p].rule
           mode == TriggerMode(r, Trigger(r))
           conn == Disconnect(p)
           procs2 == StopProcs(conn, mode, NoClient)
<1>0. /\ proc \in [Procs -> ProcType] /\ os \in [Procs -> OsStates]
      /\ p \in Procs /\ pc = "stop" /\ procTodo # <<>> /\ proc[p].state = "STOPPED"
  BY ReachType DEF TypeInv, TypeOK, ReapUnexpected, Reach
<1>1. r \in Rules /\ conn \in Pointers /\ mode \in Modes
      /\ NoClient \in Clients \cup {NoClient}
  BY <1>0, DisconnectType DEF TypeInv, ObjectHasRule, TriggerMode, Modes
<1>2. /\ Consistent(conn, proc)
      /\ \A q \in Rules : conn[q] # p
  BY <1>0, DisconnectConsistent, ConsistentDef DEF PointerInv
<1>3. /\ ruleProc' = StopConn(conn, mode)
      /\ \/ proc' = procs2 /\ UNCHANGED <<procList, procTodo, os>>
         \/ /\ proc' = [procs2 EXCEPT ![p] = FreeObj]
            /\ procList' = Unlink(p) /\ FreeOs(p) /\ procTodo' = Tail(procTodo)
      /\ pc' \in {pc, "down"} /\ UNCHANGED <<procFlag, timerTodo>>
  BY DEF ReapUnexpected, Trigger, TriggerStates, Advance
<1> HIDE DEF p, r, mode, conn
<1>4. procs2 \in [Procs -> ProcType]
  BY <1>1, StopType DEF TypeInv
<1>5. CASE proc' = procs2 /\ UNCHANGED <<procList, procTodo, os>>
  <2>1. /\ \A q \in Procs : Life(q)
        /\ \A q \in Procs : proc'[q].state = "FREE" <=> proc[q].state = "FREE"
    BY <1>1, <1>2, <1>3, <1>5, StopShape
  <2> QED
    BY <1>0, <1>3, <1>5, <2>1 DEF Shape, Lists, Turn
<1>6. CASE /\ proc' = [procs2 EXCEPT ![p] = FreeObj]
           /\ procList' = Unlink(p) /\ FreeOs(p) /\ procTodo' = Tail(procTodo)
  <2>1. proc'[p] = FreeObj /\ \A q \in Procs : q # p => proc'[q] = procs2[q]
    BY <1>0, <1>4, <1>6
  <2>2. os'[p] \in {os[p], "none"} /\ \A q \in Procs : q # p => os'[q] = os[q]
    BY <1>0, <1>6 DEF FreeOs
  <2>3. ASSUME NEW q \in Procs, q # p
        PROVE  Life(q) /\ (proc'[q].state = "FREE" <=> proc[q].state = "FREE")
    <3>1. /\ procs2[q].state = "FREE" <=> proc[q].state = "FREE"
          /\ \/ procs2[q] = proc[q]
             \/ /\ proc[q].state \in StopStates
                /\ procs2[q].state \in {"TERMME", "KILLME"} /\ procs2[q].tm = 0
                /\ \A x \in Rules : StopConn(conn, mode)[x] # q
      BY <1>1, <1>2, StopLife
    <3> HIDE DEF procs2
    <3> QED
      BY <1>3, <2>1, <2>2, <2>3, <3>1 DEF Life, Untouched, LetGo
  <2> QED
    BY <1>0, <1>3, <1>6, <2>1, <2>2, <2>3, FreeShape DEF p
<1> QED
  BY <1>3, <1>5, <1>6

LEMMA ReapShape ==
  ASSUME TypeInv, Reap
  PROVE  Shape
<1> DEFINE p == Head(procTodo)
<1>0. /\ proc \in [Procs -> ProcType] /\ os \in [Procs -> OsStates]
      /\ p \in Procs /\ pc = "stop" /\ procTodo # <<>> /\ proc[p].state = "STOPPED"
  BY ReachType DEF TypeInv, TypeOK, Reap, Reach
<1>1. /\ proc' = [proc EXCEPT ![p] = FreeObj] /\ procList' = Unlink(p)
      /\ FreeOs(p) /\ procTodo' = Tail(procTodo)
      /\ UNCHANGED <<pc, procFlag, timerTodo>>
  BY DEF Reap, Advance, timerVars, loopVars
<1> HIDE DEF p
<1>2. proc'[p] = FreeObj /\ \A q \in Procs : q # p => Untouched(q)
  BY <1>0, <1>1 DEF Untouched, FreeOs
<1>3. os'[p] \in {os[p], "none"}
  BY <1>0, <1>1 DEF FreeOs
<1> QED
  BY <1>0, <1>1, <1>2, <1>3, FreeShape DEF p, Life, Untouched

\* Every step moves the objects on as the code does, keeps the lists, and is at
\* its place in the turn of the main loop.
LEMMA StepShape ==
  TypeInv /\ TypeInv' /\ PointerInv /\ [Next]_vars => Shape
<1> SUFFICES ASSUME TypeInv, TypeInv', PointerInv, [Next]_vars
             PROVE  Shape
  OBVIOUS
<1>1. CASE UNCHANGED vars
  BY <1>1 DEF vars, Shape, Life, Untouched, Lists, Turn
<1>2. CASE StartPassDone
  BY <1>2 DEF StartPassDone, ownRules, ruleVars, timerVars, Shape, Life,
              Untouched, Lists, Turn
<1>3. CASE StopPassDone
  BY <1>3 DEF StopPassDone, ownRules, ruleVars, timerVars, listVars, Shape, Life,
              Untouched, Lists, Turn
<1>4. CASE ProcessStep
  BY <1>2, <1>3, <1>4, StartPassShape, StopPassShape, ReapShape,
     ReapUnexpectedShape DEF ProcessStep
<1> QED
  BY <1>1, <1>4, TimerShape, ApiShape, ChildShape DEF Next, MainStep, Down

-----------------------------------------------------------------------------
(***************************************************************************)
(* The invariant of the objects and their children.                        *)
(***************************************************************************)

\* The part of a pass still to be visited is in the list, each object once.
TodoIsInList ==
  /\ Range(procTodo) \subseteq Range(procList)
  /\ Distinct(procTodo)

ListInv == ListIsExact /\ TodoIsInList

LifeInv ==
  /\ ListInv
  /\ SpawnedInSameTurn
  /\ RunningChildIsTracked
  /\ OneTermination

LEMMA ListStep ==
  ASSUME TypeInv, TypeInv', ListInv, Lists
  PROVE  ListInv'
<1>0. /\ procList \in Seq(Procs) /\ procTodo \in Seq(Procs)
      /\ procList' \in Seq(Procs) /\ TypeOK
  BY DEF TypeInv, TypeOK
<1>1. /\ \A p \in Procs : proc[p].state # "FREE" <=> p \in Range(procList)
      /\ Distinct(procList) /\ Distinct(procTodo)
      /\ Range(procTodo) \subseteq Range(procList)
  BY DEF ListInv, ListIsExact, TodoIsInList, Distinct
<1> SUFFICES /\ \A p \in Procs : proc'[p].state # "FREE" <=> p \in Range(procList')
             /\ Distinct(procList') /\ Distinct(procTodo')
             /\ Range(procTodo') \subseteq Range(procList')
  BY DEF ListInv, ListIsExact, TodoIsInList, Distinct
<1>2. procTodo # <<>> =>
        /\ Range(procTodo) = {Head(procTodo)} \cup Range(Tail(procTodo))
        /\ Distinct(Tail(procTodo))
        /\ Head(procTodo) \notin Range(Tail(procTodo))
        /\ Head(procTodo) \in Procs
  BY <1>0, <1>1, TailElements
<1>3. CASE /\ procList' = procList
           /\ \A p \in Procs : proc'[p].state = "FREE" <=> proc[p].state = "FREE"
           /\ \/ procTodo' \in {procTodo, procList}
              \/ procTodo # <<>> /\ procTodo' = Tail(procTodo)
  BY <1>1, <1>2, <1>3
<1>4. ASSUME NEW p \in Procs, proc[p].state = "FREE", proc'[p].state # "FREE",
             \A q \in Procs : q # p =>
               (proc'[q].state = "FREE" <=> proc[q].state = "FREE"),
             procList' = Cons(p, procList), procTodo' = procTodo
      PROVE  /\ \A q \in Procs : proc'[q].state # "FREE" <=> q \in Range(procList')
             /\ Distinct(procList') /\ Distinct(procTodo')
             /\ Range(procTodo') \subseteq Range(procList')
  <2>1. Range(procList') = {p} \cup Range(procList) /\ Distinct(procList')
    BY <1>0, <1>1, <1>4, ConsElements
  <2> QED
    BY <1>1, <1>4, <2>1
<1>5. CASE /\ procTodo # <<>> /\ procTodo' = Tail(procTodo)
           /\ procList' = Unlink(Head(procTodo))
           /\ proc'[Head(procTodo)].state = "FREE"
           /\ \A q \in Procs : q # Head(procTodo) =>
                (proc'[q].state = "FREE" <=> proc[q].state = "FREE")
  <2>1. /\ Range(procList') = Range(procList) \ {Head(procTodo)}
        /\ Distinct(procList')
    BY <1>0, <1>1, <1>2, <1>5, UnlinkElements
  <2> QED
    BY <1>1, <1>2, <1>5, <2>1
<1> QED
  BY <1>3, <1>4, <1>5 DEF Lists

LEMMA SpawnedStep ==
  ASSUME TypeInv, ListInv, ListInv', SpawnedInSameTurn, Shape
  PROVE  SpawnedInSameTurn'
<1> SUFFICES ASSUME NEW p \in Procs, proc'[p].state = "RUNME"
             PROVE  \/ pc' = "timer" /\ procFlag'
                    \/ pc' = "start" /\ p \in Range(procTodo')
                    \/ pc' = "down"
  BY DEF SpawnedInSameTurn
<1>1. Made(p) \/ proc[p].state = "RUNME"
  BY DEF Shape, Life, Untouched, ChildOver, Orphaned, Noticed, LetGo, Spawned,
         Starts, Marked, Termed, Killing, Freed, FreeObj
<1>2. p \in Range(procList')
  BY DEF ListInv, ListIsExact
<1>3. Turn
  BY DEF Shape
<1>4. CASE Made(p)
  <2>1. pc = "timer" /\ procFlag' = TRUE
    BY <1>4 DEF Made
  <2> QED
    BY <1>3, <2>1 DEF Turn
<1>5. CASE proc[p].state = "RUNME"
  <2>0. procTodo # <<>> => Range(procTodo) = {Head(procTodo)} \cup Range(Tail(procTodo))
    BY TailElements DEF TypeInv, TypeOK
  <2>1. CASE pc = "timer" /\ procFlag
    BY <1>2, <1>3, <2>1 DEF Turn, TypeInv, TypeOK
  <2>2. CASE pc = "start" /\ p \in Range(procTodo)
    <3>1. procTodo # <<>>
      BY <2>2 DEF Range
    <3> QED
      BY <1>3, <2>0, <2>2, <3>1 DEF Turn
  <2>3. CASE pc = "down"
    BY <1>3, <2>3 DEF Turn
  <2> QED
    BY <1>5, <2>1, <2>2, <2>3 DEF SpawnedInSameTurn
<1> QED
  BY <1>1, <1>4, <1>5

LEMMA TrackedStep ==
  ASSUME ListInv', RunningChildIsTracked, Shape
  PROVE  RunningChildIsTracked'
<1> SUFFICES ASSUME NEW p \in Procs, os'[p] = "running"
             PROVE  /\ proc'[p].state \in {"STARTING", "RUNNING", "TERMME", "KILLME"}
                    /\ p \in Range(procList')
  BY DEF RunningChildIsTracked
<1>1. Life(p)
  BY DEF Shape
<1>2. proc'[p].state \in {"STARTING", "RUNNING", "TERMME", "KILLME"}
  BY <1>1 DEF Life, Untouched, ChildOver, Orphaned, Noticed, Made, LetGo, Spawned,
              Starts, Marked, Termed, Killing, Freed, FreeObj, Ends, Sigkill,
              RunningChildIsTracked
<1> QED
  BY <1>2 DEF ListInv, ListIsExact

\* A process is sent SIGTERM only when none of the list is KILLME, and the list
\* holds them all.
LEMMA TerminationStep ==
  ASSUME TypeInv, TypeInv', ListInv, OneTermination, Shape
  PROVE  OneTermination'
<1> DEFINE Dying(p)  == proc[p].state = "KILLME" /\ proc[p].tm > 0
           Dying2(p) == proc'[p].state = "KILLME" /\ proc'[p].tm > 0
<1>0. \A p \in Procs : proc[p].tm \in Nat /\ proc'[p].tm \in Nat
  BY DEF TypeInv, TypeOK, ProcType
<1>1. ASSUME NEW p \in Procs, Dying2(p)
      PROVE  \/ Dying(p)
             \/ /\ \A q \in Procs : proc[q].state # "KILLME"
                /\ \A q \in Procs : q # p => proc'[q] = proc[q]
  <2>1. Life(p)
    BY DEF Shape
  <2>2. CASE Termed(p)
    <3>1. ~SomeKillme /\ \A q \in Procs : q # p => proc'[q] = proc[q]
      BY <1>1, <2>2 DEF Termed
    <3>2. \A q \in Procs : proc[q].state # "KILLME"
      BY <3>1 DEF SomeKillme, ListInv, ListIsExact, Range
    <3> QED
      BY <3>1, <3>2
  <2>3. CASE ~Termed(p)
    BY <1>0, <1>1, <2>1, <2>3
       DEF Life, Untouched, ChildOver, Orphaned, Noticed, Made, LetGo, Spawned,
           Starts, Marked, Killing, Freed, FreeObj
  <2> QED
    BY <2>2, <2>3
<1>2. ASSUME NEW p \in Procs, NEW q \in Procs, Dying2(p), Dying2(q)
      PROVE  p = q
  BY <1>1, <1>2 DEF OneTermination
<1> QED
  BY <1>2 DEF OneTermination

LEMMA InitLife == Init => LifeInv
<1> SUFFICES ASSUME Init PROVE LifeInv
  OBVIOUS
<1>1. \A p \in Procs : proc[p].state = "FREE" /\ os[p] = "none"
  BY DEF Init, FreeObj
<1>2. DOMAIN procList = {} /\ DOMAIN procTodo = {}
  BY DEF Init
<1>3. ListInv
  BY <1>1, <1>2 DEF ListInv, ListIsExact, TodoIsInList, Distinct, Range
<1> QED
  BY <1>1, <1>3 DEF LifeInv, SpawnedInSameTurn, RunningChildIsTracked, OneTermination

LEMMA NextLife ==
  TypeInv /\ TypeInv' /\ PointerInv /\ LifeInv /\ [Next]_vars => LifeInv'
<1> SUFFICES ASSUME TypeInv, TypeInv', PointerInv, LifeInv, [Next]_vars
             PROVE  LifeInv'
  OBVIOUS
<1>1. Shape
  BY StepShape
<1>2. ListInv'
  BY <1>1, ListStep DEF LifeInv, Shape
<1> QED
  BY <1>1, <1>2, SpawnedStep, TrackedStep, TerminationStep DEF LifeInv

LEMMA LifeCorrect == Spec => [](TypeInv /\ PointerInv /\ LifeInv)
<1>1. Spec => []TypeInv
  BY InitTypes, NextTypes, PTL DEF Spec
<1> QED
  BY <1>1, PointersCorrect, InitLife, NextLife, PTL DEF Spec

-----------------------------------------------------------------------------
\* The process list holds the allocated objects, each once: no object is lost,
\* freed twice or visited twice by a pass, though PCD_process_iterate_stop
\* unlinks objects from the list it goes through.
THEOREM ListIsExactCorrect == Spec => []ListIsExact
<1>1. LifeInv => ListIsExact
  BY DEF LifeInv, ListInv
<1> QED
  BY <1>1, LifeCorrect, PTL

\* A process object that PCD_process_enqueue created is spawned in the turn that
\* created it.
THEOREM SpawnedCorrect == Spec => []SpawnedInSameTurn
<1>1. LifeInv => SpawnedInSameTurn
  BY DEF LifeInv
<1> QED
  BY <1>1, LifeCorrect, PTL

\* No object is freed or forgotten under a child that runs, wherever SIGCHLD
\* interrupts the passes and whether or not fork and malloc succeed.
THEOREM RunningChildCorrect == Spec => []RunningChildIsTracked
<1>1. LifeInv => RunningChildIsTracked
  BY DEF LifeInv
<1> QED
  BY <1>1, LifeCorrect, PTL

\* At most one process is between its SIGTERM and its SIGKILL.
THEOREM OneTerminationCorrect == Spec => []OneTermination
<1>1. LifeInv => OneTermination
  BY DEF LifeInv
<1> QED
  BY <1>1, LifeCorrect, PTL

\* Where fork does not fail and SIGCHLD does not hit between a read and a write
\* of p->state, a process that the supervisor takes for up has a child that runs
\* or whose end SIGCHLD has still to report.
THEOREM UpHasChildCorrect ==
  ASSUME ~ForkMayFail, ~SignalWindow
  PROVE  Spec => []UpHasChild
<1>1. Init => UpHasChild
  BY DEF Init, UpHasChild, FreeObj
<1>2. ASSUME TypeInv, TypeInv', PointerInv, UpHasChild, [Next]_vars
      PROVE  UpHasChild'
  <2>1. Shape
    BY <1>2, StepShape
  <2> SUFFICES ASSUME NEW p \in Procs, proc'[p].state \in {"STARTING", "RUNNING"}
               PROVE  os'[p] \in {"running"} \cup Ends
    BY DEF UpHasChild
  <2>2. Life(p)
    BY <2>1 DEF Shape
  <2> QED
    BY <1>2, <2>2
       DEF Life, Untouched, ChildOver, Orphaned, Noticed, Made, LetGo, Spawned,
           Starts, Marked, Termed, Killing, Freed, FreeObj, Ends, UpHasChild
<1>3. TypeInv /\ TypeInv' /\ PointerInv /\ UpHasChild /\ [Next]_vars => UpHasChild'
  BY <1>2
<1> QED
  BY <1>1, <1>3, LifeCorrect, PTL DEF Spec

-----------------------------------------------------------------------------
(***************************************************************************)
(* The timer queue.                                                        *)
(***************************************************************************)

\* Outside an iteration the whole queue is in timerQ.
TodoIsTimers == pc \in {"timer", "down"} \/ timerTodo = <<>>

QueueInv == TodoIsTimers /\ ActiveIsQueued

\* The queue and the part of it still to visit may grow at the end, and lose
\* only the objects of the rules in gone.
QueueKeeps(gone) ==
  \A r \in Rules : r \notin gone /\ InQueue(r) => InQueue(r)'

\* An iteration moves on.
LEMMA VisitKeeps ==
  ASSUME TypeInv, TypeInv', NEW s, Visit(s)
  PROVE  /\ timerQ' = timerQ => QueueKeeps({Head(timerTodo).rule})
         /\ \A obj \in TimerType :
              obj.rule = Head(timerTodo).rule /\ timerQ' = Append(timerQ, obj)
              => QueueKeeps({})
<1>0. /\ timerTodo \in Seq(TimerType) /\ timerTodo # <<>> /\ timerQ \in Seq(TimerType)
      /\ timerTodo' = Tail(timerTodo)
  BY DEF TypeInv, TypeOK, Visit
<1>1. Range(timerTodo) = {Head(timerTodo)} \cup Range(Tail(timerTodo))
  BY <1>0, TailElements
<1>2. \A r : InQueue(r) <=> \/ \E i \in DOMAIN timerQ : timerQ[i].rule = r
                            \/ \E o \in Range(timerTodo) : o.rule = r
  BY DEF InQueue, Queued, Range
<1>3. \A r : InQueue(r)' <=> \/ \E i \in DOMAIN timerQ' : timerQ'[i].rule = r
                             \/ \E o \in Range(timerTodo') : o.rule = r
  BY DEF InQueue, Queued, Range
<1>4. ASSUME timerQ' = timerQ
      PROVE  QueueKeeps({Head(timerTodo).rule})
  BY <1>0, <1>1, <1>2, <1>3, <1>4 DEF QueueKeeps
<1>5. ASSUME NEW obj \in TimerType, obj.rule = Head(timerTodo).rule,
             timerQ' = Append(timerQ, obj)
      PROVE  QueueKeeps({})
  <2>1. \A i \in DOMAIN timerQ : i \in DOMAIN timerQ' /\ timerQ'[i] = timerQ[i]
    BY <1>0, <1>5
  <2>2. \E i \in DOMAIN timerQ' : timerQ'[i] = obj
    <3>1. Len(timerQ) + 1 \in DOMAIN timerQ' /\ timerQ'[Len(timerQ) + 1] = obj
      BY <1>0, <1>5
    <3> QED
      BY <3>1
  <2> QED
    BY <1>0, <1>1, <1>2, <1>3, <1>5, <2>1, <2>2 DEF QueueKeeps
<1> QED
  BY <1>4, <1>5

\* PCD_timer_enqueue adds an object for the rule.
LEMMA EnqueueKeeps ==
  ASSUME TypeInv, NEW queue \in Seq(TimerType), NEW r \in Rules,
         timerQ' = Enqueue(queue, r)
  PROVE  /\ InQueue(r)'
         /\ \A i \in DOMAIN queue : i \in DOMAIN timerQ' /\ timerQ'[i] = queue[i]
<1>0. TimerObj(r) \in TimerType /\ TimerObj(r).rule = r
  BY TimerObjType DEF TimerObj
<1> DEFINE obj == TimerObj(r)
<1>1. timerQ' = Append(queue, obj)
  BY DEF Enqueue
<1> HIDE DEF obj
<1>2. \A i \in DOMAIN queue : i \in DOMAIN timerQ' /\ timerQ'[i] = queue[i]
  BY <1>1
<1>3. Len(queue) + 1 \in DOMAIN timerQ' /\ timerQ'[Len(queue) + 1] = obj
  BY <1>1
<1> QED
  BY <1>0, <1>2, <1>3 DEF InQueue, Queued, obj

LEMMA TodoStep ==
  ASSUME TodoIsTimers, Turn
  PROVE  TodoIsTimers'
BY DEF TodoIsTimers, Turn

\* A rule that waits afterwards has waited before, or is put into the queue.
LEMMA ActiveKept ==
  ASSUME NEW gone, QueueKeeps(gone), ActiveIsQueued,
         \A r \in Rules : Active(ruleState'[r]) =>
           InQueue(r)' \/ (Active(ruleState[r]) /\ r \notin gone)
  PROVE  ActiveIsQueued'
BY DEF ActiveIsQueued, QueueKeeps

\* Steps that leave the rules and the queue alone.
LEMMA QueueUnchanged ==
  ASSUME ActiveIsQueued, UNCHANGED <<ruleState, timerQ, timerTodo>>
  PROVE  ActiveIsQueued'
BY DEF ActiveIsQueued, InQueue, Queued

LEMMA TimerQueue ==
  ASSUME TypeInv, TypeInv', QueueInv, TimerStep
  PROVE  ActiveIsQueued'
<1> DEFINE obj == Head(timerTodo)
           h == Head(timerTodo).rule
<1> USE DEF unrelated, listVars, envVars, ruleVars
<1>0. ActiveIsQueued /\ ruleState \in [Rules -> RuleStates]
  BY DEF QueueInv, TypeInv, TypeOK
<1>1. ASSUME StartWaits \/ StartHopeless \/ StartPseudo \/ StartProcess \/ EndWaits
      PROVE  ActiveIsQueued'
  <2>1. /\ \E s : Visit(s)
        /\ Active(ruleState[h])
        /\ \A q \in Rules : q # h => ruleState'[q] = ruleState[q]
        /\ \E o \in TimerType : o.rule = h /\ timerQ' = Append(timerQ, o)
    <3>1. CASE StartWaits \/ StartHopeless \/ StartPseudo \/ StartProcess
      <4>1. /\ Visit({"START_WAITING"}) /\ timerQ' = Append(timerQ, obj)
            /\ \A q \in Rules : q # h => ruleState'[q] = ruleState[q]
        BY <1>0, <3>1 DEF StartWaits, StartHopeless, StartPseudo, StartProcess,
                          EnqueueProcess, KeepObj
      <4>2. obj \in TimerType /\ Active(ruleState[h])
        BY <4>1, VisitType DEF Visit, Active
      <4> QED
        BY <4>1, <4>2
    <3>2. CASE EndWaits
      <4>1. /\ Visit({"END_WAITING"}) /\ ruleState' = ruleState
            /\ timerQ' = Append(timerQ, [obj EXCEPT !.timeout = Countdown(@)])
        BY <3>2 DEF EndWaits, KeepObj
      <4>2. obj \in TimerType /\ Active(ruleState[h])
        BY <4>1, VisitType DEF Visit, Active
      <4> DEFINE new == [obj EXCEPT !.timeout = Countdown(@)]
      <4>3. new \in TimerType /\ new.rule = h
        <5>1. Countdown(obj.timeout) \in Nat \cup {Forever}
          BY <4>2, BoundAssumption DEF TimerType, Countdown, Forever
        <5> HIDE DEF obj
        <5> QED
          BY <4>2, <5>1 DEF TimerType, obj
      <4> QED
        BY <4>1, <4>2, <4>3
    <3> QED
      BY <1>1, <3>1, <3>2
  <2>2. QueueKeeps({})
    BY <2>1, VisitKeeps
  <2> QED
    BY <1>0, <2>1, <2>2, ActiveKept
<1>2. ASSUME StartNoMemory \/ EndReached \/ EndTimeout \/ VisitIdle
      PROVE  ActiveIsQueued'
  <2>1. /\ \E s : Visit(s)
        /\ timerQ' = timerQ
        /\ h \in Rules /\ ~Active(ruleState'[h])
        /\ \A q \in Rules : q # h => ruleState'[q] = ruleState[q]
    <3>1. CASE StartNoMemory
      <4>1. Visit({"START_WAITING"}) /\ timerQ' = timerQ
            /\ ruleState' = [ruleState EXCEPT ![h] = "FAILED"]
        BY <3>1 DEF StartNoMemory, FailRule, DropObj
      <4> QED
        BY <1>0, <4>1, VisitType DEF Active
    <3>2. CASE EndReached
      <4>1. Visit({"END_WAITING"}) /\ timerQ' = timerQ
            /\ ruleState' = [ruleState EXCEPT ![h] = "COMPLETED"]
        BY <3>2 DEF EndReached, DropObj
      <4> QED
        BY <1>0, <4>1, VisitType DEF Active
    <3>3. CASE EndTimeout
      <4>1. Visit({"END_WAITING"}) /\ timerQ' = timerQ
            /\ ruleState' = [ruleState EXCEPT ![h] = "NOT_COMPLETED"]
        BY <3>3 DEF EndTimeout, FailRule, DropObj
      <4> QED
        BY <1>0, <4>1, VisitType DEF Active
    <3>4. CASE VisitIdle
      <4>1. /\ Visit(RuleStates \ {"START_WAITING", "END_WAITING"})
            /\ UNCHANGED <<timerQ, ruleState>>
        BY <3>4 DEF VisitIdle, DropObj
      <4> QED
        BY <4>1, VisitType DEF Active, Visit
    <3> QED
      BY <1>2, <3>1, <3>2, <3>3, <3>4
  <2>2. QueueKeeps({h})
    BY <2>1, VisitKeeps
  <2> QED
    BY <1>0, <2>1, <2>2, ActiveKept
<1>3. CASE TimerDone
  <2>1. /\ timerTodo = <<>> /\ timerTodo' = <<>>
        /\ timerQ' = timerQ \o [i \in DOMAIN enqueueList |-> TimerObj(enqueueList[i])]
        /\ ruleState' = [r \in Rules |-> IF r \in Range(enqueueList)
                                         THEN "START_WAITING" ELSE ruleState[r]]
    BY <1>3 DEF TimerDone
  <2> DEFINE new == [i \in DOMAIN enqueueList |-> TimerObj(enqueueList[i])]
  <2>2. /\ enqueueList \in Seq(Rules) /\ timerQ \in Seq(TimerType)
        /\ DOMAIN enqueueList = 1..Len(enqueueList) /\ Len(enqueueList) \in Nat
    BY DEF TypeInv, TypeOK
  <2>3. /\ new \in Seq(TimerType) /\ DOMAIN new = DOMAIN enqueueList
        /\ Len(new) = Len(enqueueList)
        /\ \A i \in DOMAIN enqueueList : new[i].rule = enqueueList[i]
    <3>1. \A i \in 1..Len(enqueueList) : TimerObj(enqueueList[i]) \in TimerType
                                         /\ TimerObj(enqueueList[i]).rule = enqueueList[i]
      BY <2>2, TimerObjType DEF TimerObj
    <3> QED
      BY <2>2, <3>1
  <2> HIDE DEF new
  <2>4. timerQ' = timerQ \o new
    BY <2>1 DEF new
  <2>5. \A i \in DOMAIN timerQ : i \in DOMAIN timerQ' /\ timerQ'[i] = timerQ[i]
    BY <2>2, <2>3, <2>4
  <2>6. ASSUME NEW i \in 1..Len(enqueueList)
        PROVE  \E j \in DOMAIN timerQ' : timerQ'[j].rule = enqueueList[i]
    <3>1. /\ Len(timerQ) + i \in DOMAIN timerQ'
          /\ timerQ'[Len(timerQ) + i] = new[i]
      BY <2>2, <2>3, <2>4
    <3> QED
      BY <2>2, <2>3, <3>1
  <2>7. QueueKeeps({})
    BY <2>1, <2>5 DEF QueueKeeps, InQueue, Queued
  <2>8. \A r \in Rules : r \in Range(enqueueList) => InQueue(r)'
    BY <2>2, <2>6 DEF Range, InQueue, Queued
  <2> QED
    BY <1>0, <2>1, <2>7, <2>8, ActiveKept
<1> QED
  BY <1>1, <1>2, <1>3 DEF TimerStep

LEMMA ApiQueue ==
  ASSUME TypeInv, TypeInv', QueueInv, MessageStep \/ ApiRequest
  PROVE  ActiveIsQueued'
<1> USE DEF Serve, Request, notServed, listVars, ruleVars, loopVars
<1>0. /\ ActiveIsQueued /\ TodoIsTimers /\ ruleState \in [Rules -> RuleStates]
      /\ timerQ \in Seq(TimerType) /\ TypeOK
  BY DEF QueueInv, TypeInv, TypeOK
<1>1. CASE MessagesDone
  <2>1. /\ timerTodo = <<>> /\ timerTodo' = timerQ /\ ruleState' = ruleState
    BY <1>0, <1>1 DEF MessagesDone, TodoIsTimers
  <2>2. DOMAIN timerTodo = {}
    BY <2>1
  <2> QED
    BY <1>0, <2>1, <2>2 DEF ActiveIsQueued, InQueue, Queued
<1>2. ASSUME NEW p \in Procs, ServeReady(p)
      PROVE  ActiveIsQueued'
  BY <1>0, <1>2, QueueUnchanged DEF ServeReady
<1>3. CASE ApiAnswered
  BY <1>0, <1>3, QueueUnchanged DEF ApiAnswered
<1>4. ASSUME NEW r \in Rules, ApiStart(r)
      PROVE  ActiveIsQueued'
  <2>1. /\ ruleState' = [ruleState EXCEPT ![r] = "START_WAITING"]
        /\ timerQ' = Enqueue(timerQ, r) /\ timerTodo' = timerTodo
    BY <1>4 DEF ApiStart
  <2>2. /\ InQueue(r)'
        /\ \A i \in DOMAIN timerQ : i \in DOMAIN timerQ' /\ timerQ'[i] = timerQ[i]
    BY <1>0, <2>1, EnqueueKeeps
  <2>3. QueueKeeps({})
    BY <2>1, <2>2 DEF QueueKeeps, InQueue, Queued
  <2> QED
    BY <1>0, <2>1, <2>2, <2>3, ActiveKept
<1>5. ASSUME NEW r \in Rules, ApiStopQueued(r)
      PROVE  ActiveIsQueued'
  <2>1. /\ ruleState' = [ruleState EXCEPT ![r] = DequeuedState(@)]
        /\ timerQ' = Dequeue(r) /\ timerTodo' = timerTodo
    BY <1>5 DEF ApiStopQueued
  <2>2. \A q \in Rules : q # r /\ Queued(q) =>
          \E i \in DOMAIN Dequeue(r) : Dequeue(r)[i].rule = q
    BY <1>0, DequeueElements
  <2>3. QueueKeeps({r})
    BY <2>1, <2>2 DEF QueueKeeps, InQueue, Queued
  <2>4. ~Active(ruleState'[r]) /\ \A q \in Rules : q # r => ruleState'[q] = ruleState[q]
    BY <1>0, <2>1 DEF DequeuedState, Active
  <2> QED
    BY <1>0, <2>3, <2>4, ActiveKept
<1>6. ASSUME NEW r \in Rules, NEW how \in {"TERMME", "KILLME"},
             NEW c \in Clients \cup {NoClient}, ApiStopRunning(r, how, c)
      PROVE  ActiveIsQueued'
  <2>1. /\ ruleState' = [ruleState EXCEPT ![r] = "IDLE"]
        /\ timerQ' = timerQ /\ timerTodo' = timerTodo
    BY <1>6 DEF ApiStopRunning
  <2> QED
    BY <1>0, <2>1 DEF ActiveIsQueued, InQueue, Queued, Active
<1> QED
  BY <1>1, <1>2, <1>3, <1>4, <1>5, <1>6 DEF MessageStep, ApiRequest

LEMMA ReapUnexpectedQueue ==
  ASSUME TypeInv, TypeInv', QueueInv, ReapUnexpected
  PROVE  ActiveIsQueued'
<1> DEFINE r == proc[Head(procTodo)].rule
           states == TriggerStates(r)
           next == Trigger(r)
           queue == Dequeue(r)
<1>0. /\ ActiveIsQueued /\ ruleState \in [Rules -> RuleStates]
      /\ timerQ \in Seq(TimerType) /\ TypeOK
  BY DEF QueueInv, TypeInv, TypeOK
<1>1. r \in Rules
  BY ReachType DEF ReapUnexpected, TypeInv, ObjectHasRule
<1>2. next \in Rules \cup {NoRule}
  BY <1>1, FailureTargetType DEF Trigger
<1>3. /\ timerTodo' = timerTodo
      /\ \/ ruleState' = states /\ timerQ' = queue
         \/ /\ ruleState' = [q \in Rules |-> IF q = next THEN "START_WAITING"
                                                         ELSE states[q]]
            /\ timerQ' = IF next = NoRule THEN queue ELSE Enqueue(queue, next)
  BY DEF ReapUnexpected, Trigger, TriggerStates
<1>4. /\ queue \in Seq(TimerType)
      /\ \A q \in Rules : ~Queued(r) \/ q # r => (Queued(q) =>
              \E i \in DOMAIN queue : queue[i].rule = q)
  <2>1. /\ queue \in Seq(TimerType)
        /\ ~Queued(r) => queue = timerQ
        /\ \A q \in Rules : q # r /\ Queued(q) =>
             \E i \in DOMAIN queue : queue[i].rule = q
    BY <1>0, <1>1, DequeueElements
  <2> QED
    BY <2>1 DEF Queued
<1>5. \A q \in Rules : Active(states[q]) => Active(ruleState[q]) /\ (~Queued(r) \/ q # r)
  BY <1>0, <1>1 DEF TriggerStates, Active
<1> DEFINE gone == IF Queued(r) THEN {r} ELSE {}
<1> HIDE DEF r, states, next, queue
<1>6. CASE timerQ' = queue
  <2>1. QueueKeeps(gone)
    BY <1>3, <1>4, <1>6 DEF QueueKeeps, InQueue, Queued
  <2>2. \A q \in Rules : Active(ruleState'[q]) => Active(states[q]) \/ q = next
    BY <1>3
  <2>3. CASE ruleState' = states
    BY <1>0, <1>5, <2>1, <2>3, ActiveKept
  <2>4. CASE ruleState' # states
    <3>1. next = NoRule
      <4>1. next # NoRule => timerQ' = Enqueue(queue, next)
        BY <1>3, <2>4
      <4>2. next # NoRule => queue # Enqueue(queue, next)
        BY <1>2, <1>4, TimerObjType DEF Enqueue
      <4> QED
        BY <1>6, <4>1, <4>2
    <3>2. \A q \in Rules : ruleState'[q] = states[q]
      BY <1>3, <2>4, <3>1, SentinelAssumption
    <3> QED
      BY <1>0, <1>5, <2>1, <3>2, ActiveKept
  <2> QED
    BY <2>3, <2>4
<1>7. CASE timerQ' # queue
  <2>1. PICK n \in Rules : /\ timerQ' = Enqueue(queue, n)
                           /\ \A q \in Rules : q # n => ruleState'[q] = states[q]
    BY <1>2, <1>3, <1>7
  <2>2. /\ InQueue(n)'
        /\ \A i \in DOMAIN queue : i \in DOMAIN timerQ' /\ timerQ'[i] = queue[i]
    BY <1>4, <2>1, EnqueueKeeps
  <2>3. QueueKeeps(gone)
    BY <1>3, <1>4, <2>2 DEF QueueKeeps, InQueue, Queued
  <2> QED
    BY <1>0, <1>5, <2>1, <2>2, <2>3, ActiveKept
<1> QED
  BY <1>6, <1>7

LEMMA NextQueue ==
  TypeInv /\ TypeInv' /\ PointerInv /\ QueueInv /\ [Next]_vars => QueueInv'
<1> SUFFICES ASSUME TypeInv, TypeInv', PointerInv, QueueInv, [Next]_vars
             PROVE  QueueInv'
  OBVIOUS
<1>1. TodoIsTimers'
  BY StepShape, TodoStep DEF Shape, QueueInv
<1>2. ASSUME UNCHANGED <<ruleState, timerQ, timerTodo>>
      PROVE  ActiveIsQueued'
  BY <1>2, QueueUnchanged DEF QueueInv
<1>3. ASSUME ChildStep \/ UNCHANGED vars
      PROVE  ActiveIsQueued'
  BY <1>2, <1>3 DEF ChildStep, ChildEnds, KilledEnds, SendReady, Sigchld, supervisor,
                    ownRules, ruleVars, timerVars, vars
<1>4. ASSUME ProcessStep
      PROVE  ActiveIsQueued'
  <2>1. CASE ReapUnexpected
    BY <2>1, ReapUnexpectedQueue
  <2>2. CASE ~ReapUnexpected
    BY <1>2, <1>4, <2>2
       DEF ProcessStep, Spawn, StartingWaits, Started, StartedRaced, StartSkips,
           StartPassDone, MarkStopped, Reap, TermWaits, Terminate, KillWaits, Kill,
           StopSkips, StopPassDone, ownRules, ruleVars, timerVars
  <2> QED
    BY <2>1, <2>2
<1>5. ActiveIsQueued'
  BY <1>3, <1>4, TimerQueue, ApiQueue DEF Next, MainStep, Down
<1> QED
  BY <1>1, <1>5 DEF QueueInv

LEMMA InitQueue == Init => QueueInv
<1> SUFFICES ASSUME Init PROVE QueueInv
  OBVIOUS
<1>1. TodoIsTimers
  BY DEF Init, TodoIsTimers
<1>2. ASSUME NEW r \in Rules, Active(ruleState[r])
      PROVE  Queued(r)
  <2>1. Conf[r].active /\ r \in Range(ActiveRules)
    BY <1>2, ConfAssumption DEF Init, Activate, Active
  <2>2. PICK i \in DOMAIN ActiveRules : ActiveRules[i] = r
    BY <2>1 DEF Range
  <2>3. i \in DOMAIN timerQ /\ timerQ[i] = TimerObj(r)
    BY <2>2 DEF Init, Activate
  <2> QED
    BY <2>3 DEF Queued, TimerObj
<1> QED
  BY <1>1, <1>2 DEF QueueInv, ActiveIsQueued, InQueue

LEMMA QueueInvCorrect == Spec => []QueueInv
BY LifeCorrect, InitQueue, NextQueue, PTL DEF Spec

\* A rule in a waiting state is in the timer queue, so some iteration checks it:
\* no order of requests, failures and signals leaves it stuck.
THEOREM ActiveIsQueuedCorrect == Spec => []ActiveIsQueued
<1>1. QueueInv => ActiveIsQueued
  BY DEF QueueInv
<1> QED
  BY <1>1, QueueInvCorrect, PTL

-----------------------------------------------------------------------------
(***************************************************************************)
(* The exit of a process is seen.                                          *)
(***************************************************************************)

\* An object its rule points at has not been signaled: PCD_process_stop lets go
\* of the object before any pass signals it.
SignaledIsLetGo ==
  \A r \in Rules : ruleProc[r] # NoProc => ~proc[ruleProc[r]].signaled

\* Such an object is STOPPING or STOPPED because SIGCHLD said how its child ended.
EndHasStatus ==
  \A r \in Rules :
    /\ ruleProc[r] # NoProc
    /\ proc[ruleProc[r]].state \in {"STOPPING", "STOPPED"}
    => proc[ruleProc[r]].retstat \in Ends

\* A rule that waits for an exit that has happened
ExitDue(r) ==
  /\ Conf[r].end = "EXIT" /\ ruleState[r] = "END_WAITING"
  /\ ruleProc[r] # NoProc
  /\ proc[ruleProc[r]].retstat = "expected"

\* From the pass that makes the object STOPPED to the one that frees it, the
\* timer iteration has still to visit the rule.
ExitWillBeSeen ==
  \A r \in Rules : ExitDue(r) /\ proc[ruleProc[r]].state = "STOPPED" =>
    \/ pc \in {"messages", "down"}
    \/ pc = "timer" /\ \E i \in DOMAIN timerTodo : timerTodo[i].rule = r
    \/ pc = "stop" /\ ruleProc[r] \notin Range(procTodo)

ExitInv == SignaledIsLetGo /\ EndHasStatus /\ ExitWillBeSeen

\* What a step does to the pointer of a rule: nothing, it connects a new object,
\* it lets go of an object that was stopped, which also ends the wait of the rule,
\* or of one that is reaped.
Pointer(r) ==
  \/ ruleProc'[r] = ruleProc[r]
  \/ \E p \in Procs : ruleProc[r] = NoProc /\ ruleProc'[r] = p /\ Made(p)
  \/ /\ ruleProc'[r] = NoProc
     /\ ruleState[r] = "END_WAITING" => ruleState'[r] # "END_WAITING"
  \/ /\ ruleProc'[r] = NoProc
     /\ pc = "stop" /\ procTodo # <<>> /\ ruleProc[r] = Head(procTodo)
     /\ proc[Head(procTodo)].state = "STOPPED" /\ ~Unexpected(Head(procTodo))

\* How a rule comes to wait for its end, and that the iteration sees an exit.
Wait(r) ==
  /\ ruleState'[r] = "END_WAITING" =>
       ruleState[r] = "END_WAITING" \/ ruleProc[r] = NoProc
  /\ /\ pc = "timer" /\ timerTodo # <<>> /\ timerTodo' = Tail(timerTodo)
     /\ Head(timerTodo).rule = r /\ ExitDue(r)
     => ruleState'[r] # "END_WAITING"

RuleShape == \A r \in Rules : Pointer(r) /\ Wait(r)

\* PCD_process_stop disconnects only the rules it is asked to.
LEMMA StopOnly ==
  ASSUME NEW conn \in Pointers, NEW mode \in Modes, Consistent(conn, proc),
         NEW r \in Rules
  PROVE  StopConn(conn, mode)[r] = conn[r]
         \/ (StopConn(conn, mode)[r] = NoProc /\ mode[r] # "KEEP")
BY DEF StopConn, Stops, Consistent

LEMMA FailRuleWait ==
  ASSUME TypeInv, PointerInv, NEW h \in Rules,
         NEW state \in {"FAILED", "NOT_COMPLETED"}, FailRule(h, state)
  PROVE  /\ \A r \in Rules : Pointer(r)
         /\ ruleState' = [ruleState EXCEPT ![h] = state]
<1> DEFINE states == [ruleState EXCEPT ![h] = state]
           next == FailureTarget(h, states)
           kill == [q \in Rules |-> IF q \in {h, next} THEN "KILLME" ELSE "KEEP"]
<1>1. kill \in Modes /\ ruleProc \in Pointers /\ Consistent(ruleProc, proc)
  BY ConsistentDef DEF Modes, Pointers, TypeInv, TypeOK, PointerInv
<1>2. ruleState' = states /\ ruleProc' = StopConn(ruleProc, kill)
  BY DEF FailRule
<1>3. next # NoRule => ~Active(states[next])
  BY SentinelAssumption DEF FailureTarget, Active, TypeInv, TypeOK
<1>4. next \in Rules \cup {NoRule} /\ ~Active(states[h])
  BY FailureTargetType DEF TypeInv, TypeOK, Active
<1>5. \A r \in Rules : kill[r] # "KEEP" => ~Active(states[r])
  BY <1>3, <1>4, SentinelAssumption
<1> HIDE DEF kill, states, next
<1>6. \A r \in Rules : ruleProc'[r] = ruleProc[r]
                       \/ (ruleProc'[r] = NoProc /\ kill[r] # "KEEP")
  BY <1>1, <1>2, StopOnly
<1> QED
  BY <1>2, <1>5, <1>6 DEF Pointer, Active, states

\* Steps outside the iteration that leave the rules alone.
LEMMA RulesKept ==
  ASSUME UNCHANGED <<ruleState, ruleProc>>,
         pc # "timer" \/ timerTodo = <<>> \/ UNCHANGED timerTodo,
         TypeInv
  PROVE  RuleShape
<1>1. timerTodo # <<>> => Tail(timerTodo) # timerTodo
  BY DEF TypeInv, TypeOK
<1> QED
  BY <1>1 DEF RuleShape, Pointer, Wait

LEMMA TimerRules ==
  ASSUME TypeInv, PointerInv, TimerStep
  PROVE  RuleShape
<1> DEFINE h == Head(timerTodo).rule
<1> USE DEF unrelated, listVars, envVars, ruleVars
<1>0. /\ ruleState \in [Rules -> RuleStates] /\ ruleProc \in Pointers
      /\ StartWaitingHasNoProcess
  BY DEF TypeInv, TypeOK, Pointers, PointerInv
<1>1. ASSUME StartWaits \/ VisitIdle
      PROVE  RuleShape
  <2>1. ruleState[h] # "END_WAITING" /\ UNCHANGED <<ruleState, ruleProc>>
    BY <1>1 DEF StartWaits, VisitIdle, Visit
  <2> QED
    BY <2>1 DEF RuleShape, Pointer, Wait, ExitDue
<1>2. ASSUME StartHopeless \/ StartPseudo
      PROVE  RuleShape
  <2>1. /\ ruleState[h] = "START_WAITING" /\ h \in Rules /\ ruleProc' = ruleProc
        /\ \E x : ruleState' = [ruleState EXCEPT ![h] = x]
    BY <1>2, VisitType DEF StartHopeless, StartPseudo, Visit
  <2> HIDE DEF h
  <2> QED
    BY <1>0, <2>1 DEF RuleShape, Pointer, Wait, ExitDue, StartWaitingHasNoProcess, h
<1>3. CASE StartProcess
  <2> DEFINE p == Malloc
  <2>1. h \in Rules /\ pc = "timer" /\ ruleState[h] = "START_WAITING"
    BY <1>3, VisitType DEF StartProcess, Visit
  <2>2. ruleProc[h] = NoProc
    BY <1>0, <2>1 DEF StartWaitingHasNoProcess
  <2>3. /\ p \in FreeObjs
        /\ proc' = [proc EXCEPT ![p] = NewObj(h)] /\ os' = os /\ procFlag' = TRUE
        /\ ruleProc' = [ruleProc EXCEPT ![h] = p]
        /\ ruleState' = [ruleState EXCEPT ![h] = "END_WAITING"]
    BY <1>3, <2>2 DEF StartProcess, EnqueueProcess, Malloc
  <2>4. /\ p \in Procs /\ proc[p].state = "FREE" /\ os[p] = "none"
        /\ NewObj(h).state = "RUNME" /\ NewObj(h).signaled = FALSE
    BY <2>3 DEF FreeObjs, NewObj, FreeObj
  <2> HIDE DEF p, h
  <2>5. Made(p)
    BY <2>1, <2>3, <2>4 DEF Made, TypeInv, TypeOK
  <2>6. Pointer(h) /\ \A r \in Rules : r # h => Pointer(r)
    BY <1>0, <2>1, <2>2, <2>3, <2>4, <2>5 DEF Pointer, Pointers
  <2>7. \A r \in Rules : Wait(r)
    BY <1>0, <2>1, <2>2, <2>3 DEF Wait, ExitDue, h
  <2> QED
    BY <2>6, <2>7 DEF RuleShape
<1>4. ASSUME StartNoMemory \/ EndTimeout
      PROVE  RuleShape
  <2>1. /\ h \in Rules
        /\ \E state \in {"FAILED", "NOT_COMPLETED"} : FailRule(h, state)
    BY <1>4, VisitType DEF StartNoMemory, EndTimeout, Visit
  <2>2. PICK state \in {"FAILED", "NOT_COMPLETED"} : FailRule(h, state)
    BY <2>1
  <2>3. /\ \A r \in Rules : Pointer(r)
        /\ ruleState' = [ruleState EXCEPT ![h] = state]
    BY <2>1, <2>2, FailRuleWait
  <2> HIDE DEF h
  <2>4. \A r \in Rules : Wait(r)
    BY <1>0, <2>1, <2>2, <2>3 DEF Wait, h
  <2> QED
    BY <2>3, <2>4 DEF RuleShape
<1>5. CASE EndReached
  <2>1. /\ h \in Rules /\ ruleProc' = ruleProc
        /\ ruleState' = [ruleState EXCEPT ![h] = "COMPLETED"]
    BY <1>5, VisitType DEF EndReached, Visit
  <2> HIDE DEF h
  <2> QED
    BY <1>0, <2>1 DEF RuleShape, Pointer, Wait, h
<1>6. CASE EndWaits
  <2>1. /\ UNCHANGED <<ruleState, ruleProc>>
        /\ "NOK" \in EndCondResults(h)
    BY <1>6 DEF EndWaits
  <2>2. ~ExitDue(h)
    BY <2>1 DEF EndCondResults, ExitResult, Result, ExitDue
  <2> QED
    BY <2>1, <2>2 DEF RuleShape, Pointer, Wait
<1>7. CASE TimerDone
  <2>1. /\ timerTodo = <<>> /\ ruleProc' = ruleProc
        /\ \A r \in Rules : ruleState'[r] \in {"START_WAITING", ruleState[r]}
    BY <1>7 DEF TimerDone
  <2> QED
    BY <2>1 DEF RuleShape, Pointer, Wait
<1> QED
  BY <1>1, <1>2, <1>3, <1>4, <1>5, <1>6, <1>7 DEF TimerStep

\* The rules whose pointers and states a request changes.
LEMMA ApiRules ==
  ASSUME TypeInv, PointerInv, MessageStep \/ ApiRequest
  PROVE  RuleShape
<1> USE DEF Serve, Request, notServed, listVars, ruleVars, loopVars
<1>0. /\ ruleState \in [Rules -> RuleStates] /\ ruleProc \in Pointers
      /\ Consistent(ruleProc, proc)
  BY ConsistentDef DEF TypeInv, TypeOK, Pointers, PointerInv
<1>1. ASSUME MessagesDone \/ ApiAnswered \/ \E p \in Procs : ServeReady(p)
      PROVE  RuleShape
  BY <1>1, RulesKept DEF MessagesDone, ApiAnswered, ServeReady
<1>2. ASSUME NEW r \in Rules, ApiStart(r)
      PROVE  RuleShape
  <2>1. /\ pc = "messages" /\ ruleProc' = ruleProc
        /\ ruleState' = [ruleState EXCEPT ![r] = "START_WAITING"]
    BY <1>2 DEF ApiStart
  <2> QED
    BY <1>0, <2>1 DEF RuleShape, Pointer, Wait
<1>3. ASSUME NEW r \in Rules, NEW how \in {"TERMME", "KILLME"}, NEW x,
             x # "END_WAITING", pc = "messages",
             ruleProc' = StopConn(ruleProc, [Keep EXCEPT ![r] = how]),
             ruleState' = [ruleState EXCEPT ![r] = x]
      PROVE  RuleShape
  <2> DEFINE mode == [Keep EXCEPT ![r] = how]
  <2>1. mode \in Modes /\ \A q \in Rules : mode[q] # "KEEP" => q = r
    BY DEF Keep, Modes
  <2> HIDE DEF mode
  <2>2. \A q \in Rules : ruleProc'[q] = ruleProc[q] \/ (ruleProc'[q] = NoProc /\ q = r)
    BY <1>0, <1>3, <2>1, StopOnly DEF mode
  <2> QED
    BY <1>0, <1>3, <2>2 DEF RuleShape, Pointer, Wait
<1>4. ASSUME NEW r \in Rules, ApiStopQueued(r)
      PROVE  RuleShape
  <2>1. DequeuedState(ruleState[r]) # "END_WAITING"
    BY DEF DequeuedState
  <2> QED
    BY <1>3, <1>4, <2>1 DEF ApiStopQueued
<1>5. ASSUME NEW r \in Rules, NEW how \in {"TERMME", "KILLME"},
             NEW c \in Clients \cup {NoClient}, ApiStopRunning(r, how, c)
      PROVE  RuleShape
  BY <1>3, <1>5 DEF ApiStopRunning
<1> QED
  BY <1>1, <1>2, <1>4, <1>5 DEF MessageStep, ApiRequest

\* The failure action of a process that ended on its own ends the wait of its rule,
\* and is never refused: the pass moves on.
LEMMA TriggerAccepted ==
  ASSUME TypeInv, PointerInv, QueueInv, ReapUnexpected
  PROVE  RuleShape /\ procTodo' = Tail(procTodo)
<1> DEFINE p == Head(procTodo)
           r == proc[p].rule
           states == TriggerStates(r)
           next == Trigger(r)
           mode == TriggerMode(r, next)
           conn == Disconnect(p)
           conn2 == StopConn(conn, mode)
<1>0. /\ ruleState \in [Rules -> RuleStates]
      /\ p \in Procs /\ pc = "stop" /\ proc[p].state = "STOPPED"
  BY ReachType DEF TypeInv, TypeOK, ReapUnexpected, Reach
<1>1. r \in Rules /\ conn \in Pointers /\ mode \in Modes
      /\ NoClient \in Clients \cup {NoClient}
  BY <1>0, DisconnectType DEF TypeInv, ObjectHasRule, TriggerMode, Modes
<1>2. next \in Rules \cup {NoRule} /\ NoRule \notin Rules
  BY <1>1, FailureTargetType, SentinelAssumption DEF Trigger
<1>3. Active(ruleState[r]) => Queued(r)
  <2>1. timerTodo = <<>>
    BY <1>0 DEF QueueInv, TodoIsTimers
  <2>2. DOMAIN timerTodo = {}
    BY <2>1
  <2> QED
    BY <1>1, <2>2 DEF QueueInv, ActiveIsQueued, InQueue
<1>4. ~Active(states[r]) /\ \A q \in Rules : q # r => states[q] = ruleState[q]
  BY <1>0, <1>1, <1>3 DEF TriggerStates, Active
<1>5. next # NoRule => ~Active(states[next])
  BY <1>1, <1>4 DEF Trigger, FailureTarget
<1>6. /\ Consistent(conn, proc)
      /\ \A q \in Rules : conn[q] = ruleProc[q] \/ (conn[q] = NoProc /\ q = r)
  <2>1. Consistent(conn, proc)
    BY <1>0, DisconnectConsistent, ConsistentDef DEF PointerInv
  <2> QED
    BY <2>1 DEF Disconnect
<1>7. \A q \in Rules : mode[q] # "KEEP" <=> (q = r /\ Queued(r)) \/ q = next
  BY DEF TriggerMode
<1>8. /\ ruleProc' = conn2
      /\ IF next # NoRule /\ (Active(states[next]) \/ conn2[next] # NoProc)
         THEN ruleState' = states
         ELSE /\ ruleState' = [q \in Rules |-> IF q = next THEN "START_WAITING"
                                                           ELSE states[q]]
              /\ procTodo' = Tail(procTodo)
  BY DEF ReapUnexpected, Trigger, TriggerStates, Advance
<1> HIDE DEF p, r, states, next, mode, conn
<1>9. /\ \A q \in Rules : conn2[q] = conn[q] \/ (conn2[q] = NoProc /\ mode[q] # "KEEP")
      /\ \A q \in Rules : mode[q] # "KEEP" => conn2[q] = NoProc
  BY <1>1, <1>6, StopOnly, StopConsistent
<1>10. next # NoRule => conn2[next] = NoProc
  BY <1>2, <1>7, <1>9
<1> HIDE DEF conn2
<1>11. /\ ruleState' = [q \in Rules |-> IF q = next THEN "START_WAITING"
                                                   ELSE states[q]]
       /\ procTodo' = Tail(procTodo)
  BY <1>5, <1>8, <1>10
<1>12. \A q \in Rules : ruleProc'[q] = ruleProc[q]
                        \/ (ruleProc'[q] = NoProc /\ (q = r \/ q = next))
  BY <1>6, <1>7, <1>8, <1>9
<1>13. \A q \in Rules : q = r \/ q = next => ruleState'[q] # "END_WAITING"
  BY <1>1, <1>4, <1>11 DEF Active
<1>14. \A q \in Rules : ruleState'[q] = "END_WAITING" => ruleState[q] = "END_WAITING"
  BY <1>4, <1>11, <1>13
<1> QED
  BY <1>0, <1>11, <1>12, <1>13, <1>14 DEF RuleShape, Pointer, Wait

\* What every step does to the rules.
LEMMA RuleStep ==
  ASSUME TypeInv, PointerInv, QueueInv, [Next]_vars
  PROVE  RuleShape
<1>1. CASE ChildStep \/ UNCHANGED vars
  BY <1>1, RulesKept DEF ChildStep, ChildEnds, KilledEnds, SendReady, Sigchld,
                         supervisor, ownRules, ruleVars, timerVars, vars
<1>2. CASE Reap
  <2> DEFINE p == Head(procTodo)
  <2>1. /\ pc = "stop" /\ procTodo # <<>> /\ proc[p].state = "STOPPED"
        /\ ~Unexpected(p) /\ ruleProc' = Disconnect(p) /\ ruleState' = ruleState
    BY <1>2 DEF Reap, Reach
  <2>2. \A r \in Rules : ruleProc'[r] = ruleProc[r]
                         \/ (ruleProc'[r] = NoProc /\ ruleProc[r] = p)
    BY <2>1 DEF Disconnect
  <2> QED
    BY <2>1, <2>2 DEF RuleShape, Pointer, Wait
<1>3. CASE ProcessStep /\ ~ReapUnexpected /\ ~Reap
  BY <1>3, RulesKept
     DEF ProcessStep, Spawn, StartingWaits, Started, StartedRaced, StartSkips,
         StartPassDone, MarkStopped, TermWaits, Terminate, KillWaits, Kill,
         StopSkips, StopPassDone, ownRules, ruleVars, timerVars
<1> QED
  BY <1>1, <1>2, <1>3, TriggerAccepted, TimerRules, ApiRules DEF Next, MainStep, Down

\* An object a rule still points at after a step: it was made by the step, or the
\* rule pointed at it before and nobody stopped it.
LEMMA StillConnected ==
  ASSUME TypeInv, PointerInv, SpawnedInSameTurn, Shape, RuleShape,
         NEW r \in Rules, NEW p \in Procs, ruleProc'[r] = p
  PROVE  \/ Made(p)
         \/ /\ ruleProc[r] = p
            /\ Untouched(p) \/ ChildOver(p) \/ Noticed(p) \/ Spawned(p) \/ Starts(p)
               \/ (Marked(p) /\ proc[p].state = "STOPPING") \/ Freed(p)
<1>1. p # NoProc /\ Pointer(r) /\ Life(p)
  BY SentinelAssumption DEF Shape, RuleShape
<1>2. Made(p) \/ ruleProc[r] = p
  BY <1>1 DEF Pointer
<1>3. ASSUME ruleProc[r] = p
      PROVE  proc[p].state \in StopStates
  BY <1>1, <1>3 DEF PointerInv, Connected
<1>4. ~LetGo(p)
  BY DEF LetGo
<1>5. Marked(p) => proc[p].state = "STOPPING"
  BY DEF Marked, SpawnedInSameTurn
<1> QED
  BY <1>1, <1>2, <1>3, <1>4, <1>5
     DEF Life, StopStates, Orphaned, Termed, Killing

LEMMA ExitStep ==
  ASSUME TypeInv, TypeInv', PointerInv, LifeInv, QueueInv, ExitInv, Shape, RuleShape
  PROVE  ExitInv'
<1>0. SpawnedInSameTurn /\ procTodo \in Seq(Procs) /\ timerTodo \in Seq(TimerType)
      /\ \A r \in Rules : ruleProc'[r] # NoProc => ruleProc'[r] \in Procs
  BY DEF LifeInv, TypeInv, TypeOK
<1>still. \A r \in Rules, p \in Procs : ruleProc'[r] = p =>
        \/ Made(p)
        \/ /\ ruleProc[r] = p
           /\ Untouched(p) \/ ChildOver(p) \/ Noticed(p) \/ Spawned(p) \/ Starts(p)
              \/ (Marked(p) /\ proc[p].state = "STOPPING") \/ Freed(p)
  BY <1>0, StillConnected
<1>1. SignaledIsLetGo'
  <2> SUFFICES ASSUME NEW r \in Rules, NEW p \in Procs, ruleProc'[r] = p
               PROVE  ~proc'[p].signaled
    BY <1>0 DEF SignaledIsLetGo
  <2>1. p # NoProc
    BY SentinelAssumption
  <2>2. ruleProc[r] = p => proc[p].signaled = FALSE
    <3>1. proc[p].signaled \in BOOLEAN
      BY DEF TypeInv, TypeOK, ProcType
    <3> QED
      BY <2>1, <3>1 DEF ExitInv, SignaledIsLetGo
  <2>3. proc'[p].signaled = FALSE
    BY <1>still, <2>2
       DEF Made, Untouched, ChildOver, Noticed, Spawned, Starts, Marked, Freed, FreeObj
  <2> QED
    BY <2>3
<1>2. EndHasStatus'
  <2> SUFFICES ASSUME NEW r \in Rules, NEW p \in Procs, ruleProc'[r] = p,
                      proc'[p].state \in {"STOPPING", "STOPPED"}
               PROVE  proc'[p].retstat \in Ends
    BY <1>0 DEF EndHasStatus
  <2>1. p # NoProc
    BY SentinelAssumption
  <2> QED
    BY <1>still, <2>1
       DEF Made, Untouched, ChildOver, Noticed, Spawned, Starts, Marked, Freed, FreeObj,
           ExitInv, EndHasStatus
<1>3. ExitWillBeSeen'
  <2> SUFFICES ASSUME NEW r \in Rules, NEW p \in Procs, ruleProc'[r] = p,
                      ExitDue(r)', proc'[p].state = "STOPPED"
               PROVE  \/ pc' \in {"messages", "down"}
                      \/ /\ pc' = "timer"
                         /\ \E i \in DOMAIN timerTodo' : timerTodo'[i].rule = r
                      \/ pc' = "stop" /\ p \notin Range(procTodo')
    BY <1>0 DEF ExitWillBeSeen, ExitDue
  <2>1. p # NoProc /\ ruleProc[r] = p
    BY <1>still, SentinelAssumption DEF Made
  <2>2. ruleState[r] = "END_WAITING" /\ ruleState'[r] = "END_WAITING"
        /\ Conf[r].end = "EXIT" /\ proc'[p].retstat = "expected"
    BY <2>1 DEF RuleShape, Wait, ExitDue
  <2>3. \/ proc'[p] = proc[p]
        \/ Marked(p)
    BY <1>still, <2>1
       DEF Made, Untouched, ChildOver, Noticed, Spawned, Starts, Freed, FreeObj
  <2>4. procTodo # <<>> =>
          /\ Range(procTodo) = {Head(procTodo)} \cup Range(Tail(procTodo))
          /\ Head(procTodo) \notin Range(Tail(procTodo))
    BY <1>0, TailElements DEF LifeInv, ListInv, TodoIsInList
  <2>5. CASE Marked(p)
    BY <2>4, <2>5 DEF Marked
  <2>6. CASE proc'[p] = proc[p]
    <3>1. ExitDue(r) /\ proc[p].state = "STOPPED"
      BY <2>1, <2>2, <2>6 DEF ExitDue
    <3>2. \/ pc \in {"messages", "down"}
          \/ pc = "timer" /\ \E i \in DOMAIN timerTodo : timerTodo[i].rule = r
          \/ pc = "stop" /\ p \notin Range(procTodo)
      BY <2>1, <3>1 DEF ExitInv, ExitWillBeSeen
    <3>3. Turn /\ Wait(r)
      BY DEF Shape, RuleShape
    <3>4. CASE pc \in {"messages", "down"}
      <4>1. timerTodo = <<>> \/ pc = "down"
        BY <3>4 DEF QueueInv, TodoIsTimers
      <4>2. pc = "messages" => \E i \in DOMAIN timerQ : timerQ[i].rule = r
        <5>1. timerTodo = <<>> => DOMAIN timerTodo = {}
          OBVIOUS
        <5> QED
          BY <2>2, <4>1, <5>1 DEF QueueInv, ActiveIsQueued, Active, InQueue, Queued
      <4> QED
        BY <3>3, <3>4, <4>2 DEF Turn
    <3>5. CASE pc = "timer" /\ \E i \in DOMAIN timerTodo : timerTodo[i].rule = r
      <4>1. timerTodo # <<>>
        <5>1. timerTodo = <<>> => DOMAIN timerTodo = {}
          OBVIOUS
        <5> QED
          BY <3>5, <5>1
      <4>2. Range(timerTodo) = {Head(timerTodo)} \cup Range(Tail(timerTodo))
        BY <1>0, <4>1, TailElements
      <4>3. timerTodo' = Tail(timerTodo) => Head(timerTodo).rule # r
        BY <2>2, <3>1, <3>3, <3>5, <4>1 DEF Wait
      <4>4. timerTodo' = Tail(timerTodo) =>
              \E i \in DOMAIN timerTodo' : timerTodo'[i].rule = r
        <5> SUFFICES ASSUME timerTodo' = Tail(timerTodo)
                     PROVE  \E i \in DOMAIN timerTodo' : timerTodo'[i].rule = r
          OBVIOUS
        <5>1. PICK i \in DOMAIN timerTodo : timerTodo[i].rule = r
          BY <3>5
        <5>2. timerTodo[i] \in Range(Tail(timerTodo))
          <6>1. timerTodo[i] \in Range(timerTodo)
            BY DEF Range
          <6> QED
            BY <4>2, <4>3, <5>1, <6>1
        <5>3. PICK j \in DOMAIN Tail(timerTodo) : Tail(timerTodo)[j] = timerTodo[i]
          BY <5>2 DEF Range
        <5> QED
          BY <5>1, <5>3
      <4> QED
        BY <3>3, <3>5, <4>1, <4>4 DEF Turn
    <3>6. CASE pc = "stop" /\ p \notin Range(procTodo)
      BY <2>4, <3>3, <3>6 DEF Turn
    <3> QED
      BY <3>2, <3>4, <3>5, <3>6
  <2> QED
    BY <2>3, <2>5, <2>6
<1> QED
  BY <1>1, <1>2, <1>3 DEF ExitInv

LEMMA InitExit == Init => ExitInv
BY DEF Init, ExitInv, SignaledIsLetGo, EndHasStatus, ExitWillBeSeen, ExitDue

LEMMA NextExit ==
  /\ TypeInv /\ TypeInv' /\ PointerInv /\ LifeInv /\ QueueInv /\ ExitInv
  /\ [Next]_vars
  => ExitInv'
BY StepShape, RuleStep, ExitStep

LEMMA ExitCorrect ==
  Spec => [](TypeInv /\ PointerInv /\ LifeInv /\ QueueInv /\ ExitInv)
BY LifeCorrect, QueueInvCorrect, InitExit, NextExit, PTL DEF Spec

\* A rule that waits for the exit of its process loses the process only when it died
\* of a signal: an exit with any status is seen before the process object goes,
\* whenever SIGCHLD arrives.
THEOREM ExitIsSeenCorrect == Spec => ExitIsSeen
<1> DEFINE Seen ==
      \A r \in Rules :
        /\ Conf[r].end = "EXIT"
        /\ ruleState[r] = "END_WAITING" /\ ruleState'[r] = "END_WAITING"
        /\ ruleProc[r] # NoProc /\ ruleProc'[r] = NoProc
        => proc[ruleProc[r]].retstat = "signal"
<1>1. /\ TypeInv /\ TypeInv' /\ PointerInv /\ LifeInv /\ QueueInv /\ ExitInv
      /\ [Next]_vars
      => [Seen]_vars
  <2> SUFFICES ASSUME TypeInv, PointerInv, LifeInv, QueueInv, ExitInv, [Next]_vars,
                      NEW r \in Rules, Conf[r].end = "EXIT",
                      ruleState[r] = "END_WAITING", ruleState'[r] = "END_WAITING",
                      ruleProc[r] # NoProc, ruleProc'[r] = NoProc
               PROVE  proc[ruleProc[r]].retstat = "signal"
    OBVIOUS
  <2> DEFINE p == ruleProc[r]
  <2>1. /\ pc = "stop" /\ procTodo # <<>> /\ p = Head(procTodo)
        /\ proc[p].state = "STOPPED" /\ ~Unexpected(p)
    <3>1. Pointer(r)
      BY RuleStep DEF RuleShape
    <3> QED
      BY <3>1, SentinelAssumption DEF Pointer
  <2>2. proc[p].retstat \in Ends /\ ~proc[p].signaled
    BY <2>1 DEF ExitInv, EndHasStatus, SignaledIsLetGo
  <2>3. proc[p].retstat # "other"
    BY <2>1, <2>2 DEF Unexpected
  <2>4. proc[p].retstat # "expected"
    <3>1. p \in Range(procTodo)
      BY <2>1, TailElements DEF TypeInv, TypeOK
    <3> QED
      BY <2>1, <3>1 DEF ExitInv, ExitWillBeSeen, ExitDue
  <2> QED
    BY <2>2, <2>3, <2>4 DEF Ends
<1> QED
  BY <1>1, ExitCorrect, PTL DEF Spec, ExitIsSeen

\* PCD_process_iterate_stop does not move on when the failure action of an object is
\* refused; it never is, so the pass never visits the same object for ever.
PassMovesOn == [][ReapUnexpected => procTodo' = Tail(procTodo)]_vars

THEOREM PassMovesOnCorrect == Spec => PassMovesOn
<1>1. TypeInv /\ PointerInv /\ QueueInv => (ReapUnexpected => procTodo' = Tail(procTodo))
  BY TriggerAccepted
<1> QED
  BY <1>1, ExitCorrect, PTL DEF Spec, PassMovesOn
=============================================================================

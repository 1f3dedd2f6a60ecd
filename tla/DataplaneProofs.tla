--------------------------- MODULE DataplaneProofs ---------------------------
(***************************************************************************)
(* The platform around the shared memory, proved for any configuration of  *)
(* rings and interfaces, any number of processes on the ring and any       *)
(* number of deaths of the manager and of the dispatcher.                  *)
(***************************************************************************)
EXTENDS Dataplane, RingProofs

-----------------------------------------------------------------------------
(***************************************************************************)
(* The inductive invariant.                                                *)
(***************************************************************************)
N == Len(RingConf)

ListType ==
  [head : Elements \cup {Nil}, tail : Elements \cup {Nil}, count : 0..N,
   next : [Elements -> Elements \cup {Nil}], prev : [Elements -> Elements \cup {Nil}]]

\* The list is what has been parsed, and the rings behind it are in no list.
IsParsed(l) ==
  /\ l \in ListType
  /\ IsSequence(l, SubSeq(RingConf, 1, l.count))
  /\ \A i \in (l.count + 1)..N : ~LL_InList(l, RingConf[i])

ListInv ==
  /\ IsParsed(ringList)
  /\ mgr \in {"eal", "pools", "rings", "up"} => ringList.count = N

\* The walk of _alloc_rings has created the rings in front of its cursor.
WalkInv ==
  /\ mgr = "rings" => \E k \in 0..N :
       /\ created = {RingConf[i] : i \in 1..k}
       /\ cursor = IF k = N THEN Nil ELSE RingConf[k + 1]
  /\ mgr = "up" => created = {RingConf[i] : i \in DOMAIN RingConf}

\* Nobody is in the ring before it is created.
NobodyIsEarly ==
  /\ mgr \in {"eal", "pools"} => RingInit /\ created = {}
  /\ \A t \in Apps : attached[t] = "current" => Shared \in created

\* The dispatcher is in the ring only in the middle of a flush.
FlushInv ==
  /\ left > 0 => disp = "flush" /\ attached[Disp] = "current" /\ Shared \in created
  /\ op[Disp] # Idle => left > 0

\* From the moment the pool is filled, only deaths lose buffers.
PoolInv == created # {} \/ mgr \in {"rings", "up"} => LostInv

PlatformInv ==
  /\ TypeOK
  /\ DOMAIN ctx \subseteq DOMAIN Ifs
  /\ BufferInv
  /\ ListInv
  /\ WalkInv
  /\ NobodyIsEarly
  /\ FlushInv
  /\ RingsExist
  /\ PoolInv

-----------------------------------------------------------------------------
(***************************************************************************)
(* The manager's list of rings.                                            *)
(***************************************************************************)
LEMMA ConfType ==
  /\ N \in Nat /\ DOMAIN RingConf = 1..N
  /\ \A i \in 1..N : RingConf[i] \in Elements /\ RingConf[i] # Nil
  /\ \A i, j \in 1..N : RingConf[i] = RingConf[j] => i = j
BY DataplaneAssumption, NilAssumption DEF N

\* The pointers of a list that is the first rings of the configuration.
Linked(l) ==
  /\ l.head = IF l.count = 0 THEN Nil ELSE RingConf[1]
  /\ l.tail = IF l.count = 0 THEN Nil ELSE RingConf[l.count]
  /\ \A i \in 1..l.count :
       /\ l.next[RingConf[i]] = IF i = l.count THEN Nil ELSE RingConf[i + 1]
       /\ l.prev[RingConf[i]] = IF i = 1 THEN Nil ELSE RingConf[i - 1]

LEMMA ParsedIsLinked ==
  ASSUME NEW l \in ListType
  PROVE  IsSequence(l, SubSeq(RingConf, 1, l.count)) <=> Linked(l)
<1> DEFINE s == SubSeq(RingConf, 1, l.count)
<1>1. l.count \in 0..N
  BY DEF ListType
<1>2. Len(s) = l.count /\ \A i \in 1..l.count : s[i] = RingConf[i]
  BY <1>1, ConfType, DataplaneAssumption DEF N
<1> HIDE DEF s
<1>3. IsSequence(l, s) <=>
        /\ l.head = IF l.count = 0 THEN Nil ELSE s[1]
        /\ l.tail = IF l.count = 0 THEN Nil ELSE s[l.count]
        /\ \A i \in 1..l.count :
             /\ l.next[s[i]] = IF i = l.count THEN Nil ELSE s[i + 1]
             /\ l.prev[s[i]] = IF i = 1 THEN Nil ELSE s[i - 1]
  BY <1>2 DEF IsSequence
<1>4. \A i \in 1..l.count :
        /\ s[i] = RingConf[i]
        /\ i # l.count => s[i + 1] = RingConf[i + 1]
        /\ i # 1 => s[i - 1] = RingConf[i - 1]
  BY <1>1, <1>2, ConfType
<1>5. l.count # 0 => s[1] = RingConf[1] /\ s[l.count] = RingConf[l.count]
  BY <1>1, <1>2, ConfType
<1>6. IsSequence(l, s) <=> Linked(l)
  BY <1>3, <1>4, <1>5 DEF Linked
<1> QED
  BY <1>6 DEF s

LEMMA InitParsed == IsParsed(LL_Init)
<1>1. LL_Init \in ListType
  BY ConfType DEF LL_Init, ListType
<1>2. Linked(LL_Init)
  BY DEF LL_Init, Linked
<1>3. \A e \in Elements : ~LL_InList(LL_Init, e)
  BY DEF LL_Init, LL_InList
<1> QED
  BY <1>1, <1>2, <1>3, ParsedIsLinked, ConfType DEF IsParsed, LL_Init

\* _parse_rings appends the next ring of the configuration.
LEMMA AddParsed ==
  ASSUME NEW l, IsParsed(l), l.count < N
  PROVE  IsParsed(LListAdd(l, RingConf[l.count + 1]))
<1> DEFINE c == l.count
           e == RingConf[c + 1]
           m == LListAdd(l, e)
<1>1. /\ l \in ListType /\ c \in 0..N /\ c + 1 \in 1..N
      /\ e \in Elements /\ e # Nil
      /\ l.next \in [Elements -> Elements \cup {Nil}]
      /\ l.prev \in [Elements -> Elements \cup {Nil}]
      /\ l.head \in Elements \cup {Nil} /\ l.tail \in Elements \cup {Nil}
  BY ConfType DEF IsParsed, ListType
<1>2. ~LL_InList(l, e)
  BY <1>1, ConfType DEF IsParsed
<1>3. /\ m.count = c + 1 /\ m.tail = e
      /\ m.head = IF l.head = Nil THEN e ELSE l.head
      /\ m.next = [x \in Elements |-> IF x = l.tail THEN e
                                      ELSE IF x = e THEN Nil ELSE l.next[x]]
      /\ m.prev = [l.prev EXCEPT ![e] = l.tail]
      /\ m \in ListType
  <2>1. m = [l EXCEPT !.next = [x \in Elements |-> IF x = l.tail THEN e
                                         ELSE IF x = e THEN Nil ELSE l.next[x]],
                      !.prev[e] = l.tail,
                      !.tail = e,
                      !.head = IF l.head = Nil THEN e ELSE l.head,
                      !.count = l.count + 1]
    BY <1>2 DEF LListAdd
  <2> HIDE DEF m, e
  <2>2. m = [head |-> IF l.head = Nil THEN e ELSE l.head, tail |-> e,
             count |-> c + 1,
             next |-> [x \in Elements |-> IF x = l.tail THEN e
                                         ELSE IF x = e THEN Nil ELSE l.next[x]],
             prev |-> [l.prev EXCEPT ![e] = l.tail]]
    BY <1>1, <2>1 DEF ListType
  <2> QED
    BY <1>1, <2>2, ConfType DEF ListType
<1>4. Linked(l)
  BY <1>1, ParsedIsLinked DEF IsParsed
<1>5. \A i \in 1..N : i # c + 1 => RingConf[i] # e
  BY <1>1, ConfType
<1> HIDE DEF m, e
<1>6. m.head = RingConf[1]
  BY <1>1, <1>3, <1>4, ConfType DEF Linked, e
<1>7. ASSUME NEW i \in 1..(c + 1)
      PROVE  /\ m.next[RingConf[i]] = IF i = c + 1 THEN Nil ELSE RingConf[i + 1]
             /\ m.prev[RingConf[i]] = IF i = 1 THEN Nil ELSE RingConf[i - 1]
  <2>0. i \in 1..N /\ RingConf[i] \in Elements /\ RingConf[i] # Nil
    BY <1>1, ConfType
  <2>1. CASE i = c + 1
    <3>1. RingConf[i] = e /\ RingConf[i] # l.tail
      BY <1>1, <1>4, <1>5, <2>1, ConfType DEF Linked, e
    <3> QED
      BY <1>1, <1>3, <1>4, <2>0, <2>1, <3>1 DEF Linked
  <2>2. CASE i = c
    <3>1. RingConf[i] = l.tail /\ RingConf[i] # e
      BY <1>1, <1>4, <1>5, <2>0, <2>2 DEF Linked
    <3> QED
      BY <1>1, <1>3, <1>4, <2>0, <2>2, <3>1 DEF Linked, e
  <2>3. CASE i < c
    <3>1. RingConf[i] # l.tail /\ RingConf[i] # e
      BY <1>1, <1>4, <1>5, <2>0, <2>3, ConfType DEF Linked
    <3> QED
      BY <1>1, <1>3, <1>4, <2>0, <2>3, <3>1 DEF Linked
  <2> QED
    BY <1>1, <2>1, <2>2, <2>3
<1>8. Linked(m)
  BY <1>1, <1>3, <1>6, <1>7 DEF Linked, e
<1>9. \A i \in (c + 2)..N : ~LL_InList(m, RingConf[i])
  <2> SUFFICES ASSUME NEW i \in (c + 2)..N PROVE ~LL_InList(m, RingConf[i])
    OBVIOUS
  <2>1. i \in (c + 1)..N /\ i \in 1..N /\ i # c + 1
    BY <1>1, ConfType
  <2> QED
    BY <1>1, <1>3, <1>5, <2>1, ConfType DEF IsParsed, LL_InList
<1> QED
  BY <1>1, <1>3, <1>8, <1>9, ParsedIsLinked DEF IsParsed, m, e

\* Every element of the list is in it for LL_ForEach.
LEMMA ParsedContinues ==
  ASSUME NEW l, IsParsed(l), NEW i \in 1..l.count
  PROVE  /\ LL_Continues(l, RingConf[i])
         /\ l.next[RingConf[i]] = IF i = l.count THEN Nil ELSE RingConf[i + 1]
<1>1. l \in ListType /\ l.count \in 0..N /\ i \in 1..N /\ Linked(l)
  BY ParsedIsLinked, ConfType DEF IsParsed, ListType
<1>2. RingConf[i] # Nil /\ (i # 1 => RingConf[i - 1] # RingConf[i])
  BY <1>1, ConfType
<1> QED
  BY <1>1, <1>2 DEF Linked, LL_Continues, LL_InList

-----------------------------------------------------------------------------
(***************************************************************************)
(* What the steps leave alone.                                             *)
(***************************************************************************)

\* The steps of the manager and of the supervisor's rule for it.
MgrMoves ==
  MgrStart \/ MgrParseRing \/ MgrEalInit \/ MgrEalDone \/ MgrPools \/ MgrRing
  \/ MgrPorts \/ MgrDies \/ RuleCompletes

\* Those that leave the memory, the ring and the pool alone.
MgrWalks ==
  MgrStart \/ MgrParseRing \/ MgrEalDone \/ MgrRing \/ MgrPorts \/ MgrDies
  \/ RuleCompletes

\* The steps of the dispatcher that are not steps in the ring.
DispQuiet == DispStart \/ DispAttach \/ DispContext \/ DispFlush \/ DispEmpty
             \/ DispLoop \/ DispReceive

LEMMA Steps ==
  ASSUME [Next]_vars
  PROVE  \/ MgrMoves
         \/ DispQuiet \/ DispDequeue \/ DispFree \/ DispDies
         \/ AppsAttach \/ (\E t \in Apps : AppStep(t))
         \/ UNCHANGED vars
BY DEF Next, MgrStep, DispStep, MgrMoves, DispQuiet

\* Only the manager's steps touch the manager's state.
LEMMA MgrKept ==
  ASSUME [Next]_vars, ~MgrMoves
  PROVE  UNCHANGED <<mgr, ringList, cursor, created, mem, mgrRule>>
BY Steps
   DEF DispQuiet, DispStart, DispAttach, DispContext, DispFlush, DispEmpty,
       DispLoop, DispReceive, DispDequeue, DispFree, DispDies, Gone, AppsAttach,
       AppStep, notDisp, mgrVars, vars

\* They touch nothing else but when the memory is made anew and the pool filled.
LEMMA WalkKeeps ==
  ASSUME MgrWalks
  PROVE  /\ UNCHANGED <<disp, ctx, flushAt, left, attached>>
         /\ UNCHANGED <<prodHead, prodTail, consHead, consTail, slots, op, pool>>
         /\ created \subseteq created'
         /\ deaths' = deaths \/ (deaths < MaxDeaths /\ deaths' = deaths + 1)
BY DEF MgrWalks, MgrStart, MgrParseRing, MgrEalDone, MgrRing, MgrPorts, MgrDies,
       RuleCompletes, dispVars, userVars, ringVars

-----------------------------------------------------------------------------
(***************************************************************************)
(* The list and the walk.                                                  *)
(***************************************************************************)
LEMMA ListStep ==
  ASSUME ListInv, [Next]_vars
  PROVE  ListInv'
<1>1. CASE MgrStart
  <2>1. ringList' = LL_Init /\ mgr' = "parse"
    BY <1>1 DEF MgrStart
  <2> QED
    BY <2>1, InitParsed DEF ListInv
<1>2. CASE MgrParseRing
  <2>1. /\ ringList' = LListAdd(ringList, RingConf[ringList.count + 1])
        /\ ringList.count < N /\ mgr' = "parse"
    BY <1>2 DEF MgrParseRing, N
  <2> QED
    BY <2>1, AddParsed DEF ListInv
<1>3. CASE MgrEalInit
  BY <1>3 DEF MgrEalInit, ListInv, N
<1>4. CASE MgrEalDone \/ MgrPools \/ MgrRing \/ MgrPorts \/ MgrDies \/ RuleCompletes
  BY <1>4 DEF MgrEalDone, MgrPools, MgrRing, MgrPorts, MgrDies, RuleCompletes, ListInv
<1>5. CASE ~MgrMoves
  BY <1>5, MgrKept DEF ListInv
<1> QED
  BY <1>1, <1>2, <1>3, <1>4, <1>5 DEF MgrMoves

LEMMA WalkStep ==
  ASSUME ListInv, WalkInv, NobodyIsEarly, [Next]_vars
  PROVE  WalkInv'
<1>0. /\ ringList \in ListType /\ Linked(ringList) /\ ringList.count \in 0..N
      /\ mgr \in {"pools", "rings"} => ringList.count = N
  BY ParsedIsLinked DEF ListInv, IsParsed, ListType
<1>1. CASE MgrPools
  <2>1. /\ created' = {} /\ mgr' = "rings"
        /\ cursor' = IF N = 0 THEN Nil ELSE RingConf[1]
    BY <1>0, <1>1 DEF MgrPools, NobodyIsEarly, Linked
  <2>2. created' = {RingConf[i] : i \in 1..0} /\ 0 \in 0..N
    BY <2>1, ConfType
  <2> QED
    BY <2>1, <2>2 DEF WalkInv
<1>2. CASE MgrRing
  <2>1. PICK k \in 0..N : /\ created = {RingConf[i] : i \in 1..k}
                          /\ cursor = IF k = N THEN Nil ELSE RingConf[k + 1]
    BY <1>2 DEF MgrRing, WalkInv
  <2>2. k # N /\ cursor = RingConf[k + 1] /\ k + 1 \in 1..N /\ k + 1 \in 0..N
    BY <1>2, <2>1, ConfType DEF MgrRing, LL_Continues
  <2>3. cursor' = IF k + 1 = N THEN Nil ELSE RingConf[k + 1 + 1]
    BY <1>0, <1>2, <2>2, ParsedContinues DEF MgrRing, ListInv
  <2>4. created' = {RingConf[i] : i \in 1..(k + 1)}
    <3>1. 1..(k + 1) = (1..k) \cup {k + 1}
      BY <2>1, ConfType
    <3> QED
      BY <1>2, <2>1, <2>2, <3>1 DEF MgrRing
  <2>5. mgr' = "rings"
    BY <1>2 DEF MgrRing
  <2> QED
    BY <2>2, <2>3, <2>4, <2>5 DEF WalkInv
<1>3. CASE MgrPorts
  <2>1. PICK k \in 0..N : /\ created = {RingConf[i] : i \in 1..k}
                          /\ cursor = IF k = N THEN Nil ELSE RingConf[k + 1]
    BY <1>3 DEF MgrPorts, WalkInv
  <2>2. k = N
    <3> SUFFICES ASSUME k # N PROVE FALSE
      OBVIOUS
    <3>1. k + 1 \in 1..ringList.count
      BY <1>0, <1>3, <2>1, ConfType DEF MgrPorts
    <3> QED
      BY <1>3, <2>1, <3>1, ParsedContinues DEF MgrPorts, ListInv
  <2> QED
    BY <1>3, <2>1, <2>2, ConfType DEF MgrPorts, WalkInv
<1>4. CASE MgrStart \/ MgrParseRing \/ MgrEalInit \/ MgrEalDone \/ MgrDies
           \/ RuleCompletes
  BY <1>4 DEF MgrStart, MgrParseRing, MgrEalInit, MgrEalDone, MgrDies,
              RuleCompletes, WalkInv
<1>5. CASE ~MgrMoves
  BY <1>5, MgrKept DEF WalkInv
<1> QED
  BY <1>1, <1>2, <1>3, <1>4, <1>5 DEF MgrMoves

-----------------------------------------------------------------------------
(***************************************************************************)
(* Who is in the ring.                                                     *)
(***************************************************************************)

\* The dispatcher's process ends in the middle of a flush only when it is killed.
LEMMA QuietLeaves ==
  ASSUME FlushInv, op \in [Threads -> OpType], left \in Nat, DispQuiet
  PROVE  UNCHANGED <<ringVars, pool, deaths>>
<1>0. Disp \in Threads
  BY DataplaneAssumption DEF Threads
<1>1. ASSUME Gone, disp # "flush"
      PROVE  UNCHANGED <<ringVars, pool>>
  <2>1. op[Disp] = Idle
    BY <1>1 DEF FlushInv
  <2>2. op' = op
    BY <1>0, <1>1, <2>1 DEF Gone, Leave
  <2> QED
    BY <1>1, <2>2 DEF Gone, Leave, ringVars, indices
<1>2. CASE DispStart \/ DispFlush \/ DispEmpty \/ DispLoop
  BY <1>2 DEF DispStart, DispFlush, DispEmpty, DispLoop, notDisp, ringVars, indices
<1>3. CASE DispAttach
  BY <1>1, <1>3 DEF DispAttach, notDisp, ringVars, indices
<1>4. CASE DispContext
  BY <1>1, <1>4 DEF DispContext, notDisp, ringVars, indices
<1>5. CASE DispReceive
  BY <1>1, <1>5 DEF DispReceive
<1> QED
  BY <1>2, <1>3, <1>4, <1>5 DEF DispQuiet

\* Who moves in the ring has found it.
LEMMA RingMoves ==
  ASSUME PlatformInv,
         DispDequeue \/ DispFree \/ (\E t \in Apps : AppStep(t))
  PROVE  \E t \in Threads : /\ UserStep(t) /\ Shared \in created
                            /\ t = Disp \/ (t \in Apps /\ AppStep(t))
<1>0. Disp \in Consumers /\ Disp \in Threads
  BY DataplaneAssumption DEF Threads
<1>1. CASE DispDequeue
  BY <1>0, <1>1 DEF DispDequeue, UserStep, PlatformInv, FlushInv
<1>2. CASE DispFree
  <2>1. op[Disp] # Idle
    BY <1>2 DEF DispFree, Drop, Idle
  <2> QED
    BY <1>0, <1>2, <2>1 DEF DispFree, UserStep, PlatformInv, FlushInv
<1>3. CASE \E t \in Apps : AppStep(t)
  BY <1>3 DEF AppStep, PlatformInv, NobodyIsEarly, Apps
<1> QED
  BY <1>1, <1>2, <1>3

\* A step in the ring changes the operation of its thread only.
LEMMA OthersStay ==
  ASSUME op \in [Threads -> OpType], NEW t \in Threads, UserStep(t),
         NEW u \in Threads, u # t
  PROVE  op'[u] = op[u]
BY DEF UserStep, Alloc, Drop, RingStep, EnqStep, EnqRead, EnqClaim, EnqCopy,
       EnqPublish, DeqStep, DeqRead, DeqClaim, DeqCopy, DeqPublish

\* What the invariant says of the types.
LEMMA PlatformTypes ==
  ASSUME PlatformInv
  PROVE  /\ op \in [Threads -> OpType] /\ left \in 0..(Size - 1) /\ left \in Nat
         /\ attached \in [Threads -> {"none", "current", "stale"}]
         /\ Disp \in Threads /\ Disp \in Consumers /\ Disp \notin Producers
         /\ deaths \in Nat /\ pool \in SUBSET Mbufs
         /\ Apps \subseteq Threads /\ Disp \notin Apps
<1>1. Disp \in Consumers /\ Disp \in Threads /\ Disp \notin Producers
  BY DataplaneAssumption, RingAssumption DEF Threads
<1>2. left \in 0..(Size - 1) /\ left \in Nat
  BY RingAssumption DEF PlatformInv, TypeOK
<1>3. deaths \in Nat
  BY DeathsAssumption DEF PlatformInv, BufferInv
<1> QED
  BY <1>1, <1>2, <1>3
     DEF PlatformInv, TypeOK, UsersTypeOK, RingTypeOK, Apps

LEMMA EarlyStep ==
  ASSUME PlatformInv, [Next]_vars
  PROVE  NobodyIsEarly'
<1>0. NobodyIsEarly /\ FlushInv /\ Apps' = Apps
  BY DEF PlatformInv, Apps, Threads
<1>1. CASE MgrWalks
  <2>1. UNCHANGED attached /\ created \subseteq created'
        /\ UNCHANGED <<prodHead, prodTail, consHead, consTail, slots, op>>
    BY <1>1, WalkKeeps
  <2>2. mgr' \in {"eal", "pools"} => mgr \in {"eal", "pools"} /\ created' = created
    BY <1>1 DEF MgrWalks, MgrStart, MgrParseRing, MgrEalDone, MgrRing, MgrPorts,
                MgrDies, RuleCompletes
  <2> QED
    BY <1>0, <2>1, <2>2 DEF NobodyIsEarly, RingInit
<1>2. CASE MgrEalInit
  <2>1. \A t \in Threads : attached'[t] # "current"
    BY <1>2 DEF MgrEalInit
  <2>2. RingInit' /\ created' = {}
    BY <1>2 DEF MgrEalInit, RingReset, RingInit
  <2> QED
    BY <2>1, <2>2 DEF NobodyIsEarly, Apps
<1>3. CASE MgrPools
  BY <1>0, <1>3 DEF MgrPools, NobodyIsEarly
<1>4. CASE DispQuiet
  <2>1. UNCHANGED <<prodHead, prodTail, consHead, consTail, slots, op>>
    BY <1>0, <1>4, PlatformTypes, QuietLeaves DEF ringVars
  <2>2. UNCHANGED <<mgr, created>>
    BY <1>4 DEF DispQuiet, DispStart, DispAttach, DispContext, DispFlush,
                DispEmpty, DispLoop, DispReceive, Gone, notDisp, mgrVars
  <2>3. \A t \in Apps : attached'[t] = attached[t]
    BY <1>4, PlatformTypes
       DEF DispQuiet, DispStart, DispAttach, DispContext, DispFlush, DispEmpty,
           DispLoop, DispReceive, Gone
  <2> QED
    BY <1>0, <2>1, <2>2, <2>3 DEF NobodyIsEarly, RingInit
<1>5. CASE DispDies
  <2>1. UNCHANGED <<mgr, created, prodHead, prodTail, consHead, consTail, slots>>
    BY <1>5 DEF DispDies, Gone, mgrVars, Leave, indices
  <2>2. \A t \in Apps : attached'[t] = attached[t]
    BY <1>5, PlatformTypes DEF DispDies, Gone
  <2>3. op = NoOps => op' = NoOps
    BY <1>5, PlatformTypes DEF DispDies, Gone, Leave, NoOps
  <2> QED
    BY <1>0, <2>1, <2>2, <2>3 DEF NobodyIsEarly, RingInit
<1>6. CASE DispDequeue \/ DispFree \/ (\E t \in Apps : AppStep(t))
  <2>1. Shared \in created
    BY <1>6, RingMoves
  <2>2. UNCHANGED <<mgr, created, attached>>
    BY <1>6 DEF DispDequeue, DispFree, AppStep, mgrVars
  <2> QED
    BY <1>0, <2>1, <2>2 DEF NobodyIsEarly
<1>7. CASE AppsAttach
  BY <1>0, <1>7 DEF AppsAttach, NobodyIsEarly, RingInit, mgrVars, userVars, ringVars
<1>8. CASE UNCHANGED vars
  BY <1>0, <1>8 DEF vars, NobodyIsEarly, RingInit
<1> QED
  BY <1>1, <1>2, <1>3, <1>4, <1>5, <1>6, <1>7, <1>8, Steps DEF MgrMoves, MgrWalks

LEMMA FlushStep ==
  ASSUME PlatformInv, [Next]_vars
  PROVE  FlushInv'
<1>0. FlushInv /\ RingsExist
  BY DEF PlatformInv
<1>1. CASE MgrWalks
  BY <1>0, <1>1, WalkKeeps DEF FlushInv
<1>2. CASE MgrEalInit
  <2>1. left' = 0 /\ op' = NoOps
    BY <1>2 DEF MgrEalInit, RingReset
  <2> QED
    BY <2>1, PlatformTypes DEF FlushInv, NoOps
<1>3. CASE MgrPools
  BY <1>0, <1>3 DEF MgrPools, FlushInv, dispVars, ringVars
<1>4. CASE DispQuiet
  <2>0. op' = op
    BY <1>0, <1>4, PlatformTypes, QuietLeaves DEF ringVars
  <2>1. CASE left' = 0
    <3>1. disp # "flush" \/ op[Disp] = Idle
      BY <1>4, <2>1, PlatformTypes
         DEF DispQuiet, DispStart, DispAttach, DispContext, DispFlush, DispEmpty,
             DispLoop, DispReceive
    <3> QED
      BY <1>0, <2>0, <2>1, <3>1 DEF FlushInv
  <2>2. CASE DispFlush
    <3>1. \E i \in DOMAIN ctx : ~ctx[i].eth
      BY <2>2 DEF DispFlush, ToFlush
    <3>2. Shared \in created
      BY <1>0, <2>2, <3>1 DEF DispFlush, RingsExist
    <3> QED
      BY <1>0, <2>0, <2>2, <3>2 DEF DispFlush, FlushInv, notDisp, mgrVars
  <2>3. CASE DispEmpty
    BY <1>0, <2>0, <2>3, PlatformTypes DEF DispEmpty, FlushInv, notDisp, mgrVars
  <2>4. CASE DispStart \/ DispAttach \/ DispContext \/ DispLoop \/ DispReceive
    <3>1. left' = left \/ left' = 0
      BY <2>4 DEF DispStart, DispAttach, DispContext, DispLoop, DispReceive, Gone
    <3>2. disp # "flush" \/ left = 0
      BY <2>4 DEF DispStart, DispAttach, DispContext, DispLoop, DispReceive
    <3> QED
      BY <1>0, <2>1, <3>1, <3>2, PlatformTypes DEF FlushInv
  <2> QED
    BY <1>4, <2>2, <2>3, <2>4 DEF DispQuiet
<1>5. CASE DispDies
  BY <1>5, PlatformTypes DEF DispDies, Gone, Leave, FlushInv
<1>6. CASE DispDequeue
  BY <1>0, <1>6 DEF DispDequeue, FlushInv, dispVars, mgrVars
<1>7. CASE DispFree
  <2>1. op[Disp] # Idle /\ op'[Disp] = Idle
    BY <1>7, PlatformTypes DEF DispFree, Drop, Idle
  <2> QED
    BY <1>0, <1>7, <2>1 DEF DispFree, FlushInv, mgrVars
<1>8. ASSUME NEW t \in Apps, AppStep(t)
      PROVE  FlushInv'
  <2>1. op'[Disp] = op[Disp]
    BY <1>8, PlatformTypes, OthersStay DEF AppStep
  <2> QED
    BY <1>0, <1>8, <2>1 DEF AppStep, FlushInv, dispVars, mgrVars
<1>9. CASE AppsAttach
  BY <1>0, <1>9, PlatformTypes
     DEF AppsAttach, FlushInv, dispVars, mgrVars, userVars, ringVars
<1>10. CASE UNCHANGED vars
  BY <1>0, <1>10 DEF vars, FlushInv
<1> QED
  BY <1>1, <1>2, <1>3, <1>4, <1>5, <1>6, <1>7, <1>8, <1>9, <1>10, Steps
     DEF MgrMoves, MgrWalks

LEMMA ExistStep ==
  ASSUME PlatformInv, [Next]_vars
  PROVE  RingsExist'
<1>0. RingsExist
  BY DEF PlatformInv
<1>1. CASE MgrWalks
  BY <1>0, <1>1, WalkKeeps DEF RingsExist
<1>2. CASE MgrEalInit
  BY <1>2, PlatformTypes DEF MgrEalInit, RingsExist
<1>3. CASE MgrPools
  BY <1>0, <1>3 DEF MgrPools, RingsExist, dispVars
<1>4. CASE DispContext
  <2>1. PICK found \in LookupResults :
          IF found /\ BypassFound(Context)
          THEN /\ disp' = "flush" /\ ctx' = Context /\ flushAt' = 1
               /\ UNCHANGED <<left, attached, op, notDisp>>
          ELSE Gone
    BY <1>4 DEF DispContext
  <2>2. CASE found /\ BypassFound(Context)
    <3>1. /\ ctx' = Context /\ attached' = attached /\ created' = created
      BY <2>1, <2>2 DEF notDisp, mgrVars
    <3>2. ASSUME attached[Disp] = "current", NEW i \in DOMAIN Context, ~Context[i].eth
          PROVE  Shared \in created
      BY <2>1, <2>2, <3>2 DEF LookupResults
    <3> QED
      BY <3>1, <3>2 DEF RingsExist
  <2> QED
    BY <2>1, <2>2 DEF Gone, RingsExist
<1>5. CASE DispStart \/ DispAttach \/ DispReceive \/ DispDies
  BY <1>5 DEF DispStart, DispAttach, DispReceive, DispDies, Gone, RingsExist
<1>6. CASE DispFlush \/ DispEmpty \/ DispLoop
  BY <1>0, <1>6 DEF DispFlush, DispEmpty, DispLoop, notDisp, mgrVars, RingsExist
<1>7. CASE DispDequeue \/ DispFree \/ \E t \in Apps : AppStep(t)
  BY <1>0, <1>7 DEF DispDequeue, DispFree, AppStep, dispVars, mgrVars, RingsExist
<1>8. CASE AppsAttach
  BY <1>0, <1>8, PlatformTypes DEF AppsAttach, dispVars, mgrVars, RingsExist
<1>9. CASE UNCHANGED vars
  BY <1>0, <1>9 DEF vars, RingsExist
<1> QED
  BY <1>1, <1>2, <1>3, <1>4, <1>5, <1>6, <1>7, <1>8, <1>9, Steps
     DEF MgrMoves, MgrWalks, DispQuiet

-----------------------------------------------------------------------------
(***************************************************************************)
(* The ring and its buffers.                                               *)
(***************************************************************************)

\* The ring of a new memory.
LEMMA NewRing == RingInit /\ pool \in SUBSET Mbufs => RingInv
BY InitBuffers

LEMMA NewRingNext == (RingInit /\ pool \in SUBSET Mbufs)' => RingInv'
BY NewRing, PTL

\* Whatever happens to the manager and to the dispatcher, the ring of the
\* current memory keeps its invariant, and loses buffers by deaths only.
LEMMA RingPart ==
  ASSUME PlatformInv, FlagsHold, [Next]_vars
  PROVE  BufferInv' /\ PoolInv'
<1>0. /\ BufferInv /\ RingInv /\ PoolInv /\ NobodyIsEarly /\ FlushInv /\ CopyInv
      /\ deaths \in 0..MaxDeaths /\ MaxDeaths \in Nat
  BY DeathsAssumption DEF PlatformInv, BufferInv, RingInv
<1> DEFINE Pooled == created # {} \/ mgr \in {"rings", "up"}
<1>1. ASSUME UNCHANGED <<ringVars, pool>>, Pooled' => Pooled,
             deaths' = deaths \/ (deaths < MaxDeaths /\ deaths' = deaths + 1)
      PROVE  BufferInv' /\ PoolInv'
  <2>1. RingInv' /\ Lost' = Lost
    BY <1>0, <1>1, RingStutter
  <2>2. deaths' \in 0..MaxDeaths /\ deaths' >= deaths /\ deaths \in Nat /\ deaths' \in Nat
    BY <1>0, <1>1
  <2>3. LostInv => LostInv'
    BY <2>1, <2>2, NothingLost
  <2> QED
    BY <1>0, <1>1, <2>1, <2>2, <2>3 DEF BufferInv, PoolInv
<1>2. CASE MgrWalks
  <2>1. Pooled' => Pooled
    BY <1>0, <1>2 DEF MgrWalks, MgrStart, MgrParseRing, MgrEalDone, MgrRing,
                MgrPorts, MgrDies, RuleCompletes
  <2>2. UNCHANGED <<ringVars, pool>>
    BY <1>2, WalkKeeps DEF ringVars
  <2> QED
    BY <1>1, <1>2, <2>1, <2>2, WalkKeeps
<1>3. CASE DispQuiet
  <2>1. UNCHANGED <<ringVars, pool, deaths>>
    BY <1>0, <1>3, PlatformTypes, QuietLeaves
  <2>2. UNCHANGED <<mgr, created>>
    BY <1>3 DEF DispQuiet, DispStart, DispAttach, DispContext, DispFlush,
                DispEmpty, DispLoop, DispReceive, Gone, notDisp, mgrVars
  <2> QED
    BY <1>1, <2>1, <2>2
<1>4. CASE AppsAttach
  BY <1>1, <1>4 DEF AppsAttach, mgrVars, userVars
<1>5. CASE UNCHANGED vars
  BY <1>1, <1>5 DEF vars, ringVars
<1>8. CASE MgrEalInit
  <2>1. RingInit' /\ pool' = {} /\ deaths' = deaths /\ created' = {} /\ mgr' = "eal"
    BY <1>8 DEF MgrEalInit, RingReset, RingInit
  <2> QED
    BY <1>0, <2>1, NewRingNext DEF BufferInv, PoolInv
<1>9. CASE MgrPools
  <2>1. RingInit' /\ pool' = Mbufs /\ deaths' = deaths
    BY <1>0, <1>9 DEF MgrPools, NobodyIsEarly, RingInit, ringVars
  <2>2. Lost' = {}
    BY <2>1 DEF Lost
  <2>3. LostInv'
    BY <1>0, <2>1, <2>2, FS_EmptySet DEF LostInv
  <2> QED
    BY <1>0, <2>1, <2>3, NewRingNext DEF BufferInv, PoolInv
<1>10. CASE DispDequeue \/ DispFree \/ (\E t \in Apps : AppStep(t))
  <2>1. PICK t \in Threads : UserStep(t) /\ Shared \in created
    BY <1>10, RingMoves
  <2>2. RingInv' /\ pool' \in SUBSET Mbufs /\ deaths' = deaths
    BY <1>0, <2>1, PlatformTypes, UserKeepsRing
  <2>3. Lost' \subseteq Lost
    BY <1>0, <2>1, PlatformTypes, UserLosesNothing
  <2>4. LostInv'
    BY <1>0, <2>1, <2>2, <2>3, PlatformTypes, NothingLost DEF PoolInv
  <2> QED
    BY <1>0, <2>2, <2>4 DEF BufferInv, PoolInv
<1>11. CASE DispDies
  <2>1. /\ Leave(Disp) /\ deaths < MaxDeaths /\ deaths' = deaths + 1
        /\ UNCHANGED <<mgr, created>>
    BY <1>11 DEF DispDies, Gone, mgrVars
  <2>2. RingInv' /\ pool' = pool
    BY <1>0, <2>1, PlatformTypes, LeavingKeepsRing
  <2>3. Lost' \subseteq Lost \cup {InHand(Disp)}
    BY <1>0, <2>1, PlatformTypes, LeavingBuffers, DeathLosesOne
  <2>4. LostInv => LostInv'
    BY <2>1, <2>3, PlatformTypes, OneLost
  <2>5. deaths' \in 0..MaxDeaths
    BY <1>0, <2>1
  <2> QED
    BY <1>0, <2>1, <2>2, <2>4, <2>5 DEF BufferInv, PoolInv
<1> QED
  BY <1>2, <1>3, <1>4, <1>5, <1>8, <1>9, <1>10, <1>11, Steps DEF MgrMoves, MgrWalks

-----------------------------------------------------------------------------
(***************************************************************************)
(* The types.                                                              *)
(***************************************************************************)
\* What rte_ring_count returns fits the flush's counter.
LEMMA CountType ==
  ASSUME RingTypeOK
  PROVE  RingCount \in 0..(Size - 1)
<1>1. Sub(prodTail, consTail) \in Nat
  BY IndexType DEF RingTypeOK
<1> QED
  BY <1>1, RingAssumption DEF RingCount

\* The types of the dispatcher's variables.
DispOK ==
  /\ disp \in {"dead", "eal", "ctx", "flush", "loop"}
  /\ flushAt \in 1..(Len(Ifs) + 1)
  /\ left \in 0..(Size - 1)
  /\ attached \in [Threads -> {"none", "current", "stale"}]
  /\ DOMAIN ctx \subseteq DOMAIN Ifs

LEMMA DispTypes ==
  ASSUME PlatformInv, [Next]_vars
  PROVE  DispOK'
<1>0. TypeOK /\ FlushInv
  BY DEF PlatformInv
<1>1. DispOK /\ 0 \in 0..(Size - 1) /\ 1 \in 1..(Len(Ifs) + 1)
      /\ DOMAIN <<>> \subseteq DOMAIN Ifs
  BY DataplaneAssumption, RingAssumption DEF PlatformInv, TypeOK, DispOK
<1>2. ASSUME Gone PROVE DispOK'
  BY <1>1, <1>2 DEF DispOK, Gone
<1>3. CASE MgrWalks
  BY <1>1, <1>3, WalkKeeps DEF DispOK
<1>4. CASE MgrEalInit
  BY <1>1, <1>4 DEF DispOK, MgrEalInit
<1>5. CASE MgrPools
  BY <1>1, <1>5 DEF DispOK, MgrPools, dispVars
<1>6. CASE DispStart \/ DispAttach
  BY <1>1, <1>2, <1>6 DEF DispOK, DispStart, DispAttach
<1>7. CASE DispContext
  <2>1. DOMAIN Context \subseteq DOMAIN Ifs
    BY DEF Context
  <2> QED
    BY <1>1, <1>2, <1>7, <2>1 DEF DispOK, DispContext
<1>8. CASE DispFlush
  <2>1. PICK i \in ToFlush : flushAt' = i + 1
    BY <1>8 DEF DispFlush
  <2>2. i \in 1..Len(Ifs) /\ Len(Ifs) \in Nat
    BY <1>1, DataplaneAssumption DEF DispOK, ToFlush
  <2>3. flushAt' \in 1..(Len(Ifs) + 1)
    BY <2>1, <2>2
  <2>4. left' \in 0..(Size - 1)
    BY <1>0, <1>8, CountType DEF DispFlush, TypeOK, UsersTypeOK
  <2> QED
    BY <1>1, <1>8, <2>3, <2>4 DEF DispOK, DispFlush
<1>9. CASE DispFree \/ DispEmpty
  <2>1. left > 0
    BY <1>0, <1>9 DEF DispFree, Drop, Idle, FlushInv, DispEmpty
  <2>2. left' \in 0..(Size - 1)
    BY <1>1, <1>9, <2>1, RingAssumption DEF DispOK, DispFree, DispEmpty
  <2> QED
    BY <1>1, <1>9, <2>2 DEF DispOK, DispFree, DispEmpty
<1>10. CASE DispLoop \/ DispDequeue
  BY <1>1, <1>10 DEF DispOK, DispLoop, DispDequeue, dispVars
<1>11. CASE DispReceive \/ DispDies
  BY <1>2, <1>11 DEF DispReceive, DispDies
<1>12. CASE AppsAttach
  BY <1>1, <1>12 DEF DispOK, AppsAttach, dispVars
<1>13. CASE \E t \in Apps : AppStep(t)
  BY <1>1, <1>13 DEF DispOK, AppStep, dispVars
<1>14. CASE UNCHANGED vars
  BY <1>1, <1>14 DEF DispOK, vars
<1> QED
  BY <1>3, <1>4, <1>5, <1>6, <1>7, <1>8, <1>9, <1>10, <1>11, <1>12, <1>13,
     <1>14, Steps DEF MgrMoves, MgrWalks, DispQuiet

LEMMA TypeStep ==
  ASSUME PlatformInv, BufferInv', [Next]_vars
  PROVE  TypeOK' /\ (DOMAIN ctx \subseteq DOMAIN Ifs)'
<1>0. TypeOK /\ FlushInv /\ ringList \in ListType
  BY DEF PlatformInv, ListInv, IsParsed
<1>1. UsersTypeOK'
  BY DEF BufferInv, RingInv, CopyInv, IndexInv, UsersTypeOK
<1>2. /\ mgr' \in {"dead", "parse", "eal", "pools", "rings", "up"}
      /\ cursor' \in Elements \cup {Nil} /\ created' \in SUBSET Elements
      /\ mem' \in {"none", "init", "ready"}
      /\ mgrRule' \in {"waiting", "completed"}
  <2>1. CASE MgrRing
    <3>1. cursor \in Elements /\ ringList.next \in [Elements -> Elements \cup {Nil}]
      BY <1>0, <2>1 DEF MgrRing, LL_Continues, TypeOK, ListType
    <3> QED
      BY <1>0, <2>1, <3>1 DEF MgrRing, TypeOK
  <2>2. CASE MgrPools
    BY <1>0, <2>2 DEF MgrPools, TypeOK, ListType
  <2>3. CASE MgrMoves /\ ~MgrRing /\ ~MgrPools
    BY <1>0, <2>3 DEF MgrMoves, MgrStart, MgrParseRing, MgrEalInit, MgrEalDone,
                MgrPorts, MgrDies, RuleCompletes, TypeOK
  <2>4. CASE ~MgrMoves
    BY <1>0, <2>4, MgrKept DEF TypeOK
  <2> QED
    BY <2>1, <2>2, <2>3, <2>4
<1>3. DispOK'
  BY DispTypes
<1> QED
  BY <1>1, <1>2, <1>3 DEF TypeOK, DispOK

-----------------------------------------------------------------------------
(***************************************************************************)
(* The theorems.                                                           *)
(***************************************************************************)
LEMMA InitPlatform == Init => PlatformInv
<1> SUFFICES ASSUME Init PROVE PlatformInv
  OBVIOUS
<1>1. BufferInv
  BY InitBuffers, DeathsAssumption DEF Init, BufferInv
<1>2. UsersTypeOK
  BY <1>1 DEF BufferInv, RingInv, CopyInv, IndexInv, UsersTypeOK
<1>3. TypeOK
  BY <1>2, DataplaneAssumption, RingAssumption DEF Init, TypeOK
<1>4. DOMAIN ctx \subseteq DOMAIN Ifs
  BY DEF Init
<1>5. ListInv
  BY InitParsed DEF Init, ListInv
<1>6. NobodyIsEarly
  BY DEF Init, NobodyIsEarly, Apps
<1>7. FlushInv
  BY DataplaneAssumption DEF Init, FlushInv, RingInit, NoOps, Threads
<1>8. WalkInv /\ RingsExist /\ PoolInv
  BY DEF Init, WalkInv, RingsExist, PoolInv
<1> QED
  BY <1>1, <1>3, <1>4, <1>5, <1>6, <1>7, <1>8 DEF PlatformInv

LEMMA NextPlatform ==
  ASSUME FlagsHold
  PROVE  PlatformInv /\ [Next]_vars => PlatformInv'
<1> SUFFICES ASSUME PlatformInv, [Next]_vars PROVE PlatformInv'
  OBVIOUS
<1>1. BufferInv' /\ PoolInv'
  BY RingPart
<1>2. ListInv' /\ WalkInv'
  BY ListStep, WalkStep DEF PlatformInv
<1> QED
  BY <1>1, <1>2, TypeStep, EarlyStep, FlushStep, ExistStep DEF PlatformInv

LEMMA PlatformCorrect ==
  ASSUME FlagsHold
  PROVE  Spec => []PlatformInv
BY InitPlatform, NextPlatform, PTL DEF Spec

\* Every variable keeps its type, for any configuration and any number of deaths;
\* in particular the dispatcher's count of dequeues left of a flush never goes
\* below zero, and the walk of _alloc_rings never follows a pointer out of the
\* list.
THEOREM PlatformTypeCorrect ==
  ASSUME FlagsHold
  PROVE  Spec => []TypeOK
<1>1. PlatformInv => TypeOK
  BY DEF PlatformInv
<1> QED
  BY <1>1, PlatformCorrect, PTL

\* The dispatcher never flushes a ring that its manager has not created,
\* whenever the supervisor starts it and whoever dies.
THEOREM RingsExistCorrect ==
  ASSUME FlagsHold
  PROVE  Spec => []RingsExist
<1>1. PlatformInv => RingsExist
  BY DEF PlatformInv
<1> QED
  BY <1>1, PlatformCorrect, PTL

\* The manager's list is its configuration at every moment, and a manager that
\* is up has created all of its rings, for any configuration.
THEOREM RingsAreConfCorrect ==
  ASSUME FlagsHold
  PROVE  Spec => []RingsAreConf
<1>1. PlatformInv => RingsAreConf
  BY DEF PlatformInv, ListInv, IsParsed, WalkInv, RingsAreConf
<1> QED
  BY <1>1, PlatformCorrect, PTL

\* The dispatcher's flush, its deaths and the restarts of the manager lose no
\* buffer of the current memory but those a killed process had in its hands.
THEOREM FlushCorrect ==
  ASSUME FlagsHold
  PROVE  Spec => []FlushLosesNothing
<1>1. PlatformInv => FlushLosesNothing
  BY DEF PlatformInv, PoolInv, LostInv, Lost, NoLeak, FlushLosesNothing
<1> QED
  BY <1>1, PlatformCorrect, PTL

\* In the platform too a buffer is in one place: the flush never frees a buffer
\* that a process on the ring may still get, though it runs beside them.
THEOREM PlatformOneOwner ==
  ASSUME FlagsHold
  PROVE  Spec => []BufferHasOneOwner
<1>1. PlatformInv => BufferHasOneOwner
  BY DEF PlatformInv, BufferInv, RingInv
<1> QED
  BY <1>1, PlatformCorrect, PTL
=============================================================================

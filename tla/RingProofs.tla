----------------------------- MODULE RingProofs -----------------------------
(***************************************************************************)
(* The ring, proved for any number of producers and consumers, any size,   *)
(* any width of the indices and any number of deaths.                      *)
(***************************************************************************)
EXTENDS RingUsers, FiniteSetTheorems, SequenceTheorems, TLAPS

-----------------------------------------------------------------------------
(***************************************************************************)
(* The inductive invariant.                                                *)
(***************************************************************************)

\* The flags of the ring are true of its users: RING_F_SP_ENQ and
\* RING_F_SC_DEQ are for a single thread on that side.
FlagsHold ==
  /\ SpEnq => \A t, u \in Producers : t = u
  /\ ScDeq => \A t, u \in Consumers : t = u

\* A claimed position lies between the tail and the head of its side.
ClaimsAreOpen ==
  /\ \A t \in Producers :
       Holds(t) => Sub(op[t].at, prodTail) < Sub(prodHead, prodTail)
  /\ \A t \in Consumers :
       Holds(t) => Sub(op[t].at, consTail) < Sub(consHead, consTail)

\* A position is claimed by one thread.
ClaimsAreUnique ==
  /\ \A t, u \in Producers :
       Holds(t) /\ Holds(u) /\ op[t].at = op[u].at => t = u
  /\ \A t, u \in Consumers :
       Holds(t) /\ Holds(u) /\ op[t].at = op[u].at => t = u

\* What a thread has read of the other side is still true if the head is.
ReadsAreGood ==
  /\ \A t \in Producers : op[t].pc = "read" =>
       /\ SpEnq => op[t].at = prodHead
       /\ op[t].at = prodHead => FreeEntries >= 1
  /\ \A t \in Consumers : op[t].pc = "read" =>
       /\ ScDeq => op[t].at = consHead
       /\ op[t].at = consHead => Entries >= 1

IndexInv ==
  /\ RingTypeOK
  /\ IndexOrder
  /\ ClaimsAreOpen
  /\ ClaimsAreUnique
  /\ ReadsAreGood

\* A producer carries a buffer through its operation, and has stored it when it
\* has copied it; a consumer has none until it has copied one.
BuffersAreCarried ==
  /\ \A t \in Producers :
       /\ op[t].pc # "idle" => op[t].obj # Null
       /\ op[t].pc = "copied" => slots[Slot(op[t].at)] = op[t].obj
  /\ \A t \in Consumers :
       op[t].pc \in {"read", "claimed"} => op[t].obj = Null

\* A single producer publishes in order although it does not wait.
SingleIsInOrder ==
  SpEnq => \A t \in Producers :
    IF Holds(t) THEN op[t].at = prodTail /\ prodHead = Succ(prodTail)
                ELSE prodHead = prodTail

CopyInv ==
  /\ IndexInv
  /\ BuffersAreCarried
  /\ SingleIsInOrder

RingInv == CopyInv /\ BufferHasOneOwner

-----------------------------------------------------------------------------
(***************************************************************************)
(* Arithmetic of the indices.                                              *)
(***************************************************************************)

\* Unsigned differences and successors are indices.
LEMMA IndexType ==
  ASSUME NEW a \in Index, NEW b \in Index
  PROVE  /\ Sub(a, b) \in Index /\ Sub(a, b) \in Nat
         /\ Succ(a) \in Index /\ Succ(a) # a
BY RingAssumption DEF Index, Sub, Succ

\* The slot of an index is one of the ring's.
LEMMA SlotType ==
  ASSUME NEW a \in Index
  PROVE  Slot(a) \in 0..(Size - 1)
BY RingAssumption DEF Index, Slot

\* Two positions within Size of a third have different slots.
LEMMA SlotsDiffer ==
  ASSUME NEW z \in Index, NEW a \in Index, NEW b \in Index,
         Sub(a, z) < Size, Sub(b, z) < Size, Slot(a) = Slot(b)
  PROVE  a = b
<1>1. Sub(a, b) < Size \/ Sub(b, a) < Size
  BY RingAssumption DEF Index, Sub
<1> QED
  BY <1>1, SlotAssumption

\* Distances from a common origin z: differences, positions between two
\* indices, and the next position.
LEMMA Distance ==
  ASSUME NEW z \in Index, NEW a \in Index, NEW b \in Index,
         Sub(b, z) <= Sub(a, z)
  PROVE  Sub(a, b) = Sub(a, z) - Sub(b, z)
BY RingAssumption DEF Index, Sub

LEMMA Between ==
  ASSUME NEW z \in Index, NEW a \in Index, NEW b \in Index, NEW c \in Index,
         Sub(b, z) <= Sub(c, z)
  PROVE  Sub(a, b) < Sub(c, b) <=> Sub(b, z) <= Sub(a, z) /\ Sub(a, z) < Sub(c, z)
BY RingAssumption DEF Index, Sub

LEMMA NextDistance ==
  ASSUME NEW z \in Index, NEW a \in Index, NEW c \in Index,
         Sub(a, z) < Sub(c, z)
  PROVE  Sub(Succ(a), z) = Sub(a, z) + 1
BY RingAssumption DEF Index, Sub, Succ

LEMMA SameDistance ==
  ASSUME NEW z \in Index, NEW a \in Index, NEW b \in Index,
         Sub(a, z) = Sub(b, z)
  PROVE  a = b
BY RingAssumption DEF Index, Sub

\* The positions up to the next one, and from the next one on.
LEMMA OneMore ==
  ASSUME NEW z \in Index, NEW a \in Index, NEW i \in Index, Sub(a, z) < Wrap - 1
  PROVE  Sub(i, z) < Sub(Succ(a), z) <=> Sub(i, z) < Sub(a, z) \/ i = a
BY RingAssumption DEF Index, Sub, Succ

LEMMA OneLess ==
  ASSUME NEW z \in Index, NEW a \in Index, NEW i \in Index, Sub(a, z) >= 1
  PROVE  Sub(i, Succ(z)) < Sub(a, Succ(z)) <=> Sub(i, z) < Sub(a, z) /\ i # z
BY RingAssumption DEF Index, Sub, Succ

\* A thread that saw an old head is not fooled by the head coming round.
LEMMA LagIsSeen ==
  ASSUME NEW head \in Index, NEW at \in Index, Sub(head, at) < MaxLag
  PROVE  Succ(head) # at
BY RingAssumption DEF Index, Sub, Succ

-----------------------------------------------------------------------------
(***************************************************************************)
(* The order of the indices.                                               *)
(***************************************************************************)

\* What the type invariant says of a thread.
LEMMA OpTyping ==
  ASSUME RingTypeOK, NEW t \in Threads
  PROVE  /\ op[t].at \in Index /\ op[t].obj \in Mbufs \cup {Null}
         /\ op[t].pc \in {"idle", "read", "claimed", "copied"}
         /\ 0 \in Index
BY RingAssumption DEF RingTypeOK, OpType, Index

\* A step that moves no index and claims nothing keeps the order, if what it
\* reads is good.
LEMMA IndexLocal ==
  ASSUME IndexInv, NEW t \in Threads, NEW o \in OpType,
         op' = [op EXCEPT ![t] = o],
         slots' \in [0..(Size - 1) -> Mbufs \cup {Null}],
         UNCHANGED indices,
         o.pc \in {"claimed", "copied"} => Holds(t) /\ o.at = op[t].at,
         o.pc = "read" =>
           /\ t \in Producers => o.at = prodHead /\ FreeEntries >= 1
           /\ t \in Consumers => o.at = consHead /\ Entries >= 1
  PROVE  IndexInv'
<1>0. UNCHANGED <<prodHead, prodTail, consHead, consTail>>
  BY DEF indices
<1>1. RingTypeOK'
  BY <1>0 DEF IndexInv, RingTypeOK
<1>2. IndexOrder'
  BY <1>0 DEF IndexInv, IndexOrder
<1>3. \A u \in Threads : u # t => op'[u] = op[u]
  BY DEF IndexInv, RingTypeOK
<1>4. op'[t] = o
  BY DEF IndexInv, RingTypeOK
<1>5. ASSUME NEW u \in Threads, Holds(u)'
      PROVE  Holds(u) /\ op'[u].at = op[u].at
  BY <1>3, <1>4, <1>5 DEF Holds
<1>6. ASSUME NEW u \in Threads, op'[u].pc = "read", u # t
      PROVE  op[u].pc = "read" /\ op'[u].at = op[u].at
  BY <1>3, <1>6
<1>7. ClaimsAreOpen'
  BY <1>0, <1>5 DEF IndexInv, ClaimsAreOpen, Threads
<1>8. ClaimsAreUnique'
  BY <1>5 DEF IndexInv, ClaimsAreUnique, Threads
<1>9. FreeEntries' = FreeEntries /\ Entries' = Entries
  BY <1>0 DEF FreeEntries, Entries
<1>10. ReadsAreGood'
  BY <1>0, <1>4, <1>6, <1>9 DEF IndexInv, ReadsAreGood, Threads
<1> QED
  BY <1>1, <1>2, <1>7, <1>8, <1>10 DEF IndexInv

\* rte_ring_enqueue keeps the order.
LEMMA EnqKeepsOrder ==
  ASSUME IndexInv, FlagsHold, NEW t \in Producers, EnqStep(t)
  PROVE  IndexInv'
<1>0. /\ t \in Threads
      /\ RingTypeOK
      /\ prodHead \in Index /\ prodTail \in Index
      /\ consHead \in Index /\ consTail \in Index
      /\ op[t].at \in Index
  BY OpTyping DEF Threads, IndexInv, RingTypeOK
<1>1. CASE EnqRead(t)
  <2> DEFINE o == [op[t] EXCEPT !.pc = "read", !.at = prodHead]
  <2>1. o \in OpType /\ o.pc = "read" /\ o.at = prodHead
    BY <1>0, OpTyping DEF RingTypeOK, OpType
  <2>2. /\ op' = [op EXCEPT ![t] = o] /\ UNCHANGED indices
        /\ UNCHANGED slots /\ FreeEntries >= 1
    BY <1>0, <1>1 DEF EnqRead, RingTypeOK
  <2>3. slots' \in [0..(Size - 1) -> Mbufs \cup {Null}]
    BY <1>0, <2>2 DEF RingTypeOK
  <2>4. t \notin Consumers
    BY RingAssumption
  <2> HIDE DEF o
  <2> QED
    BY <1>0, <2>1, <2>2, <2>3, <2>4, IndexLocal
<1>2. CASE EnqClaim(t) /\ Claims(SpEnq, prodHead, t)
  <2>1. /\ \A u \in Threads : u # t => op'[u] = op[u]
        /\ op'[t].pc = "claimed" /\ op'[t].at = op[t].at
    BY <1>0, <1>2 DEF EnqClaim, RingTypeOK, OpType
  <2>2. op[t].at = prodHead /\ FreeEntries >= 1
    BY <1>2 DEF EnqClaim, Claims, IndexInv, ReadsAreGood
  <2>3. /\ prodHead' = Succ(prodHead)
        /\ UNCHANGED <<prodTail, consHead, consTail, slots>>
    BY <1>2, <2>2 DEF EnqClaim
  <2>4. RingTypeOK'
    <3>1. prodHead' \in Index
      BY <1>0, <2>3, IndexType
    <3>2. op' \in [Threads -> OpType]
      BY <1>0, <1>2 DEF EnqClaim, RingTypeOK, OpType
    <3> QED
      BY <1>0, <2>3, <3>1, <3>2 DEF RingTypeOK
  <2>5. Sub(prodHead, consTail) < Size - 1
    BY <1>0, <2>2, RingAssumption
       DEF FreeEntries, IndexInv, IndexOrder, Sub, Index
  <2>6. IndexOrder'
    BY <1>0, <2>3, <2>5, RingAssumption
       DEF IndexInv, IndexOrder, Sub, Succ, Index
  <2>7. ASSUME NEW x \in Index
        PROVE  Sub(x, prodTail) < Sub(prodHead', prodTail) <=>
                 Sub(x, prodTail) < Sub(prodHead, prodTail) \/ x = prodHead
    BY <1>0, <2>3, <2>5, RingAssumption
       DEF IndexInv, IndexOrder, Sub, Succ, Index
  <2>8. ~(Sub(prodHead, prodTail) < Sub(prodHead, prodTail))
    <3>1. Sub(prodHead, prodTail) \in Nat
      BY <1>0, IndexType
    <3> QED
      BY <3>1
  <2>9. ASSUME NEW u \in Producers, Holds(u)
        PROVE  op[u].at \in Index /\ op[u].at # prodHead
    BY <1>0, <2>8, <2>9, OpTyping DEF IndexInv, ClaimsAreOpen, Threads
  <2>10. ASSUME NEW u \in Threads, Holds(u)'
         PROVE  op'[u].at = op[u].at /\ (u # t => Holds(u))
    BY <2>1, <2>10 DEF Holds
  <2>11. ClaimsAreOpen'
    <3>1. ASSUME NEW u \in Producers, Holds(u)'
          PROVE  Sub(op'[u].at, prodTail') < Sub(prodHead', prodTail')
      <4>1. op[u].at \in Index /\ op'[u].at = op[u].at
        BY <1>0, <2>10, <3>1, OpTyping DEF Threads
      <4>2. op[u].at = prodHead
             \/ Sub(op[u].at, prodTail) < Sub(prodHead, prodTail)
        BY <2>2, <2>10, <3>1 DEF Threads, IndexInv, ClaimsAreOpen
      <4> QED
        BY <2>3, <2>7, <4>1, <4>2
    <3>2. \A u \in Consumers : op'[u] = op[u]
      BY <2>1, RingAssumption DEF Threads
    <3> QED
      BY <2>3, <3>1, <3>2 DEF IndexInv, ClaimsAreOpen, Holds
  <2>14. ClaimsAreUnique'
    <3>1. ASSUME NEW u \in Producers, u # t, Holds(u)'
          PROVE  op'[u].at # op'[t].at
      BY <1>0, <2>1, <2>2, <2>9, <2>10, <3>1 DEF Threads
    <3>2. \A u \in Consumers : u # t
      BY RingAssumption
    <3> QED
      BY <2>1, <2>10, <3>1, <3>2 DEF IndexInv, ClaimsAreUnique, Threads
  <2>12. ASSUME NEW u \in Producers, u # t, op[u].pc = "read"
         PROVE  ~SpEnq /\ op[u].at # prodHead'
    <3>1. Sub(prodHead, op[u].at) < MaxLag
      BY <1>2, <2>12 DEF EnqClaim, LapsNobody
    <3>2. op[u].at \in Index
      BY <1>0, OpTyping DEF Threads
    <3> QED
      BY <1>0, <2>3, <2>12, <3>1, <3>2, LagIsSeen DEF FlagsHold
  <2>13. ReadsAreGood'
    BY <1>0, <2>1, <2>3, <2>12, RingAssumption
       DEF IndexInv, ReadsAreGood, Threads, Entries
  <2> QED
    BY <2>4, <2>6, <2>11, <2>13, <2>14 DEF IndexInv
<1>3. CASE EnqClaim(t) /\ ~Claims(SpEnq, prodHead, t)
  <2> DEFINE o == [op[t] EXCEPT !.pc = "idle", !.at = 0]
  <2>1. o \in OpType /\ o.pc = "idle"
    BY <1>0, OpTyping DEF RingTypeOK, OpType
  <2>2. op' = [op EXCEPT ![t] = o] /\ UNCHANGED indices /\ UNCHANGED slots
    BY <1>0, <1>3 DEF EnqClaim, indices, RingTypeOK
  <2>3. slots' \in [0..(Size - 1) -> Mbufs \cup {Null}]
    BY <1>0, <2>2 DEF RingTypeOK
  <2> HIDE DEF o
  <2> QED
    BY <1>0, <2>1, <2>2, <2>3, IndexLocal
<1>4. CASE EnqCopy(t)
  <2> DEFINE o == [op[t] EXCEPT !.pc = "copied"]
  <2>1. /\ o \in OpType /\ o.pc = "copied" /\ o.at = op[t].at
        /\ Holds(t)
    BY <1>0, <1>4 DEF RingTypeOK, OpType, EnqCopy, Holds
  <2>2. op' = [op EXCEPT ![t] = o] /\ UNCHANGED indices
    BY <1>0, <1>4 DEF EnqCopy, RingTypeOK
  <2>3. slots' \in [0..(Size - 1) -> Mbufs \cup {Null}]
    BY <1>0, <1>4, SlotType, OpTyping DEF RingTypeOK, EnqCopy
  <2> HIDE DEF o
  <2> QED
    BY <1>0, <2>1, <2>2, <2>3, IndexLocal
<1>5. CASE EnqPublish(t)
  <2>1. /\ \A u \in Threads : u # t => op'[u] = op[u]
        /\ op'[t].pc = "idle"
    BY <1>0, <1>5 DEF EnqPublish, RingTypeOK, OpType, Idle
  <2>2. /\ prodTail' = Succ(op[t].at)
        /\ UNCHANGED <<prodHead, consHead, consTail, slots>>
        /\ Holds(t)
    BY <1>5 DEF EnqPublish, Holds
  <2>3. RingTypeOK'
    BY <1>0, <1>5, <2>2, IndexType, OpTyping
       DEF EnqPublish, RingTypeOK, OpType, Idle
  <2>4. Sub(op[t].at, prodTail) < Sub(prodHead, prodTail)
    BY <2>2 DEF IndexInv, ClaimsAreOpen
  <2>5. IndexOrder'
    BY <1>0, <2>2, <2>4, RingAssumption
       DEF IndexInv, IndexOrder, Sub, Succ, Index
  <2>6. ASSUME NEW x \in Index, x # op[t].at, op[t].at = prodTail,
               Sub(x, prodTail) < Sub(prodHead, prodTail)
        PROVE  Sub(x, prodTail') < Sub(prodHead, prodTail')
    BY <1>0, <2>2, <2>4, <2>6, RingAssumption DEF Sub, Succ, Index
  <2>7. ASSUME NEW u \in Producers, Holds(u)'
        PROVE  /\ u # t /\ Holds(u) /\ op'[u] = op[u] /\ ~SpEnq
               /\ op[u].at \in Index /\ op[u].at # op[t].at
    BY <1>0, <2>1, <2>2, <2>7, OpTyping
       DEF Holds, Threads, IndexInv, ClaimsAreUnique, FlagsHold
  <2>8. ClaimsAreOpen'
    <3>1. ASSUME NEW u \in Producers, Holds(u)'
          PROVE  Sub(op'[u].at, prodTail') < Sub(prodHead', prodTail')
      BY <1>5, <2>2, <2>6, <2>7, <3>1
         DEF EnqPublish, Publishes, IndexInv, ClaimsAreOpen
    <3>2. \A u \in Consumers : op'[u] = op[u]
      BY <2>1, RingAssumption DEF Threads
    <3> QED
      BY <2>2, <3>1, <3>2 DEF IndexInv, ClaimsAreOpen, Holds
  <2>9. ClaimsAreUnique'
    BY <2>1, <2>7, RingAssumption
       DEF IndexInv, ClaimsAreUnique, Holds, Threads
  <2>10. Sub(prodTail', consHead) >= Sub(prodTail, consHead)
    <3>1. /\ Sub(prodTail, consTail) <= Sub(op[t].at, consTail)
          /\ Sub(op[t].at, consTail) < Sub(prodHead, consTail)
      BY <1>0, <2>4, Between DEF IndexInv, IndexOrder
    <3>2. Sub(prodTail', consTail) = Sub(op[t].at, consTail) + 1
      BY <1>0, <2>2, <3>1, NextDistance
    <3>3. /\ Sub(consHead, consTail) <= Sub(prodTail, consTail)
          /\ Sub(consHead, consTail) <= Sub(prodTail', consTail)
          /\ prodTail' \in Index
          /\ Sub(consHead, consTail) \in Nat /\ Sub(prodTail, consTail) \in Nat
          /\ Sub(op[t].at, consTail) \in Nat
      BY <1>0, <2>2, <2>5, IndexType DEF IndexInv, IndexOrder
    <3>4. /\ Sub(prodTail, consHead)
             = Sub(prodTail, consTail) - Sub(consHead, consTail)
          /\ Sub(prodTail', consHead)
             = Sub(prodTail', consTail) - Sub(consHead, consTail)
      BY <1>0, <3>3, Distance
    <3> QED
      BY <3>1, <3>2, <3>3, <3>4
  <2>11. ReadsAreGood'
    <3>1. Entries' >= Entries /\ FreeEntries' = FreeEntries
      BY <2>2, <2>10 DEF Entries, FreeEntries
    <3>2. Entries \in Nat /\ Entries' \in Nat
      BY <1>0, <2>2, IndexType, RingAssumption DEF Entries, Index
    <3> QED
      BY <2>1, <2>2, <3>1, <3>2 DEF IndexInv, ReadsAreGood, Threads
  <2> QED
    BY <2>3, <2>5, <2>8, <2>9, <2>11 DEF IndexInv
<1> QED
  BY <1>1, <1>2, <1>3, <1>4, <1>5 DEF EnqStep

\* rte_ring_dequeue keeps the order.
LEMMA DeqKeepsOrder ==
  ASSUME IndexInv, FlagsHold, NEW t \in Consumers, DeqStep(t)
  PROVE  IndexInv'
<1>0. /\ t \in Threads /\ t \notin Producers
      /\ RingTypeOK
      /\ prodHead \in Index /\ prodTail \in Index
      /\ consHead \in Index /\ consTail \in Index
      /\ op[t].at \in Index
  BY OpTyping, RingAssumption DEF Threads, IndexInv, RingTypeOK
<1>1. CASE DeqRead(t)
  <2> DEFINE o == [op[t] EXCEPT !.pc = "read", !.at = consHead]
  <2>1. o \in OpType /\ o.pc = "read" /\ o.at = consHead
    BY <1>0, OpTyping DEF RingTypeOK, OpType
  <2>2. /\ op' = [op EXCEPT ![t] = o] /\ UNCHANGED indices
        /\ UNCHANGED slots /\ Entries >= 1
    BY <1>0, <1>1 DEF DeqRead, RingTypeOK
  <2>3. slots' \in [0..(Size - 1) -> Mbufs \cup {Null}]
    BY <1>0, <2>2 DEF RingTypeOK
  <2> HIDE DEF o
  <2> QED
    BY <1>0, <2>1, <2>2, <2>3, IndexLocal
<1>2. CASE DeqClaim(t) /\ Claims(ScDeq, consHead, t)
  <2>1. /\ \A u \in Threads : u # t => op'[u] = op[u]
        /\ op'[t].pc = "claimed" /\ op'[t].at = op[t].at
    BY <1>0, <1>2 DEF DeqClaim, RingTypeOK, OpType
  <2>2. op[t].at = consHead /\ Entries >= 1
    BY <1>2 DEF DeqClaim, Claims, IndexInv, ReadsAreGood
  <2>3. /\ consHead' = Succ(consHead)
        /\ UNCHANGED <<prodHead, prodTail, consTail, slots>>
    BY <1>2, <2>2 DEF DeqClaim
  <2>4. RingTypeOK'
    <3>1. consHead' \in Index
      BY <1>0, <2>3, IndexType
    <3>2. op' \in [Threads -> OpType]
      BY <1>0, <1>2 DEF DeqClaim, RingTypeOK, OpType
    <3> QED
      BY <1>0, <2>3, <3>1, <3>2 DEF RingTypeOK
  <2>5. /\ Sub(consHead, consTail) < Sub(prodTail, consTail)
        /\ Sub(consHead, consTail) \in Nat /\ Sub(prodTail, consTail) \in Nat
    <3>1. Sub(consHead, consTail) <= Sub(prodTail, consTail)
      BY DEF IndexInv, IndexOrder
    <3>2. Sub(prodTail, consHead)
          = Sub(prodTail, consTail) - Sub(consHead, consTail)
      BY <1>0, <3>1, Distance
    <3>3. Sub(consHead, consTail) \in Nat /\ Sub(prodTail, consTail) \in Nat
      BY <1>0, IndexType
    <3> QED
      BY <2>2, <3>2, <3>3 DEF Entries
  <2>6. Sub(consHead', consTail) = Sub(consHead, consTail) + 1
    BY <1>0, <2>3, <2>5, NextDistance
  <2>7. IndexOrder'
    BY <2>3, <2>5, <2>6 DEF IndexInv, IndexOrder
  <2>8. ASSUME NEW u \in Threads, Holds(u)'
        PROVE  op'[u].at = op[u].at /\ (u # t => Holds(u))
    BY <2>1, <2>8 DEF Holds
  <2>9. ASSUME NEW u \in Consumers, Holds(u)
        PROVE  op[u].at # consHead
    BY <2>5, <2>9 DEF IndexInv, ClaimsAreOpen
  <2>10. ClaimsAreOpen'
    <3>1. ASSUME NEW u \in Consumers, Holds(u)'
          PROVE  Sub(op'[u].at, consTail') < Sub(consHead', consTail')
      <4>1. Sub(op[u].at, consTail) \in Nat /\ op'[u].at = op[u].at
        BY <1>0, <2>8, <3>1, OpTyping, IndexType DEF Threads
      <4>2. op[u].at = consHead
             \/ Sub(op[u].at, consTail) < Sub(consHead, consTail)
        BY <2>2, <2>8, <3>1 DEF Threads, IndexInv, ClaimsAreOpen
      <4> QED
        BY <2>3, <2>5, <2>6, <4>1, <4>2
    <3>2. \A u \in Producers : op'[u] = op[u]
      BY <1>0, <2>1 DEF Threads
    <3> QED
      BY <2>3, <3>1, <3>2 DEF IndexInv, ClaimsAreOpen, Holds
  <2>11. ClaimsAreUnique'
    <3>1. ASSUME NEW u \in Consumers, u # t, Holds(u)'
          PROVE  op'[u].at # op'[t].at
      BY <1>0, <2>1, <2>2, <2>8, <2>9, <3>1 DEF Threads
    <3>2. \A u \in Producers : u # t
      BY <1>0
    <3> QED
      BY <2>1, <2>8, <3>1, <3>2 DEF IndexInv, ClaimsAreUnique, Threads
  <2>12. ASSUME NEW u \in Consumers, u # t, op[u].pc = "read"
         PROVE  ~ScDeq /\ op[u].at # consHead'
    <3>1. Sub(consHead, op[u].at) < MaxLag
      BY <1>2, <2>12 DEF DeqClaim, LapsNobody
    <3>2. op[u].at \in Index
      BY <1>0, OpTyping DEF Threads
    <3> QED
      BY <1>0, <2>3, <2>12, <3>1, <3>2, LagIsSeen DEF FlagsHold
  <2>13. ReadsAreGood'
    BY <1>0, <2>1, <2>3, <2>12
       DEF IndexInv, ReadsAreGood, Threads, FreeEntries
  <2> QED
    BY <2>4, <2>7, <2>10, <2>11, <2>13 DEF IndexInv
<1>3. CASE DeqClaim(t) /\ ~Claims(ScDeq, consHead, t)
  <2> DEFINE o == [op[t] EXCEPT !.pc = "idle", !.at = 0]
  <2>1. o \in OpType /\ o.pc = "idle"
    BY <1>0, OpTyping DEF RingTypeOK, OpType
  <2>2. op' = [op EXCEPT ![t] = o] /\ UNCHANGED indices /\ UNCHANGED slots
    BY <1>0, <1>3 DEF DeqClaim, indices, RingTypeOK
  <2>3. slots' \in [0..(Size - 1) -> Mbufs \cup {Null}]
    BY <1>0, <2>2 DEF RingTypeOK
  <2> HIDE DEF o
  <2> QED
    BY <1>0, <2>1, <2>2, <2>3, IndexLocal
<1>4. CASE DeqCopy(t)
  <2> DEFINE o == [op[t] EXCEPT !.pc = "copied",
                                !.obj = slots[Slot(op[t].at)]]
  <2>0. slots[Slot(op[t].at)] \in Mbufs \cup {Null}
    BY <1>0, SlotType DEF RingTypeOK
  <2>1. /\ o \in OpType /\ o.pc = "copied" /\ o.at = op[t].at
        /\ Holds(t)
    BY <1>0, <1>4, <2>0 DEF RingTypeOK, OpType, DeqCopy, Holds
  <2>2. op' = [op EXCEPT ![t] = o] /\ UNCHANGED indices /\ UNCHANGED slots
    BY <1>0, <1>4 DEF DeqCopy, RingTypeOK
  <2>3. slots' \in [0..(Size - 1) -> Mbufs \cup {Null}]
    BY <1>0, <2>2 DEF RingTypeOK
  <2> HIDE DEF o
  <2> QED
    BY <1>0, <2>1, <2>2, <2>3, IndexLocal
<1>5. CASE DeqPublish(t)
  <2>1. /\ \A u \in Threads : u # t => op'[u] = op[u]
        /\ op'[t].pc = "idle"
    BY <1>0, <1>5 DEF DeqPublish, RingTypeOK, OpType
  <2>2. /\ consTail' = Succ(op[t].at)
        /\ UNCHANGED <<prodHead, prodTail, consHead, slots>>
        /\ Holds(t)
    BY <1>5 DEF DeqPublish, Holds
  <2>3. RingTypeOK'
    <3>1. consTail' \in Index
      BY <1>0, <2>2, IndexType
    <3>2. op' \in [Threads -> OpType]
      <4>1. 0 \in Index
        BY <1>0, OpTyping
      <4>2. op \in [Threads -> OpType] /\ op[t] \in OpType
        BY <1>0 DEF RingTypeOK
      <4> DEFINE o == [op[t] EXCEPT !.pc = "idle", !.at = 0]
      <4>3. o \in OpType
        BY <4>1, <4>2 DEF OpType
      <4>4. op' = [op EXCEPT ![t] = o]
        BY <1>5, <4>2 DEF DeqPublish
      <4> HIDE DEF o
      <4> QED
        BY <4>2, <4>3, <4>4
    <3> QED
      BY <1>0, <2>2, <3>1, <3>2 DEF RingTypeOK
  <2>4. Sub(op[t].at, consTail) < Sub(consHead, consTail)
    BY <2>2 DEF IndexInv, ClaimsAreOpen
  <2>5. Sub(consTail', consTail) = Sub(op[t].at, consTail) + 1
    BY <1>0, <2>2, <2>4, NextDistance
  <2>6. consTail' \in Index /\ Sub(consTail', consTail) \in Nat
    BY <1>0, <2>2, IndexType
  <2>7. ASSUME NEW x \in Index, Sub(consHead, consTail) <= Sub(x, consTail)
        PROVE  /\ Sub(x, consTail') = Sub(x, consTail) - Sub(consTail', consTail)
               /\ Sub(x, consTail) \in Nat
    <3>1. /\ Sub(consHead, consTail) \in Nat /\ Sub(x, consTail) \in Nat
          /\ Sub(op[t].at, consTail) \in Nat
      BY <1>0, IndexType
    <3>2. Sub(consTail', consTail) <= Sub(x, consTail)
      BY <2>4, <2>5, <2>6, <2>7, <3>1
    <3> QED
      BY <1>0, <2>6, <3>1, <3>2, Distance
  <2>8. IndexOrder'
    <3>1. /\ Sub(consHead, consTail) <= Sub(prodTail, consTail)
          /\ Sub(prodTail, consTail) <= Sub(prodHead, consTail)
          /\ Sub(prodHead, consTail) < Size
          /\ Sub(consHead, consTail) \in Nat
          /\ Sub(prodTail, consTail) \in Nat
          /\ Sub(prodHead, consTail) \in Nat
      BY <1>0, IndexType DEF IndexInv, IndexOrder
    <3>2. /\ Sub(consHead, consTail') = Sub(consHead, consTail) - Sub(consTail', consTail)
          /\ Sub(prodTail, consTail') = Sub(prodTail, consTail) - Sub(consTail', consTail)
          /\ Sub(prodHead, consTail') = Sub(prodHead, consTail) - Sub(consTail', consTail)
      BY <1>0, <2>7, <3>1, RingAssumption
    <3> QED
      BY <2>2, <2>6, <3>1, <3>2, RingAssumption DEF IndexOrder
  <2>9. ASSUME NEW x \in Index, x # op[t].at, op[t].at = consTail,
               Sub(x, consTail) < Sub(consHead, consTail)
        PROVE  Sub(x, consTail') < Sub(consHead, consTail')
    BY <1>0, <2>2, <2>4, <2>9, RingAssumption DEF Sub, Succ, Index
  <2>10. ASSUME NEW u \in Consumers, Holds(u)'
         PROVE  /\ u # t /\ Holds(u) /\ op'[u] = op[u] /\ ~ScDeq
                /\ op[u].at \in Index /\ op[u].at # op[t].at
    BY <1>0, <2>1, <2>2, <2>10, OpTyping
       DEF Holds, Threads, IndexInv, ClaimsAreUnique, FlagsHold
  <2>11. ClaimsAreOpen'
    <3>1. ASSUME NEW u \in Consumers, Holds(u)'
          PROVE  Sub(op'[u].at, consTail') < Sub(consHead', consTail')
      BY <1>5, <2>2, <2>9, <2>10, <3>1
         DEF DeqPublish, Publishes, IndexInv, ClaimsAreOpen
    <3>2. \A u \in Producers : op'[u] = op[u]
      BY <1>0, <2>1 DEF Threads
    <3> QED
      BY <2>2, <3>1, <3>2 DEF IndexInv, ClaimsAreOpen, Holds
  <2>12. ClaimsAreUnique'
    BY <1>0, <2>1, <2>10
       DEF IndexInv, ClaimsAreUnique, Holds, Threads
  <2>13. FreeEntries >= 1 => FreeEntries' >= 1
    <3>1. /\ Sub(prodHead, consTail) < Size
          /\ Sub(consHead, consTail) <= Sub(prodHead, consTail)
          /\ Sub(consHead, consTail) \in Nat /\ Sub(prodTail, consTail) \in Nat
          /\ Sub(prodHead, consTail) \in Nat
      BY <1>0, IndexType DEF IndexInv, IndexOrder
    <3>2. Sub(prodHead, consTail') = Sub(prodHead, consTail) - Sub(consTail', consTail)
      BY <1>0, <2>7, <3>1
    <3>3. /\ Sub(prodHead, consTail') \in Nat
          /\ Sub(prodHead, consTail') <= Sub(prodHead, consTail)
      BY <1>0, <2>6, <3>1, <3>2, IndexType
    <3>4. /\ FreeEntries = Size - 1 - Sub(prodHead, consTail)
          /\ FreeEntries' = Size - 1 - Sub(prodHead, consTail')
      <4> DEFINE d == Sub(prodHead, consTail)
                 e == Sub(prodHead, consTail')
      <4>1. d \in Nat /\ e \in Nat /\ d < Size /\ e <= d
        BY <3>1, <3>3
      <4>2. FreeEntries = Sub(Size - 1, d) /\ FreeEntries' = Sub(Size - 1, e)
        BY <2>2 DEF FreeEntries
      <4> HIDE DEF d, e
      <4>3. Sub(Size - 1, d) = Size - 1 - d /\ Sub(Size - 1, e) = Size - 1 - e
        BY <4>1, RingAssumption DEF Sub
      <4> QED
        BY <4>2, <4>3 DEF d, e
    <3> QED
      BY <3>1, <3>3, <3>4, RingAssumption
  <2>14. ReadsAreGood'
    <3>1. Entries' = Entries
      BY <2>2 DEF Entries
    <3> QED
      BY <2>1, <2>2, <2>13, <3>1 DEF IndexInv, ReadsAreGood, Threads
  <2> QED
    BY <2>3, <2>8, <2>11, <2>12, <2>14 DEF IndexInv
<1> QED
  BY <1>1, <1>2, <1>3, <1>4, <1>5 DEF DeqStep

\* A process that leaves, and one that gets or drops a buffer, keep the order.
LEMMA HoldingKeepsOrder ==
  ASSUME IndexInv, NEW t \in Threads, NEW m \in Mbufs \cup {Null},
         op' = [op EXCEPT ![t] = [Idle EXCEPT !.obj = m]],
         UNCHANGED <<indices, slots>>
  PROVE  IndexInv'
<1> DEFINE o == [Idle EXCEPT !.obj = m]
<1>1. RingTypeOK
  BY DEF IndexInv
<1>2. 0 \in Index
  BY <1>1, OpTyping
<1>3. o \in OpType /\ o.pc = "idle"
  BY <1>2 DEF Idle, OpType
<1>4. slots' \in [0..(Size - 1) -> Mbufs \cup {Null}]
  BY <1>1 DEF RingTypeOK
<1>5. op' = [op EXCEPT ![t] = o] /\ UNCHANGED indices
  OBVIOUS
<1> HIDE DEF o
<1> QED
  BY <1>3, <1>4, <1>5, IndexLocal

LEMMA LeavingKeepsOrder ==
  ASSUME IndexInv, NEW t \in Threads, Leave(t)
  PROVE  IndexInv'
<1>1. Idle = [Idle EXCEPT !.obj = Null]
  BY DEF Idle
<1> QED
  BY <1>1, HoldingKeepsOrder DEF Leave

\* A step of a user of the ring keeps the order.
LEMMA UserKeepsOrder ==
  ASSUME IndexInv, FlagsHold, NEW t \in Threads, UserStep(t),
         pool \in SUBSET Mbufs
  PROVE  IndexInv' /\ pool' \in SUBSET Mbufs /\ deaths' = deaths
<1>0. deaths' = deaths /\ RingTypeOK
  BY DEF UserStep, IndexInv
<1>1. CASE Alloc(t)
  <2>1. PICK m \in pool : /\ op' = [op EXCEPT ![t].obj = m]
                          /\ pool' = pool \ {m}
    BY <1>1 DEF Alloc
  <2>2. op' = [op EXCEPT ![t] = [Idle EXCEPT !.obj = m]]
    BY <1>0, <1>1, <2>1 DEF Alloc, RingTypeOK
  <2> QED
    BY <1>0, <1>1, <2>1, <2>2, HoldingKeepsOrder DEF Alloc
<1>2. CASE Drop(t)
  <2>1. Idle = [Idle EXCEPT !.obj = Null]
    BY DEF Idle
  <2>2. op[t].obj \in Mbufs
    BY <1>0, <1>2, OpTyping DEF Drop
  <2> QED
    BY <1>0, <1>2, <2>1, <2>2, HoldingKeepsOrder DEF Drop, Frees
<1>3. CASE RingStep(t) /\ UNCHANGED pool
  BY <1>0, <1>3, EnqKeepsOrder, DeqKeepsOrder DEF RingStep
<1> QED
  BY <1>1, <1>2, <1>3 DEF UserStep

\* A new ring is in order.
LEMMA InitIsInOrder ==
  ASSUME RingInit
  PROVE  IndexInv
<1>1. 0 \in Index /\ Sub(0, 0) = 0
  BY RingAssumption DEF Index, Sub
<1>2. RingTypeOK
  BY <1>1 DEF RingInit, RingTypeOK, NoSlots, NoOps, Idle, OpType
<1>3. \A t \in Threads : op[t].pc = "idle"
  BY DEF RingInit, NoOps, Idle
<1>4. IndexOrder
  BY <1>1, RingAssumption DEF RingInit, IndexOrder
<1> QED
  BY <1>2, <1>3, <1>4
     DEF IndexInv, ClaimsAreOpen, ClaimsAreUnique, ReadsAreGood, Holds, Threads

LEMMA OrderCorrect ==
  ASSUME FlagsHold
  PROVE  UsersSpec => []UsersTypeOK /\ []IndexOrder
<1> DEFINE Inv == IndexInv /\ pool \in SUBSET Mbufs /\ deaths \in 0..MaxDeaths
<1>1. UsersInit => Inv
  BY InitIsInOrder, DeathsAssumption DEF UsersInit
<1>2. Inv /\ [UsersNext]_userVars => Inv'
  <2> SUFFICES ASSUME Inv, [UsersNext]_userVars
               PROVE  Inv'
    OBVIOUS
  <2>1. ASSUME NEW t \in Threads, UserStep(t)
        PROVE  Inv'
    BY <2>1, UserKeepsOrder
  <2>2. ASSUME NEW t \in Threads, Killed(t)
        PROVE  Inv'
    <3>1. IndexInv'
      BY <2>2, LeavingKeepsOrder DEF Killed
    <3>2. pool' = pool /\ deaths' = deaths + 1 /\ deaths < MaxDeaths
      BY <2>2 DEF Killed, Leave
    <3> QED
      BY <3>1, <3>2, DeathsAssumption
  <2>3. CASE UNCHANGED userVars
    BY <2>3 DEF userVars, ringVars, IndexInv, RingTypeOK, IndexOrder,
                ClaimsAreOpen, ClaimsAreUnique, ReadsAreGood, Holds,
                FreeEntries, Entries
  <2> QED
    BY <2>1, <2>2, <2>3 DEF UsersNext
<1>3. Inv => UsersTypeOK /\ IndexOrder
  BY DEF IndexInv, UsersTypeOK
<1> QED
  BY <1>1, <1>2, <1>3, PTL DEF UsersSpec

\* The four indices stay within their word, and a thread is in an operation at a
\* position and with a buffer of the right kind, for any number of threads and
\* deaths.
THEOREM UsersTypeCorrect ==
  ASSUME FlagsHold
  PROVE  UsersSpec => []UsersTypeOK
BY OrderCorrect, PTL

\* Whatever the threads do, and wherever they are killed, the indices of the ring
\* keep their order: it never holds more than Size - 1 objects, and the unsigned
\* differences by which enqueue and dequeue tell full from empty never go below
\* zero.
THEOREM IndexOrderCorrect ==
  ASSUME FlagsHold
  PROVE  UsersSpec => []IndexOrder
BY OrderCorrect, PTL

-----------------------------------------------------------------------------
(***************************************************************************)
(* The buffers.                                                            *)
(***************************************************************************)

\* The slot of an open claim of a producer is neither the slot of a buffer that
\* waits, nor that of a claim of another thread.
LEMMA ClaimedSlotIsApart ==
  ASSUME IndexInv, NEW t \in Producers, Holds(t)
  PROVE  /\ \A i \in Waiting : Slot(i) # Slot(op[t].at) /\ i # op[t].at
         /\ \A u \in Threads : u # t /\ Holds(u) => Slot(op[u].at) # Slot(op[t].at)
<1>0. /\ prodHead \in Index /\ prodTail \in Index
      /\ consHead \in Index /\ consTail \in Index
      /\ t \in Threads /\ op[t].at \in Index
      /\ \A u \in Threads : op[u].at \in Index
  BY OpTyping DEF Threads, IndexInv, RingTypeOK
<1>1. /\ Sub(consHead, consTail) <= Sub(prodTail, consTail)
      /\ Sub(prodTail, consTail) <= Sub(prodHead, consTail)
      /\ Sub(prodHead, consTail) < Size
  BY DEF IndexInv, IndexOrder
<1>2. /\ Sub(consHead, consTail) \in Nat /\ Sub(prodTail, consTail) \in Nat
      /\ Sub(prodHead, consTail) \in Nat /\ Size \in Nat
      /\ \A x \in Index : Sub(x, consTail) \in Nat
  BY <1>0, IndexType, RingAssumption
<1>3. ASSUME NEW u \in Producers, Holds(u)
      PROVE  /\ Sub(prodTail, consTail) <= Sub(op[u].at, consTail)
             /\ Sub(op[u].at, consTail) < Sub(prodHead, consTail)
  BY <1>0, <1>1, <1>3, Between DEF IndexInv, ClaimsAreOpen, Threads
<1>4. ASSUME NEW u \in Consumers, Holds(u)
      PROVE  Sub(op[u].at, consTail) < Sub(consHead, consTail)
  BY <1>4 DEF IndexInv, ClaimsAreOpen
<1>5. ASSUME NEW i \in Waiting
      PROVE  i \in Index /\ Sub(i, consTail) < Sub(prodTail, consTail)
  BY <1>0, <1>1, Between DEF Waiting, Entries
<1>6. ASSUME NEW x \in Index, Slot(x) = Slot(op[t].at), Sub(x, consTail) < Size
      PROVE  x = op[t].at
  <2>1. Sub(op[t].at, consTail) < Size
    BY <1>0, <1>1, <1>2, <1>3
  <2> QED
    BY <1>0, <1>6, <2>1, SlotsDiffer
<1>7. ASSUME NEW i \in Waiting
      PROVE  Slot(i) # Slot(op[t].at) /\ i # op[t].at
  <2>1. i \in Index /\ Sub(i, consTail) < Sub(op[t].at, consTail)
    BY <1>0, <1>2, <1>3, <1>5
  <2>2. Sub(i, consTail) < Size
    BY <1>0, <1>1, <1>2, <1>3, <2>1
  <2> QED
    BY <1>0, <1>2, <1>6, <2>1, <2>2
<1>8. ASSUME NEW u \in Producers, u # t, Holds(u)
      PROVE  Slot(op[u].at) # Slot(op[t].at)
  <2>1. op[u].at \in Index /\ op[u].at # op[t].at
    BY <1>0, <1>8 DEF IndexInv, ClaimsAreUnique, Threads
  <2>2. Sub(op[u].at, consTail) < Size
    BY <1>1, <1>2, <1>3, <1>8, <2>1
  <2> QED
    BY <1>6, <2>1, <2>2
<1>9. ASSUME NEW u \in Consumers, Holds(u)
      PROVE  Slot(op[u].at) # Slot(op[t].at)
  <2>1. op[u].at \in Index
    BY <1>0 DEF Threads
  <2>2. Sub(op[u].at, consTail) < Sub(op[t].at, consTail)
    BY <1>0, <1>1, <1>2, <1>3, <1>4, <1>9, <2>1
  <2>3. Sub(op[u].at, consTail) < Size
    BY <1>0, <1>1, <1>2, <1>3, <2>1, <2>2
  <2> QED
    BY <1>0, <1>2, <1>6, <2>1, <2>2, <2>3
<1> QED
  BY <1>7, <1>8, <1>9 DEF Threads

\* What may happen to the buffers.  Nothing; the buffer of thread t comes to
\* the end of those that wait; t takes the first of those that wait.
HandsKept(t) == \A u \in Threads : u # t => InHand(u)' = InHand(u)

NothingMoves ==
  /\ UNCHANGED <<prodTail, consHead>>
  /\ \A i \in Waiting : slots'[Slot(i)] = slots[Slot(i)]
  /\ \A u \in Threads : InHand(u)' = InHand(u)

Puts(t) ==
  /\ InHand(t) \in Mbufs /\ InHand(t)' = Null
  /\ HandsKept(t)
  /\ slots[Slot(prodTail)] = InHand(t)
  /\ Entries < Size - 1
  /\ prodTail' = Succ(prodTail) /\ UNCHANGED <<consHead, slots>>

Takes(t) ==
  /\ InHand(t) = Null /\ InHand(t)' = slots[Slot(consHead)]
  /\ HandsKept(t)
  /\ Entries >= 1
  /\ consHead' = Succ(consHead) /\ UNCHANGED <<prodTail, slots>>

\* rte_ring_enqueue moves its buffer when it publishes, and nothing before.
LEMMA EnqBuffers ==
  ASSUME CopyInv, FlagsHold, NEW t \in Producers, EnqStep(t)
  PROVE  /\ BuffersAreCarried' /\ SingleIsInOrder'
         /\ NothingMoves \/ Puts(t)
<1>0. /\ t \in Threads /\ IndexInv /\ RingTypeOK
      /\ prodHead \in Index /\ prodTail \in Index
      /\ consHead \in Index /\ consTail \in Index
      /\ op[t].at \in Index
  BY OpTyping DEF Threads, CopyInv, IndexInv, RingTypeOK
<1>1. CASE EnqRead(t) \/ EnqClaim(t)
  <2>1. /\ \A u \in Threads : u # t => op'[u] = op[u]
        /\ op[t].obj # Null /\ op'[t].obj = op[t].obj
        /\ op'[t].pc # "copied"
        /\ UNCHANGED <<prodTail, consHead, slots>>
    BY <1>0, <1>1 DEF EnqRead, EnqClaim, RingTypeOK, OpType, indices, CopyInv,
                      BuffersAreCarried
  <2>2. BuffersAreCarried'
    BY <2>1, RingAssumption DEF CopyInv, BuffersAreCarried, Threads
  <2>3. SingleIsInOrder'
    <3>1. CASE EnqRead(t)
      BY <1>0, <3>1, <2>1
         DEF EnqRead, indices, RingTypeOK, OpType, CopyInv, SingleIsInOrder,
             Holds, FlagsHold
    <3>2. CASE EnqClaim(t)
      BY <1>0, <3>2, <2>1
         DEF EnqClaim, Claims, RingTypeOK, OpType, CopyInv, IndexInv,
             ReadsAreGood, SingleIsInOrder, Holds, FlagsHold
    <3> QED
      BY <1>1, <3>1, <3>2
  <2>4. \A u \in Threads : InHand(u)' = InHand(u)
    BY <2>1 DEF InHand, TakenBy
  <2> QED
    BY <2>1, <2>2, <2>3, <2>4 DEF NothingMoves
<1>2. CASE EnqCopy(t)
  <2>1. /\ \A u \in Threads : u # t => op'[u] = op[u]
        /\ op'[t].obj = op[t].obj /\ op'[t].at = op[t].at
        /\ op'[t].pc = "copied" /\ Holds(t)
        /\ UNCHANGED <<prodHead, prodTail, consHead>>
    BY <1>0, <1>2 DEF EnqCopy, RingTypeOK, OpType, indices, Holds
  <2>2. /\ slots'[Slot(op[t].at)] = op[t].obj
        /\ \A x \in 0..(Size - 1) : x # Slot(op[t].at) => slots'[x] = slots[x]
    BY <1>0, <1>2, SlotType DEF EnqCopy, RingTypeOK
  <2>3. /\ \A i \in Waiting : slots'[Slot(i)] = slots[Slot(i)]
        /\ \A u \in Threads : u # t /\ Holds(u) =>
             slots'[Slot(op[u].at)] = slots[Slot(op[u].at)]
    <3>1. \A i \in Waiting : Slot(i) \in 0..(Size - 1)
      BY SlotType DEF Waiting
    <3>2. \A u \in Threads : Slot(op[u].at) \in 0..(Size - 1)
      BY <1>0, OpTyping, SlotType
    <3> QED
      BY <1>0, <2>1, <2>2, <3>1, <3>2, ClaimedSlotIsApart
  <2>4. BuffersAreCarried'
    BY <1>2, <2>1, <2>2, <2>3
       DEF EnqCopy, CopyInv, BuffersAreCarried, Threads, Holds
  <2>5. SingleIsInOrder'
    BY <2>1 DEF CopyInv, SingleIsInOrder, Holds, Threads
  <2>6. \A u \in Threads : InHand(u)' = InHand(u)
    BY <2>1, <2>3 DEF InHand, TakenBy, Holds
  <2> QED
    BY <2>1, <2>3, <2>4, <2>5, <2>6 DEF NothingMoves
<1>3. CASE EnqPublish(t)
  <2>1. /\ \A u \in Threads : u # t => op'[u] = op[u]
        /\ op'[t].obj = Null /\ op'[t].pc = "idle"
        /\ Holds(t) /\ op[t].pc = "copied"
        /\ UNCHANGED <<prodHead, consHead, slots>>
        /\ prodTail' = Succ(op[t].at)
    BY <1>0, <1>3 DEF EnqPublish, RingTypeOK, OpType, Holds, Idle
  <2>2. op[t].at = prodTail
    BY <1>3, <2>1
       DEF EnqPublish, Publishes, CopyInv, SingleIsInOrder
  <2>3. BuffersAreCarried'
    BY <2>1 DEF CopyInv, BuffersAreCarried, Threads
  <2>4. SingleIsInOrder'
    BY <2>1, <2>2 DEF CopyInv, SingleIsInOrder, Holds, FlagsHold
  <2>5. /\ InHand(t) \in Mbufs /\ InHand(t)' = Null
        /\ slots[Slot(prodTail)] = InHand(t)
    BY <1>0, <2>1, <2>2, OpTyping
       DEF InHand, CopyInv, BuffersAreCarried
  <2>6. HandsKept(t)
    BY <2>1 DEF HandsKept, InHand, TakenBy
  <2>7. Entries < Size - 1
    <3>1. Sub(prodTail, prodTail) < Sub(prodHead, prodTail)
      BY <1>0, <2>1, <2>2 DEF IndexInv, ClaimsAreOpen
    <3>2. /\ Sub(prodTail, consTail) < Sub(prodHead, consTail)
          /\ Sub(prodHead, consTail) < Size
          /\ Sub(consHead, consTail) <= Sub(prodTail, consTail)
      BY <1>0, <3>1, Between DEF IndexInv, IndexOrder
    <3>3. Entries = Sub(prodTail, consTail) - Sub(consHead, consTail)
      BY <1>0, <3>2, Distance DEF Entries
    <3>4. /\ Sub(prodTail, consTail) \in Nat /\ Sub(prodHead, consTail) \in Nat
          /\ Sub(consHead, consTail) \in Nat /\ Size \in Nat
      BY <1>0, IndexType, RingAssumption
    <3> QED
      BY <3>2, <3>3, <3>4
  <2> QED
    BY <2>1, <2>2, <2>3, <2>4, <2>5, <2>6, <2>7 DEF Puts
<1> QED
  BY <1>1, <1>2, <1>3 DEF EnqStep

\* rte_ring_dequeue takes its buffer when it claims the position.
LEMMA DeqBuffers ==
  ASSUME CopyInv, FlagsHold, NEW t \in Consumers, DeqStep(t)
  PROVE  /\ BuffersAreCarried' /\ SingleIsInOrder'
         /\ NothingMoves \/ Takes(t)
<1>0. /\ t \in Threads /\ t \notin Producers /\ IndexInv /\ RingTypeOK
      /\ op[t].at \in Index
  BY OpTyping, RingAssumption DEF Threads, CopyInv, IndexInv
<1>1. /\ \A u \in Threads : u # t => op'[u] = op[u]
      /\ UNCHANGED <<prodHead, prodTail, slots>>
  BY <1>0 DEF DeqStep, DeqRead, DeqClaim, DeqCopy, DeqPublish, indices, RingTypeOK
<1>2. SingleIsInOrder'
  BY <1>0, <1>1 DEF CopyInv, SingleIsInOrder, Holds, Threads
<1>3. \A u \in Threads : u # t => InHand(u)' = InHand(u)
  BY <1>1 DEF InHand, TakenBy
<1>4. CASE DeqRead(t)
  <2>1. /\ op[t].pc = "idle" /\ op[t].obj = Null
        /\ op'[t].pc = "read" /\ op'[t].obj = Null /\ consHead' = consHead
    BY <1>0, <1>4 DEF DeqRead, indices, RingTypeOK, OpType
  <2>2. BuffersAreCarried'
    BY <1>0, <1>1, <2>1 DEF CopyInv, BuffersAreCarried, Threads
  <2>3. InHand(t)' = InHand(t)
    BY <1>0, <2>1 DEF InHand, TakenBy
  <2> QED
    BY <1>1, <1>2, <1>3, <2>1, <2>2, <2>3 DEF NothingMoves
<1>5. CASE DeqClaim(t) /\ Claims(ScDeq, consHead, t)
  <2>1. /\ op[t].pc = "read" /\ op[t].obj = Null
        /\ op'[t].pc = "claimed" /\ op'[t].obj = Null
        /\ op'[t].at = op[t].at /\ consHead' = Succ(op[t].at)
    BY <1>0, <1>5
       DEF DeqClaim, RingTypeOK, OpType, CopyInv, BuffersAreCarried
  <2>2. op[t].at = consHead /\ Entries >= 1
    BY <1>0, <1>5, <2>1 DEF Claims, IndexInv, ReadsAreGood
  <2>3. BuffersAreCarried'
    BY <1>0, <1>1, <2>1 DEF CopyInv, BuffersAreCarried, Threads
  <2>4. InHand(t) = Null /\ InHand(t)' = slots[Slot(consHead)]
    BY <1>0, <1>1, <2>1, <2>2 DEF InHand, TakenBy
  <2> QED
    BY <1>1, <1>2, <1>3, <2>1, <2>2, <2>3, <2>4 DEF Takes, HandsKept
<1>6. CASE DeqClaim(t) /\ ~Claims(ScDeq, consHead, t)
  <2>1. /\ op[t].pc = "read" /\ op[t].obj = Null
        /\ op'[t].pc = "idle" /\ op'[t].obj = Null /\ consHead' = consHead
    BY <1>0, <1>6
       DEF DeqClaim, RingTypeOK, OpType, CopyInv, BuffersAreCarried
  <2>2. BuffersAreCarried'
    BY <1>0, <1>1, <2>1 DEF CopyInv, BuffersAreCarried, Threads
  <2>3. InHand(t)' = InHand(t)
    BY <1>0, <2>1 DEF InHand, TakenBy
  <2> QED
    BY <1>1, <1>2, <1>3, <2>1, <2>2, <2>3 DEF NothingMoves
<1>7. CASE DeqCopy(t) \/ DeqPublish(t)
  <2>1. /\ op'[t].pc \in {"idle", "copied"} /\ consHead' = consHead
        /\ \/ op[t].pc = "claimed" /\ op'[t].obj = slots[Slot(op[t].at)]
           \/ op[t].pc = "copied" /\ op'[t].obj = op[t].obj
    BY <1>0, <1>7 DEF DeqCopy, DeqPublish, RingTypeOK, OpType, indices
  <2>2. BuffersAreCarried'
    BY <1>0, <1>1, <2>1 DEF CopyInv, BuffersAreCarried, Threads
  <2>3. InHand(t)' = InHand(t)
    BY <1>0, <2>1 DEF InHand, TakenBy
  <2> QED
    BY <1>1, <1>2, <1>3, <2>1, <2>2, <2>3 DEF NothingMoves
<1> QED
  BY <1>4, <1>5, <1>6, <1>7 DEF DeqStep

\* The waiting positions after a put and after a take.
LEMMA WaitingPut ==
  ASSUME RingTypeOK, NEW t \in Threads, Puts(t)
  PROVE  /\ Waiting' = Waiting \cup {prodTail} /\ prodTail \notin Waiting
         /\ Entries' = Entries + 1 /\ Entries \in Nat
<1>0. prodTail \in Index /\ consHead \in Index /\ prodTail' = Succ(prodTail)
  BY DEF RingTypeOK, Puts
<1>1. Sub(prodTail, consHead) \in Nat /\ Sub(prodTail, consHead) < Wrap - 1
  BY <1>0, IndexType, RingAssumption DEF Puts, Entries
<1>2. \A i \in Index : Sub(i, consHead) < Sub(prodTail', consHead)
                        <=> Sub(i, consHead) < Sub(prodTail, consHead) \/ i = prodTail
  BY <1>0, <1>1, OneMore
<1>3. Waiting' = Waiting \cup {prodTail}
  BY <1>0, <1>2 DEF Waiting, Entries, Puts
<1>4. prodTail \notin Waiting
  BY <1>1 DEF Waiting, Entries
<1>5. Sub(Succ(prodTail), consHead) = Sub(prodTail, consHead) + 1
  BY <1>0, <1>1, RingAssumption DEF Sub, Succ, Index
<1> QED
  BY <1>0, <1>1, <1>3, <1>4, <1>5 DEF Entries, Puts

LEMMA WaitingTake ==
  ASSUME RingTypeOK, NEW t \in Threads, Takes(t)
  PROVE  /\ Waiting' = Waiting \ {consHead} /\ consHead \in Waiting
         /\ Entries' = Entries - 1 /\ Entries \in Nat
<1>0. prodTail \in Index /\ consHead \in Index /\ consHead' = Succ(consHead)
  BY DEF RingTypeOK, Takes
<1>1. Sub(prodTail, consHead) \in Nat /\ Sub(prodTail, consHead) >= 1
  BY <1>0, IndexType DEF Takes, Entries
<1>2. \A i \in Index : Sub(i, consHead') < Sub(prodTail, consHead')
                        <=> Sub(i, consHead) < Sub(prodTail, consHead) /\ i # consHead
  BY <1>0, <1>1, OneLess
<1>3. Waiting' = Waiting \ {consHead}
  BY <1>0, <1>2 DEF Waiting, Entries, Takes
<1>4. Sub(consHead, consHead) = 0
  BY <1>0 DEF Sub, Index
<1>5. consHead \in Waiting
  BY <1>0, <1>1, <1>4 DEF Waiting, Entries
<1>6. Sub(prodTail, Succ(consHead)) = Sub(prodTail, consHead) - 1
  BY <1>0, <1>1, RingAssumption DEF Sub, Succ, Index
<1> QED
  BY <1>0, <1>1, <1>3, <1>5, <1>6 DEF Entries, Takes

\* A buffer keeps its one owner when it moves.
LEMMA OwnerWhenNothingMoves ==
  ASSUME BufferHasOneOwner, NothingMoves, pool' = pool
  PROVE  BufferHasOneOwner'
<1>1. Waiting' = Waiting
  BY DEF NothingMoves, Waiting, Entries
<1> QED
  BY <1>1 DEF BufferHasOneOwner, NothingMoves

LEMMA OwnerWhenPut ==
  ASSUME RingTypeOK, BufferHasOneOwner, NEW t \in Threads, Puts(t), pool' = pool
  PROVE  BufferHasOneOwner'
<1>1. Waiting' = Waiting \cup {prodTail}
  BY WaitingPut
<1>2. slots' = slots /\ slots[Slot(prodTail)] = InHand(t) /\ InHand(t) \in Mbufs
  BY DEF Puts
<1>3. /\ InHand(t)' = Null /\ Null \notin Mbufs
      /\ \A u \in Threads : u # t => InHand(u)' = InHand(u)
  BY RingAssumption DEF Puts, HandsKept
<1> QED
  BY <1>1, <1>2, <1>3 DEF BufferHasOneOwner

LEMMA OwnerWhenTaken ==
  ASSUME RingTypeOK, BufferHasOneOwner, NEW t \in Threads, Takes(t), pool' = pool
  PROVE  BufferHasOneOwner'
<1>1. Waiting' = Waiting \ {consHead} /\ consHead \in Waiting
  BY WaitingTake
<1>2. slots' = slots /\ InHand(t)' = slots[Slot(consHead)]
  BY DEF Takes
<1>3. \A u \in Threads : u # t => InHand(u)' = InHand(u)
  BY DEF Takes, HandsKept
<1> QED
  BY <1>1, <1>2, <1>3 DEF BufferHasOneOwner

\* A thread gets a buffer from the pool, gives it back, or dies with it.
Holding(t) ==
  /\ HandsKept(t)
  /\ UNCHANGED <<prodHead, prodTail, consHead, slots>>
  /\ \/ /\ t \in Producers
        /\ \E m \in pool : InHand(t)' = m /\ InHand(t) = Null /\ pool' = pool \ {m}
     \/ InHand(t)' = Null /\ pool' = pool \cup {InHand(t)}
     \/ InHand(t)' = Null /\ pool' = pool

LEMMA OwnerWhenHeld ==
  ASSUME BufferHasOneOwner, NEW t \in Threads, Holding(t), pool \in SUBSET Mbufs
  PROVE  BufferHasOneOwner'
<1>1. Waiting' = Waiting /\ slots' = slots
  BY DEF Holding, Waiting, Entries
<1>2. \A u \in Threads : u # t => InHand(u)' = InHand(u)
  BY DEF Holding, HandsKept
<1>3. Null \notin Mbufs
  BY RingAssumption
<1>4. CASE \E m \in pool : InHand(t)' = m /\ InHand(t) = Null /\ pool' = pool \ {m}
  BY <1>1, <1>2, <1>3, <1>4 DEF BufferHasOneOwner
<1>5. CASE InHand(t)' = Null /\ pool' = pool \cup {InHand(t)}
  BY <1>1, <1>2, <1>3, <1>5 DEF BufferHasOneOwner
<1>6. CASE InHand(t)' = Null /\ pool' = pool
  BY <1>1, <1>2, <1>3, <1>6 DEF BufferHasOneOwner
<1> QED
  BY <1>4, <1>5, <1>6 DEF Holding

\* Allocating, freeing and dying move only the buffer of the thread.
LEMMA IdleHolds ==
  ASSUME CopyInv, NEW t \in Threads, NEW m \in Mbufs \cup {Null},
         op' = [op EXCEPT ![t] = [Idle EXCEPT !.obj = m]],
         UNCHANGED <<indices, slots>>,
         SpEnq /\ t \in Producers => ~Holds(t)
  PROVE  /\ BuffersAreCarried' /\ SingleIsInOrder'
         /\ HandsKept(t) /\ InHand(t)' = m
         /\ UNCHANGED <<prodHead, prodTail, consHead, slots>>
<1>1. /\ \A u \in Threads : u # t => op'[u] = op[u]
      /\ op'[t].pc = "idle" /\ op'[t].obj = m
      /\ UNCHANGED <<prodHead, prodTail, consHead, slots>>
  BY DEF CopyInv, IndexInv, RingTypeOK, Idle, indices
<1>2. BuffersAreCarried'
  BY <1>1 DEF CopyInv, BuffersAreCarried, Threads
<1>3. SingleIsInOrder'
  BY <1>1 DEF CopyInv, SingleIsInOrder, Threads, Holds
<1>4. HandsKept(t) /\ InHand(t)' = m
  BY <1>1 DEF HandsKept, InHand, TakenBy
<1> QED
  BY <1>1, <1>2, <1>3, <1>4

LEMMA LeavingBuffers ==
  ASSUME CopyInv, NEW t \in Threads, Leave(t), SpEnq => t \notin Producers
  PROVE  CopyInv' /\ Holding(t) /\ InHand(t)' = Null /\ pool' = pool
<1>1. Idle = [Idle EXCEPT !.obj = Null]
  BY DEF Idle
<1>2. IndexInv'
  BY LeavingKeepsOrder DEF CopyInv
<1>3. pool' = pool /\ UNCHANGED <<indices, slots>>
      /\ op' = [op EXCEPT ![t] = [Idle EXCEPT !.obj = Null]]
  BY <1>1 DEF Leave
<1>4. /\ BuffersAreCarried' /\ SingleIsInOrder'
      /\ HandsKept(t) /\ InHand(t)' = Null
      /\ UNCHANGED <<prodHead, prodTail, consHead, slots>>
  BY <1>3, IdleHolds
<1> QED
  BY <1>2, <1>3, <1>4 DEF CopyInv, Holding

\* What a step of a user does to the buffers.
LEMMA UserBuffers ==
  ASSUME CopyInv, FlagsHold, NEW t \in Threads, UserStep(t),
         pool \in SUBSET Mbufs
  PROVE  /\ CopyInv'
         /\ \/ NothingMoves /\ pool' = pool
            \/ t \in Producers /\ Puts(t) /\ pool' = pool
            \/ t \in Consumers /\ Takes(t) /\ pool' = pool
            \/ Holding(t) /\ (pool' = pool => InHand(t) \in pool)
<1>0. IndexInv /\ RingTypeOK /\ IndexInv'
  BY UserKeepsOrder DEF CopyInv, IndexInv
<1>1. CASE Alloc(t)
  <2>1. PICK m \in pool : /\ op' = [op EXCEPT ![t].obj = m]
                          /\ pool' = pool \ {m}
    BY <1>1 DEF Alloc
  <2>2. /\ op' = [op EXCEPT ![t] = [Idle EXCEPT !.obj = m]]
        /\ InHand(t) = Null /\ ~Holds(t) /\ m \in Mbufs \cup {Null}
        /\ UNCHANGED <<indices, slots>>
    <3>1. op[t] = Idle /\ UNCHANGED <<indices, slots>>
      BY <1>1 DEF Alloc
    <3>2. op' = [op EXCEPT ![t] = [Idle EXCEPT !.obj = m]]
      BY <1>0, <2>1, <3>1 DEF RingTypeOK
    <3>3. InHand(t) = Null /\ ~Holds(t)
      BY <3>1 DEF Idle, InHand, TakenBy, Holds
    <3> QED
      BY <3>1, <3>2, <3>3
  <2>3. /\ BuffersAreCarried' /\ SingleIsInOrder'
        /\ HandsKept(t) /\ InHand(t)' = m
        /\ UNCHANGED <<prodHead, prodTail, consHead, slots>>
    BY <2>2, IdleHolds
  <2>4. Holding(t)
    BY <1>1, <2>1, <2>2, <2>3 DEF Holding, Alloc
  <2> QED
    BY <1>0, <2>1, <2>3, <2>4 DEF CopyInv
<1>2. CASE Drop(t)
  <2>1. /\ op' = [op EXCEPT ![t] = [Idle EXCEPT !.obj = Null]]
        /\ pool' = pool \cup {InHand(t)} /\ ~Holds(t)
        /\ UNCHANGED <<indices, slots>>
    BY <1>2 DEF Drop, Frees, Idle, InHand, Holds
  <2>2. /\ BuffersAreCarried' /\ SingleIsInOrder'
        /\ HandsKept(t) /\ InHand(t)' = Null
        /\ UNCHANGED <<prodHead, prodTail, consHead, slots>>
    BY <2>1, IdleHolds
  <2>3. Holding(t)
    BY <2>1, <2>2 DEF Holding
  <2> QED
    BY <1>0, <2>1, <2>2, <2>3 DEF CopyInv
<1>3. CASE t \in Producers /\ EnqStep(t) /\ UNCHANGED pool
  BY <1>0, <1>3, EnqBuffers DEF CopyInv
<1>4. CASE t \in Consumers /\ DeqStep(t) /\ UNCHANGED pool
  BY <1>0, <1>4, DeqBuffers DEF CopyInv
<1> QED
  BY <1>1, <1>2, <1>3, <1>4 DEF UserStep, RingStep

\* Producers die only where the others wait for a claim to be published: a
\* single producer does not, and its successor would publish the dead one's
\* position with whatever is in the slot.
ProducersLive == SpEnq => MaxDeaths = 0

\* The buffers that are in no place.
Lost == Mbufs \ (pool \cup {InHand(t) : t \in Threads}
                      \cup {slots[Slot(i)] : i \in Waiting})

\* The invariant of the buffers.
BufferInv ==
  /\ RingInv
  /\ pool \in SUBSET Mbufs
  /\ deaths \in 0..MaxDeaths

LEMMA InitBuffers ==
  ASSUME RingInit, pool \in SUBSET Mbufs
  PROVE  RingInv /\ Waiting = {} /\ \A t \in Threads : InHand(t) = Null
<1>1. IndexInv
  BY InitIsInOrder
<1>2. \A t \in Threads : op[t].pc = "idle" /\ op[t].obj = Null
  BY DEF RingInit, NoOps, Idle
<1>3. BuffersAreCarried /\ SingleIsInOrder
  BY <1>2 DEF BuffersAreCarried, SingleIsInOrder, Holds, Threads, RingInit
<1>4. \A t \in Threads : InHand(t) = Null
  BY <1>2 DEF InHand, TakenBy
<1>5. Waiting = {}
  <2>1. Entries = 0
    BY RingAssumption DEF RingInit, Entries, Sub
  <2>2. \A i \in Index : Sub(i, consHead) \in Nat
    BY <1>1, IndexType DEF IndexInv, RingTypeOK
  <2> QED
    BY <2>1, <2>2 DEF Waiting
<1>6. BufferHasOneOwner
  BY <1>4, <1>5, RingAssumption DEF BufferHasOneOwner
<1> QED
  BY <1>1, <1>3, <1>4, <1>5, <1>6 DEF RingInv, CopyInv

\* A step of a user keeps the invariant, and so does a process that leaves.
LEMMA UserKeepsRing ==
  ASSUME RingInv, FlagsHold, NEW t \in Threads, UserStep(t), pool \in SUBSET Mbufs
  PROVE  RingInv' /\ pool' \in SUBSET Mbufs /\ deaths' = deaths
<1>0. CopyInv /\ IndexInv /\ RingTypeOK /\ BufferHasOneOwner
  BY DEF RingInv, CopyInv, IndexInv
<1>1. pool' \in SUBSET Mbufs /\ deaths' = deaths
  BY <1>0, UserKeepsOrder
<1>2. CopyInv' /\ BufferHasOneOwner'
  BY <1>0, UserBuffers, OwnerWhenNothingMoves, OwnerWhenPut, OwnerWhenTaken,
     OwnerWhenHeld
<1> QED
  BY <1>1, <1>2 DEF RingInv

LEMMA LeavingKeepsRing ==
  ASSUME RingInv, NEW t \in Threads, Leave(t), SpEnq => t \notin Producers,
         pool \in SUBSET Mbufs
  PROVE  RingInv' /\ pool' = pool
<1>0. CopyInv /\ BufferHasOneOwner
  BY DEF RingInv
<1>1. CopyInv' /\ Holding(t) /\ pool' = pool
  BY <1>0, LeavingBuffers
<1>2. BufferHasOneOwner'
  BY <1>0, <1>1, OwnerWhenHeld
<1> QED
  BY <1>1, <1>2 DEF RingInv

LEMMA BufferStep ==
  ASSUME BufferInv, FlagsHold, ProducersLive, UsersNext
  PROVE  BufferInv'
<1>1. ASSUME NEW t \in Threads, UserStep(t)
      PROVE  BufferInv'
  BY <1>1, UserKeepsRing DEF BufferInv
<1>2. ASSUME NEW t \in Threads, Killed(t)
      PROVE  BufferInv'
  <2>1. Leave(t) /\ deaths < MaxDeaths /\ deaths' = deaths + 1
    BY <1>2 DEF Killed
  <2>2. SpEnq => t \notin Producers
    BY <2>1 DEF ProducersLive, BufferInv
  <2>3. RingInv' /\ pool' = pool
    BY <2>1, <2>2, LeavingKeepsRing DEF BufferInv
  <2>4. deaths' \in 0..MaxDeaths
    BY <2>1, DeathsAssumption DEF BufferInv
  <2> QED
    BY <2>3, <2>4 DEF BufferInv
<1> QED
  BY <1>1, <1>2 DEF UsersNext

LEMMA RingStutter ==
  ASSUME RingInv, UNCHANGED <<ringVars, pool>>
  PROVE  RingInv' /\ Lost' = Lost
<1>1. UNCHANGED <<prodHead, prodTail, consHead, consTail, slots, op, pool>>
  BY DEF ringVars
<1>2. \A t : InHand(t)' = InHand(t) /\ Holds(t)' = Holds(t)
  BY <1>1 DEF InHand, TakenBy, Holds
<1>3. Waiting' = Waiting /\ FreeEntries' = FreeEntries /\ Entries' = Entries
  BY <1>1 DEF Waiting, Entries, FreeEntries
<1>4. IndexInv'
  BY <1>1, <1>2, <1>3
     DEF RingInv, CopyInv, IndexInv, RingTypeOK, IndexOrder,
         ClaimsAreOpen, ClaimsAreUnique, ReadsAreGood
<1>5. BuffersAreCarried' /\ SingleIsInOrder'
  BY <1>1, <1>2 DEF RingInv, CopyInv, BuffersAreCarried, SingleIsInOrder
<1>6. BufferHasOneOwner'
  BY <1>1, <1>2, <1>3 DEF RingInv, BufferHasOneOwner
<1>7. Lost' = Lost
  BY <1>1, <1>2, <1>3 DEF Lost
<1> QED
  BY <1>4, <1>5, <1>6, <1>7 DEF RingInv, CopyInv

LEMMA BufferStutter ==
  ASSUME BufferInv, UNCHANGED userVars
  PROVE  BufferInv'
<1>1. UNCHANGED <<ringVars, pool>> /\ UNCHANGED <<pool, deaths>>
  BY DEF userVars
<1>2. RingInv'
  BY <1>1, RingStutter DEF BufferInv
<1> QED
  BY <1>1, <1>2 DEF BufferInv

LEMMA BuffersCorrect ==
  ASSUME FlagsHold, ProducersLive
  PROVE  UsersSpec => []BufferInv
<1>1. UsersInit => BufferInv
  BY InitBuffers, DeathsAssumption DEF UsersInit, BufferInv
<1>2. BufferInv /\ [UsersNext]_userVars => BufferInv'
  BY BufferStep, BufferStutter
<1> QED
  BY <1>1, <1>2, PTL DEF UsersSpec

\* A packet buffer is in one place: no two processes get the same buffer from
\* the ring, and none is freed that another may still get, for any number of
\* threads that enqueue, dequeue and are killed at any point.
THEOREM OneOwnerCorrect ==
  ASSUME FlagsHold, ProducersLive
  PROVE  UsersSpec => []BufferHasOneOwner
<1>1. BufferInv => BufferHasOneOwner
  BY DEF BufferInv, RingInv
<1> QED
  BY <1>1, BuffersCorrect, PTL

-----------------------------------------------------------------------------
(***************************************************************************)
(* Lost buffers.                                                           *)
(***************************************************************************)
LostInv == IsFiniteSet(Lost) /\ Cardinality(Lost) <= deaths

\* A step of a user loses nothing.
LEMMA UserLosesNothing ==
  ASSUME CopyInv, FlagsHold, NEW t \in Threads, UserStep(t),
         pool \in SUBSET Mbufs
  PROVE  Lost' \subseteq Lost
<1>0. RingTypeOK
  BY DEF CopyInv, IndexInv
<1>1. CASE NothingMoves /\ pool' = pool
  <2>1. Waiting' = Waiting
    BY <1>1 DEF NothingMoves, Waiting, Entries
  <2> QED
    BY <1>1, <2>1 DEF NothingMoves, Lost
<1>2. CASE Puts(t) /\ pool' = pool
  <2>1. Waiting' = Waiting \cup {prodTail}
    BY <1>0, <1>2, WaitingPut
  <2> QED
    BY <1>2, <2>1 DEF Puts, HandsKept, Lost
<1>3. CASE Takes(t) /\ pool' = pool
  <2>1. Waiting' = Waiting \ {consHead} /\ consHead \in Waiting
    BY <1>0, <1>3, WaitingTake
  <2> QED
    BY <1>3, <2>1, RingAssumption DEF Takes, HandsKept, Lost
<1>4. CASE Holding(t) /\ (pool' = pool => InHand(t) \in pool)
  <2>1. Waiting' = Waiting /\ slots' = slots
    BY <1>4 DEF Holding, Waiting, Entries
  <2> QED
    BY <1>4, <2>1, RingAssumption DEF Holding, HandsKept, Lost
<1> QED
  BY <1>1, <1>2, <1>3, <1>4, UserBuffers

\* A death loses at most the buffer in the hands of the dead.
LEMMA DeathLosesOne ==
  ASSUME NEW t \in Threads, Holding(t), pool' = pool, InHand(t)' = Null
  PROVE  Lost' \subseteq Lost \cup {InHand(t)}
<1>1. Waiting' = Waiting /\ slots' = slots
  BY DEF Holding, Waiting, Entries
<1> QED
  BY <1>1, RingAssumption DEF Holding, HandsKept, Lost

\* The bound holds on if nothing is lost, or one buffer by a death.
LEMMA NothingLost ==
  ASSUME LostInv, deaths \in Nat, deaths' \in Nat, deaths' >= deaths,
         Lost' \subseteq Lost
  PROVE  LostInv'
<1>1. IsFiniteSet(Lost) /\ Cardinality(Lost) \in Nat /\ Cardinality(Lost) <= deaths
  BY FS_CardinalityType DEF LostInv
<1>2. /\ IsFiniteSet(Lost') /\ Cardinality(Lost') \in Nat
      /\ Cardinality(Lost') <= Cardinality(Lost)
  BY <1>1, FS_Subset, FS_CardinalityType
<1> QED
  BY <1>1, <1>2 DEF LostInv

LEMMA OneLost ==
  ASSUME LostInv, deaths \in Nat, deaths' = deaths + 1,
         NEW m, Lost' \subseteq Lost \cup {m}
  PROVE  LostInv'
<1>1. IsFiniteSet(Lost) /\ Cardinality(Lost) \in Nat /\ Cardinality(Lost) <= deaths
  BY FS_CardinalityType DEF LostInv
<1>2. /\ IsFiniteSet(Lost \cup {m})
      /\ \/ Cardinality(Lost \cup {m}) = Cardinality(Lost)
         \/ Cardinality(Lost \cup {m}) = Cardinality(Lost) + 1
  BY <1>1, FS_AddElement
<1>3. /\ IsFiniteSet(Lost') /\ Cardinality(Lost') \in Nat
      /\ Cardinality(Lost') <= Cardinality(Lost \cup {m})
  BY <1>2, FS_Subset, FS_CardinalityType
<1> QED
  BY <1>1, <1>2, <1>3 DEF LostInv

\* Only a process that is killed loses buffers, and each at most one.
THEOREM NoLeakCorrect ==
  ASSUME FlagsHold, ProducersLive
  PROVE  UsersSpec => []NoLeak
<1>1. UsersInit => LostInv
  <2> SUFFICES ASSUME UsersInit PROVE LostInv
    OBVIOUS
  <2>1. Lost = {}
    BY DEF UsersInit, Lost
  <2> QED
    BY <2>1, FS_EmptySet DEF LostInv, UsersInit
<1>2. BufferInv /\ LostInv /\ [UsersNext]_userVars => LostInv'
  <2> SUFFICES ASSUME BufferInv, LostInv, [UsersNext]_userVars
               PROVE  LostInv'
    OBVIOUS
  <2>0. CopyInv /\ pool \in SUBSET Mbufs /\ deaths \in Nat
    BY DeathsAssumption DEF BufferInv, RingInv
  <2>1. ASSUME NEW t \in Threads, UserStep(t)
        PROVE  LostInv'
    BY <2>0, <2>1, UserLosesNothing, NothingLost DEF UserStep
  <2>2. ASSUME NEW t \in Threads, Killed(t)
        PROVE  LostInv'
    <3>1. Leave(t) /\ deaths < MaxDeaths /\ deaths' = deaths + 1
      BY <2>2 DEF Killed
    <3>2. SpEnq => t \notin Producers
      BY <3>1 DEF ProducersLive, BufferInv
    <3>3. Lost' \subseteq Lost \cup {InHand(t)}
      BY <2>0, <3>1, <3>2, LeavingBuffers, DeathLosesOne
    <3> QED
      BY <2>0, <3>1, <3>3, OneLost
  <2>3. CASE UNCHANGED userVars
    <3>1. Lost' = Lost /\ deaths' = deaths
      BY <2>3, RingStutter DEF userVars, BufferInv
    <3> QED
      BY <3>1 DEF LostInv
  <2> QED
    BY <2>1, <2>2, <2>3 DEF UsersNext
<1>3. LostInv => NoLeak
  BY DEF LostInv, Lost, NoLeak
<1> QED
  BY <1>1, <1>2, <1>3, BuffersCorrect, PTL DEF UsersSpec

-----------------------------------------------------------------------------
(***************************************************************************)
(* The ring is a queue.                                                    *)
(***************************************************************************)

\* The i-th buffer of the queue is at a waiting position.
LEMMA QueuePosition ==
  ASSUME RingTypeOK, NEW i \in 1..Entries
  PROVE  /\ Plus(consHead, i - 1) \in Waiting
         /\ Plus(consHead, 0) = consHead
         /\ i > 1 => Plus(consHead, i - 1) = Plus(Succ(consHead), i - 2)
<1>1. /\ prodTail \in Index /\ consHead \in Index
      /\ Sub(prodTail, consHead) \in Nat /\ Sub(prodTail, consHead) < Wrap
      /\ i \in 1..Sub(prodTail, consHead)
  <2>1. prodTail \in Index /\ consHead \in Index
    BY DEF RingTypeOK
  <2>2. Sub(prodTail, consHead) \in Index
    BY <2>1, IndexType
  <2> QED
    BY <2>1, <2>2, RingAssumption DEF Entries, Index
<1>2. /\ Plus(consHead, i - 1) \in Index
      /\ Sub(Plus(consHead, i - 1), consHead) = i - 1
  BY <1>1, RingAssumption DEF Index, Plus, Sub
<1>3. /\ Plus(consHead, 0) = consHead
      /\ i > 1 => Plus(consHead, i - 1) = Plus(Succ(consHead), i - 2)
  BY <1>1, RingAssumption DEF Index, Plus, Succ
<1> QED
  BY <1>1, <1>2, <1>3 DEF Waiting, Entries

LEMMA QueueEnd ==
  ASSUME RingTypeOK
  PROVE  Plus(consHead, Entries) = prodTail /\ Entries \in Nat
BY RingAssumption DEF RingTypeOK, Plus, Entries, Sub, Index

QueueTyped ==
  /\ QueueOf \in Seq(Mbufs \cup {Null}) /\ Len(QueueOf) = Entries
  /\ \A i \in 1..Entries : QueueOf[i] = slots[Slot(Plus(consHead, i - 1))]

LEMMA QueueType == RingTypeOK => QueueTyped
<1> SUFFICES ASSUME RingTypeOK PROVE QueueTyped
  OBVIOUS
<1>1. Entries \in Nat
  BY QueueEnd
<1>2. \A i \in 1..Entries :
        slots[Slot(Plus(consHead, i - 1))] \in Mbufs \cup {Null}
  <2> TAKE i \in 1..Entries
  <2>1. Plus(consHead, i - 1) \in Index
    BY QueuePosition DEF Waiting
  <2> QED
    BY <2>1, SlotType DEF RingTypeOK
<1> QED
  BY <1>1, <1>2 DEF QueueOf, QueueTyped

LEMMA QueueTypeNext == RingTypeOK' => QueueTyped'
BY QueueType, PTL

\* What a consumer has taken is what it has in its hands.
LEMMA TakenIsInHand ==
  ASSUME NEW c \in Consumers
  PROVE  TakenBy(c) = InHand(c) /\ TakenBy(c)' = InHand(c)'
BY RingAssumption DEF TakenBy, InHand

LEMMA QueueKept ==
  ASSUME RingTypeOK, UNCHANGED <<prodTail, consHead>>,
         \A i \in Waiting : slots'[Slot(i)] = slots[Slot(i)]
  PROVE  QueueOf' = QueueOf
<1>1. Entries' = Entries
  BY DEF Entries
<1>2. \A i \in 1..Entries : slots'[Slot(Plus(consHead, i - 1))]
                            = slots[Slot(Plus(consHead, i - 1))]
  BY QueuePosition
<1> QED
  BY <1>1, <1>2 DEF QueueOf

LEMMA QueuePut ==
  ASSUME RingTypeOK, RingTypeOK', NEW t \in Threads, Puts(t)
  PROVE  QueueOf' = Append(QueueOf, InHand(t)) /\ Len(QueueOf) < Size - 1
<1>1. Entries' = Entries + 1 /\ Entries \in Nat /\ Entries < Size - 1
  BY WaitingPut DEF Puts
<1>2. /\ QueueOf \in Seq(Mbufs \cup {Null}) /\ Len(QueueOf) = Entries
      /\ \A i \in 1..Entries : QueueOf[i] = slots[Slot(Plus(consHead, i - 1))]
  BY QueueType DEF QueueTyped
<1>3. /\ QueueOf' \in Seq(Mbufs \cup {Null}) /\ Len(QueueOf') = Entries + 1
      /\ \A i \in 1..(Entries + 1) :
           QueueOf'[i] = slots[Slot(Plus(consHead, i - 1))]
  BY <1>1, QueueTypeNext DEF Puts, QueueTyped
<1>4. QueueOf'[Entries + 1] = InHand(t)
  BY <1>1, <1>3, QueueEnd DEF Puts
<1>5. \A i \in 1..Entries : QueueOf'[i] = QueueOf[i]
  BY <1>1, <1>2, <1>3
<1>6. InHand(t) \in Mbufs \cup {Null}
  BY DEF Puts
<1> DEFINE q == QueueOf
           r == QueueOf'
           m == InHand(t)
           n == Entries
<1>7. /\ q \in Seq(Mbufs \cup {Null}) /\ r \in Seq(Mbufs \cup {Null})
      /\ m \in Mbufs \cup {Null} /\ n \in Nat
      /\ Len(q) = n /\ Len(r) = n + 1 /\ r[n + 1] = m
      /\ \A i \in 1..n : r[i] = q[i]
  BY <1>1, <1>2, <1>3, <1>4, <1>5, <1>6
<1> HIDE DEF q, r, m, n
<1>8. r = Append(q, m)
  <2>1. /\ Append(q, m) \in Seq(Mbufs \cup {Null})
        /\ Len(Append(q, m)) = n + 1
        /\ \A i \in 1..(n + 1) : Append(q, m)[i] = r[i]
    BY <1>7
  <2> QED
    BY <1>7, <2>1, SeqEqual
<1> QED
  BY <1>1, <1>2, <1>8 DEF q, r, m, n

LEMMA QueueTake ==
  ASSUME RingTypeOK, RingTypeOK', NEW t \in Threads, Takes(t)
  PROVE  /\ QueueOf # <<>> /\ Head(QueueOf) = slots[Slot(consHead)]
         /\ QueueOf' = Tail(QueueOf)
<1>1. Entries' = Entries - 1 /\ Entries \in Nat /\ Entries >= 1
  BY WaitingTake DEF Takes
<1>2. /\ QueueOf \in Seq(Mbufs \cup {Null}) /\ Len(QueueOf) = Entries
      /\ \A i \in 1..Entries : QueueOf[i] = slots[Slot(Plus(consHead, i - 1))]
  BY QueueType DEF QueueTyped
<1>3. /\ QueueOf' \in Seq(Mbufs \cup {Null}) /\ Len(QueueOf') = Entries - 1
      /\ \A i \in 1..(Entries - 1) :
           QueueOf'[i] = slots[Slot(Plus(Succ(consHead), i - 1))]
  BY <1>1, QueueTypeNext DEF Takes, QueueTyped
<1>4. \A i \in 1..(Entries - 1) : QueueOf'[i] = QueueOf[i + 1]
  <2> TAKE i \in 1..(Entries - 1)
  <2>1. i + 1 \in 1..Entries /\ (i + 1) - 1 = i /\ (i + 1) - 2 = i - 1
        /\ i + 1 > 1
    BY <1>1
  <2>2. Plus(consHead, (i + 1) - 1) = Plus(Succ(consHead), (i + 1) - 2)
    BY <2>1, QueuePosition
  <2> QED
    BY <1>2, <1>3, <2>1, <2>2
<1>5. QueueOf[1] = slots[Slot(consHead)]
  <2>1. 1 \in 1..Entries /\ 1 - 1 = 0
    BY <1>1
  <2>2. Plus(consHead, 0) = consHead
    BY <2>1, QueuePosition
  <2> QED
    BY <1>2, <2>1, <2>2
<1> DEFINE q == QueueOf
           r == QueueOf'
           n == Entries
<1>6. /\ q \in Seq(Mbufs \cup {Null}) /\ r \in Seq(Mbufs \cup {Null})
      /\ n \in Nat /\ n >= 1 /\ Len(q) = n /\ Len(r) = n - 1
      /\ \A i \in 1..(n - 1) : r[i] = q[i + 1]
  BY <1>1, <1>2, <1>3, <1>4
<1> HIDE DEF q, r, n
<1>7. q # <<>> /\ Head(q) = q[1]
  BY <1>6
<1>8. r = Tail(q)
  <2>1. /\ Tail(q) \in Seq(Mbufs \cup {Null}) /\ Len(Tail(q)) = n - 1
        /\ \A i \in 1..(n - 1) : Tail(q)[i] = r[i]
    BY <1>6, <1>7
  <2> QED
    BY <1>6, <2>1, SeqEqual
<1> QED
  BY <1>5, <1>7, <1>8 DEF q, r

\* How a step of the ring looks from the queue.
LEMMA QueueSees ==
  ASSUME RingTypeOK, RingTypeOK', NEW t \in Threads,
         \/ NothingMoves
         \/ t \in Producers /\ Puts(t)
         \/ t \in Consumers /\ Takes(t)
         \/ Holding(t)
  PROVE  [Queue!Next]_(Queue!vars)
<1> DEFINE taken == [c \in Consumers |-> TakenBy(c)]
<1>0. \A c \in Consumers : taken[c] = InHand(c) /\ taken'[c] = InHand(c)'
  BY TakenIsInHand
<1>1. taken = [c \in Consumers |-> InHand(c)] /\ taken' = [c \in Consumers |-> InHand(c)']
  BY TakenIsInHand
<1>2. \A c \in Consumers : c \in Threads /\ c \notin Producers
  BY RingAssumption DEF Threads
<1>3. CASE NothingMoves
  <2>1. QueueOf' = QueueOf
    BY <1>3, QueueKept DEF NothingMoves
  <2>2. taken' = taken
    BY <1>1, <1>2, <1>3 DEF NothingMoves
  <2> QED
    BY <2>1, <2>2 DEF Queue!vars
<1>4. CASE t \in Producers /\ Puts(t)
  <2>1. QueueOf' = Append(QueueOf, InHand(t)) /\ Len(QueueOf) < Size - 1
    BY <1>4, QueuePut
  <2>2. taken' = taken
    BY <1>1, <1>2, <1>4 DEF Puts, HandsKept
  <2>3. Queue!Put(InHand(t)) /\ InHand(t) \in Mbufs
    BY <1>4, <2>1, <2>2 DEF Queue!Put, Puts
  <2> QED
    BY <2>3 DEF Queue!Next
<1>5. CASE t \in Consumers /\ Takes(t)
  <2>1. /\ QueueOf # <<>> /\ Head(QueueOf) = slots[Slot(consHead)]
        /\ QueueOf' = Tail(QueueOf)
    BY <1>5, QueueTake
  <2>2. taken[t] = Null /\ taken' = [taken EXCEPT ![t] = slots[Slot(consHead)]]
    BY <1>0, <1>1, <1>2, <1>5 DEF Takes, HandsKept
  <2>3. Queue!Take(t)
    BY <2>1, <2>2 DEF Queue!Take
  <2> QED
    BY <1>5, <2>3 DEF Queue!Next
<1>6. CASE Holding(t)
  <2>1. QueueOf' = QueueOf
    BY <1>6, QueueKept DEF Holding
  <2>2. CASE t \in Consumers
    <3>1. taken' = [taken EXCEPT ![t] = Null]
      BY <1>1, <1>2, <1>6, <2>2 DEF Holding, HandsKept
    <3>2. Queue!LetGo(t)
      BY <2>1, <3>1 DEF Queue!LetGo
    <3> QED
      BY <2>2, <3>2 DEF Queue!Next
  <2>3. CASE t \notin Consumers
    <3>1. taken' = taken
      BY <1>1, <1>2, <1>6, <2>3 DEF Holding, HandsKept
    <3> QED
      BY <2>1, <3>1 DEF Queue!vars
  <2> QED
    BY <2>2, <2>3
<1> QED
  BY <1>3, <1>4, <1>5, <1>6

\* The ring is a queue: though an operation takes several steps, which
\* interleave with those of the others, buffers come out once and in the order
\* in which they went in.  A producer's operation takes effect when it
\* publishes, a consumer's when it claims.
THEOREM QueueCorrect ==
  ASSUME FlagsHold, ProducersLive
  PROVE  UsersSpec => ImplementsQueue
<1>1. UsersInit => Queue!Init
  <2> SUFFICES ASSUME UsersInit PROVE Queue!Init
    OBVIOUS
  <2>1. QueueOf = <<>>
    <3>1. Entries = 0
      BY RingAssumption DEF UsersInit, RingInit, Entries, Sub
    <3> QED
      BY <3>1 DEF QueueOf
  <2>2. [c \in Consumers |-> TakenBy(c)] = [c \in Consumers |-> Null]
    BY DEF UsersInit, RingInit, NoOps, Idle, TakenBy, Threads
  <2> QED
    BY <2>1, <2>2 DEF Queue!Init
<1>2. BufferInv /\ BufferInv' /\ [UsersNext]_userVars => [Queue!Next]_(Queue!vars)
  <2> SUFFICES ASSUME BufferInv, BufferInv', [UsersNext]_userVars
               PROVE  [Queue!Next]_(Queue!vars)
    OBVIOUS
  <2>0. CopyInv /\ RingTypeOK /\ RingTypeOK' /\ pool \in SUBSET Mbufs
    BY DEF BufferInv, RingInv, CopyInv, IndexInv
  <2>1. ASSUME NEW t \in Threads, UserStep(t)
        PROVE  [Queue!Next]_(Queue!vars)
    BY <2>0, <2>1, UserBuffers, QueueSees
  <2>2. ASSUME NEW t \in Threads, Killed(t)
        PROVE  [Queue!Next]_(Queue!vars)
    <3>1. Leave(t) /\ (SpEnq => t \notin Producers)
      BY <2>2 DEF Killed, ProducersLive, BufferInv
    <3>2. Holding(t)
      BY <2>0, <3>1, LeavingBuffers
    <3> QED
      BY <2>0, <3>2, QueueSees
  <2>3. CASE UNCHANGED userVars
    BY <2>3 DEF userVars, ringVars, Queue!vars, QueueOf, Entries, TakenBy
  <2> QED
    BY <2>1, <2>2, <2>3 DEF UsersNext
<1> QED
  BY <1>1, <1>2, BuffersCorrect, PTL DEF UsersSpec, ImplementsQueue, Queue!Spec

=============================================================================

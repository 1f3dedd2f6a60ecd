-------------------------------- MODULE Ring --------------------------------
(***************************************************************************)
(* The DPDK ring (librte_ring of dpdk-16.07), through which the processes  *)
(* of the platform pass packet buffers: rte_ring_enqueue and               *)
(* rte_ring_dequeue of one object, in the variants for many and for single *)
(* producers and consumers.  An operation is four steps of its thread:     *)
(* read the indices, claim a position by moving the head, copy the object, *)
(* and publish by moving the tail; anything may happen in between.         *)
(*                                                                         *)
(* The indices are unsigned words of Wrap values that are never reset; a   *)
(* slot is addressed by the low bits of an index.                          *)
(***************************************************************************)
EXTENDS Integers, Sequences

CONSTANTS
  Producers,  \* threads that enqueue
  Consumers,  \* threads that dequeue
  Mbufs,      \* the packet buffers
  Null,       \* no buffer
  Size,       \* r->prod.size; one slot always stays empty
  Wrap,       \* number of values of an index           (2^32 in the code)
  MaxLag,     \* bound of the model: see LapsNobody
  SpEnq,      \* RING_F_SP_ENQ: a single producer enqueues
  ScDeq       \* RING_F_SC_DEQ: a single consumer dequeues

Threads == Producers \cup Consumers

Index == 0..(Wrap - 1)

\* a - b and a + 1 of unsigned words
Sub(a, b) == IF a >= b THEN a - b ELSE a - b + Wrap

\* Mutant: the index does not wrap
SuccMut(a) == a + 1

Succ(a) == IF a + 1 = Wrap THEN 0 ELSE a + 1

Plus(a, n) == IF a + n >= Wrap THEN a + n - Wrap ELSE a + n

\* The slot of an index: index & mask
Slot(a) == a % Size

ASSUME RingAssumption ==
  /\ Size \in Nat \ {0, 1}
  /\ Wrap \in Nat
  /\ Size < Wrap
  /\ MaxLag \in 1..(Wrap - 1)
  /\ SpEnq \in BOOLEAN /\ ScDeq \in BOOLEAN
  /\ Null \notin Mbufs
  /\ Producers \cap Consumers = {}

\* Size and Wrap are powers of two: the slots of Size - 1 positions in a row
\* are different
ASSUME SlotAssumption ==
  \A a, b \in Index : Sub(a, b) < Size /\ Slot(a) = Slot(b) => a = b

VARIABLES
  prodHead, prodTail, \* r->prod
  consHead, consTail, \* r->cons
  slots,              \* r->ring
  op                  \* the operation each thread is in

indices == <<prodHead, prodTail, consHead, consTail>>
ringVars == <<prodHead, prodTail, consHead, consTail, slots, op>>

(***************************************************************************)
(* idle: outside the ring (obj is the buffer the thread holds); read: at   *)
(* is the head it saw; claimed: the head has moved past at; copied: the    *)
(* object is in the slot, or read from it.                                 *)
(***************************************************************************)
OpType ==
  [pc : {"idle", "read", "claimed", "copied"}, at : Index,
   obj : Mbufs \cup {Null}]

Idle == [pc |-> "idle", at |-> 0, obj |-> Null]

NoSlots == [i \in 0..(Size - 1) |-> Null]
NoOps == [t \in Threads |-> Idle]

\* rte_ring_init
RingInit ==
  /\ prodHead = 0 /\ prodTail = 0
  /\ consHead = 0 /\ consTail = 0
  /\ slots = NoSlots
  /\ op = NoOps

\* The ring is built anew, in memory none of the threads is in
RingReset ==
  /\ prodHead' = 0 /\ prodTail' = 0
  /\ consHead' = 0 /\ consTail' = 0
  /\ slots' = NoSlots
  /\ op' = NoOps

\* Mutant: no slot stays empty
FreeEntriesMut == Sub(Size, Sub(prodHead, consTail))

\* mask + cons_tail - prod_head, and prod_tail - cons_head
FreeEntries == Sub(Size - 1, Sub(prodHead, consTail))

\* Mutant: positions that are claimed and not yet published count
EntriesMut == Sub(prodHead, consHead)

Entries == Sub(prodTail, consHead)

\* rte_ring_count
RingCount == Sub(prodTail, consTail) % Size

\* Bound of the model: while a thread is between its read and its claim the
\* others move the head at most MaxLag times, so never around all its values
LapsNobody(head, others) ==
  \A u \in others : op[u].pc = "read" => Sub(head, op[u].at) < MaxLag

-----------------------------------------------------------------------------
(***************************************************************************)
(* __rte_ring_mp_do_enqueue and __rte_ring_sp_do_enqueue.  The two reads   *)
(* are one step: a head that moved between them fails the compare-and-set, *)
(* and a tail only moves on.                                               *)
(***************************************************************************)
EnqRead(t) ==
  /\ op[t].pc = "idle" /\ op[t].obj # Null
  /\ FreeEntries >= 1
  /\ op' = [op EXCEPT ![t].pc = "read", ![t].at = prodHead]
  /\ UNCHANGED <<indices, slots>>

\* rte_atomic32_cmpset, or the plain store of the single variants
Claims(single, head, t) == single \/ head = op[t].at

\* A lost race reads again
EnqClaim(t) ==
  /\ op[t].pc = "read"
  /\ IF Claims(SpEnq, prodHead, t)
     THEN /\ LapsNobody(prodHead, Producers \ {t})
          /\ prodHead' = Succ(op[t].at)
          /\ op' = [op EXCEPT ![t].pc = "claimed"]
     ELSE /\ op' = [op EXCEPT ![t].pc = "idle", ![t].at = 0]
          /\ UNCHANGED prodHead
  /\ UNCHANGED <<prodTail, consHead, consTail, slots>>

EnqCopy(t) ==
  /\ op[t].pc = "claimed"
  /\ slots' = [slots EXCEPT ![Slot(op[t].at)] = op[t].obj]
  /\ op' = [op EXCEPT ![t].pc = "copied"]
  /\ UNCHANGED indices

\* The operations that claimed before have published; single does not wait
Publishes(single, tail, t) == single \/ tail = op[t].at

EnqPublish(t) ==
  /\ op[t].pc = "copied"
  /\ Publishes(SpEnq, prodTail, t)
  /\ prodTail' = Succ(op[t].at)
  /\ op' = [op EXCEPT ![t] = Idle]
  /\ UNCHANGED <<prodHead, consHead, consTail, slots>>

-----------------------------------------------------------------------------
\* __rte_ring_mc_do_dequeue and __rte_ring_sc_do_dequeue
DeqRead(t) ==
  /\ op[t].pc = "idle" /\ op[t].obj = Null
  /\ Entries >= 1
  /\ op' = [op EXCEPT ![t].pc = "read", ![t].at = consHead]
  /\ UNCHANGED <<indices, slots>>

\* Mutant: the head is stored without the compare
DeqClaimMut(t) ==
  /\ op[t].pc = "read"
  /\ LapsNobody(consHead, Consumers \ {t})
  /\ consHead' = Succ(op[t].at)
  /\ op' = [op EXCEPT ![t].pc = "claimed"]
  /\ UNCHANGED <<prodHead, prodTail, consTail, slots>>

DeqClaim(t) ==
  /\ op[t].pc = "read"
  /\ IF Claims(ScDeq, consHead, t)
     THEN /\ LapsNobody(consHead, Consumers \ {t})
          /\ consHead' = Succ(op[t].at)
          /\ op' = [op EXCEPT ![t].pc = "claimed"]
     ELSE /\ op' = [op EXCEPT ![t].pc = "idle", ![t].at = 0]
          /\ UNCHANGED consHead
  /\ UNCHANGED <<prodHead, prodTail, consTail, slots>>

DeqCopy(t) ==
  /\ op[t].pc = "claimed"
  /\ op' = [op EXCEPT ![t].pc = "copied", ![t].obj = slots[Slot(op[t].at)]]
  /\ UNCHANGED <<indices, slots>>

DeqPublish(t) ==
  /\ op[t].pc = "copied"
  /\ Publishes(ScDeq, consTail, t)
  /\ consTail' = Succ(op[t].at)
  /\ op' = [op EXCEPT ![t].pc = "idle", ![t].at = 0]
  /\ UNCHANGED <<prodHead, prodTail, consHead, slots>>

EnqStep(t) == EnqRead(t) \/ EnqClaim(t) \/ EnqCopy(t) \/ EnqPublish(t)
DeqStep(t) == DeqRead(t) \/ DeqClaim(t) \/ DeqCopy(t) \/ DeqPublish(t)

-----------------------------------------------------------------------------
RingTypeOK ==
  /\ prodHead \in Index /\ prodTail \in Index
  /\ consHead \in Index /\ consTail \in Index
  /\ slots \in [0..(Size - 1) -> Mbufs \cup {Null}]
  /\ op \in [Threads -> OpType]

\* The indices follow one another: consTail, consHead, prodTail, prodHead, and
\* at most Size - 1 positions from the first to the last.
IndexOrder ==
  LET ch == Sub(consHead, consTail)
      pt == Sub(prodTail, consTail)
      ph == Sub(prodHead, consTail)
  IN  ch <= pt /\ pt <= ph /\ ph < Size

\* A thread that has claimed a position and not published it yet
Holds(t) == op[t].pc \in {"claimed", "copied"}

\* The ring as the queue it implements
QueueOf ==
  [i \in 1..Entries |-> slots[Slot(Plus(consHead, i - 1))]]
TakenBy(c) ==
  IF op[c].pc = "claimed" THEN slots[Slot(op[c].at)] ELSE op[c].obj
=============================================================================

----------------------------- MODULE RingUsers -----------------------------
(***************************************************************************)
(* A ring and the processes on both of its ends, each of which uses it as  *)
(* its interface asks: a producer takes a packet buffer out of the pool    *)
(* and enqueues it, a consumer dequeues one and frees it.  Any of them may *)
(* be killed at any point, in the middle of a ring operation too.          *)
(***************************************************************************)
EXTENDS Ring, FiniteSets

CONSTANT MaxDeaths \* bound of the model: processes that are killed

ASSUME DeathsAssumption == MaxDeaths \in Nat

VARIABLES
  pool,  \* free packet buffers
  deaths \* processes killed so far

userVars == <<ringVars, pool, deaths>>

UsersInit == RingInit /\ pool = Mbufs /\ deaths = 0

\* rte_pktmbuf_alloc
Alloc(t) ==
  /\ t \in Producers /\ op[t] = Idle
  /\ \E m \in pool : /\ op' = [op EXCEPT ![t].obj = m]
                     /\ pool' = pool \ {m}
  /\ UNCHANGED <<indices, slots>>

\* Mutant: a buffer that was dequeued is not freed
FreesMut(t) == UNCHANGED pool

\* rte_pktmbuf_free
Frees(t) == pool' = pool \cup {op[t].obj}

\* A consumer is done with its buffer; a producer drops it, the ring being full
Drop(t) ==
  /\ op[t].pc = "idle" /\ op[t].obj # Null
  /\ t \in Producers => FreeEntries = 0
  /\ Frees(t)
  /\ op' = [op EXCEPT ![t] = Idle]
  /\ UNCHANGED <<indices, slots>>

RingStep(t) ==
  \/ t \in Producers /\ EnqStep(t)
  \/ t \in Consumers /\ DeqStep(t)

\* What a process leaves behind: a position it has claimed stays claimed, and
\* the buffer in its hands is nobody's any more.  Another process takes its
\* place.
Leave(t) ==
  /\ op' = [op EXCEPT ![t] = Idle]
  /\ UNCHANGED <<indices, slots, pool>>

Killed(t) ==
  /\ deaths < MaxDeaths
  /\ deaths' = deaths + 1
  /\ op[t] # Idle
  /\ Leave(t)

UserStep(t) ==
  /\ \/ Alloc(t) \/ Drop(t)
     \/ RingStep(t) /\ UNCHANGED pool
  /\ UNCHANGED deaths

UsersNext == \E t \in Threads : UserStep(t) \/ Killed(t)

UsersSpec == UsersInit /\ [][UsersNext]_userVars

-----------------------------------------------------------------------------
\* Every variable has the type the code declares for it.
UsersTypeOK ==
  /\ RingTypeOK
  /\ pool \in SUBSET Mbufs /\ deaths \in 0..MaxDeaths

\* The positions of the ring that hold a buffer not yet taken
Waiting == {i \in Index : Sub(i, consHead) < Entries}

\* The buffer in the hands of a thread
InHand(t) ==
  IF t \in Producers \/ op[t].pc = "idle" THEN op[t].obj ELSE TakenBy(t)

\* A packet buffer is in one place: free, in the hands of one process, or at
\* one position of the ring.  It is never freed while somebody else may still
\* get it from the ring, and never handed out twice by rte_ring_dequeue,
\* whoever dequeues, flushes or dies.
BufferHasOneOwner ==
  \A m \in Mbufs :
    /\ m \in pool => /\ \A t \in Threads : InHand(t) # m
                     /\ \A i \in Waiting : slots[Slot(i)] # m
    /\ \A t, u \in Threads : InHand(t) = m /\ InHand(u) = m => t = u
    /\ \A i \in Waiting : slots[Slot(i)] = m =>
         /\ \A j \in Waiting : slots[Slot(j)] = m => i = j
         /\ \A t \in Threads : InHand(t) # m

\* Only a process that is killed loses buffers: every other buffer is free, in
\* a ring or in somebody's hands.
NoLeak ==
  Cardinality(Mbufs \ (pool \cup {InHand(t) : t \in Threads}
                            \cup {slots[Slot(i)] : i \in Waiting})) <= deaths

Queue == INSTANCE Fifo WITH
  Capacity <- Size - 1,
  queue <- QueueOf,
  taken <- [c \in Consumers |-> TakenBy(c)]

\* The ring is a queue, though its operations take several steps and run
\* concurrently: buffers come out once and in the order in which they went in.
ImplementsQueue == Queue!Spec
=============================================================================

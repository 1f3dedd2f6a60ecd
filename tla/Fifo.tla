-------------------------------- MODULE Fifo --------------------------------
(***************************************************************************)
(* What a DPDK ring promises its users: a bounded queue of packet buffers. *)
(* A producer puts a buffer at the end, a consumer takes the one at the    *)
(* front, each in one step; the buffer a consumer has taken is its own     *)
(* until it lets go of it, or dies with it.                                *)
(***************************************************************************)
EXTENDS Naturals, Sequences

CONSTANTS Consumers, Mbufs, Null, Capacity

VARIABLES queue, taken

vars == <<queue, taken>>

Init ==
  /\ queue = <<>>
  /\ taken = [c \in Consumers |-> Null]

Put(m) ==
  /\ Len(queue) < Capacity
  /\ queue' = Append(queue, m)
  /\ UNCHANGED taken

Take(c) ==
  /\ queue # <<>>
  /\ taken[c] = Null
  /\ taken' = [taken EXCEPT ![c] = Head(queue)]
  /\ queue' = Tail(queue)

LetGo(c) ==
  /\ taken' = [taken EXCEPT ![c] = Null]
  /\ UNCHANGED queue

Next ==
  \/ \E m \in Mbufs : Put(m)
  \/ \E c \in Consumers : Take(c) \/ LetGo(c)

Spec == Init /\ [][Next]_vars
=============================================================================

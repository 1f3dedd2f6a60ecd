------------------------------- MODULE PcdIpc -------------------------------
(***************************************************************************)
(* The exchange between a client of the API (pcdapi.c) and the supervisor  *)
(* (pcd_api.c) over the IPC library (ipc.c): a table of slots in shared    *)
(* memory, and a datagram socket for each slot in use.                     *)
(*                                                                         *)
(* A message names its sender by the index of a slot, and a reply goes to  *)
(* whoever holds that slot when the reply is sent.  A client takes a slot  *)
(* for one call only, so by then it may be somebody else's: the message id *)
(* is all that tells a late reply from the one a client waits for.         *)
(***************************************************************************)
EXTENDS Integers, Sequences, SequencesExt

CONSTANTS
  Clients,      \* processes that call the API
  Server,       \* the supervisor
  Free,         \* a slot that is not in use (fd == 0)
  NumSlots,     \* IPC_MAX_LIST_SIZE                       (32 in the code)
  QueueLen,     \* datagrams the supervisor's socket holds
  Garbage,      \* values an uninitialised word of a message may have
  FreshIds,     \* whether two calls in progress never share a message id
  MaxCalls,     \* bound of the model: calls ever made
  MaxCrashes    \* bound of the model: crashes of the supervisor

\* Results of a request, as the reply carries them
Verdicts == {"OK", "NOK"}

None == "none"

\* A call that returns without an answer: PCD_STATUS_TIMEOUT, or one of the
\* statuses of a request that could not be sent
Failed == "failed"

Slots == 0 .. NumSlots - 1

ASSUME IpcAssumption ==
  /\ Server \notin Clients
  /\ Free \notin Clients \cup {Server}
  /\ NumSlots \in Nat \ {0}
  /\ QueueLen \in Nat
  /\ Garbage \subseteq Int
  /\ FreshIds \in BOOLEAN
  /\ MaxCalls \in Nat
  /\ MaxCrashes \in Nat

VARIABLES
  slot,     \* [Slots -> Clients, Server or Free]: whose socket path it holds
  owner,    \* [Slots -> BOOLEAN]: the slot's owner is CONFIG_PCD_OWNER_ID
  phase,    \* [Clients -> Phases]: where a client is in its call
  frame,    \* [Clients -> Frame]: the local variables of its call
  result,   \* [Clients -> results]: what the last call returned
  sock,     \* [Clients -> Seq(Reply)]: what is in the client's socket
  inbox,    \* Seq(Request): what is in the supervisor's socket
  pending,  \* requests kept as cookies until a process has died
  calls,    \* calls made so far
  srv,      \* the supervisor: up, down or starting
  pcdCtx,   \* its pcdContext
  children, \* clients that are children of the running supervisor
  crashes   \* crashes of the supervisor so far

table  == <<slot, owner>>
client == <<phase, result, calls>>
server == <<srv, pcdCtx, children, crashes>>
wires  == <<sock, inbox, pending>>
vars   == <<slot, owner, phase, frame, result, sock, inbox, pending, calls, srv,
            pcdCtx, children, crashes>>

Phases == {"idle", "lookup", "start", "send", "wait", "stop", "dead", "reaped"}

(***************************************************************************)
(* The locals of PCD_api_malloc_and_send are pcdCtx (dest), pcdTmpCtx      *)
(* (ctx) and msgId (id).  The number of the call and the answer the        *)
(* supervisor gave it are not in the code: they tell the calls of the      *)
(* model apart, and no guard looks at them.                                *)
(***************************************************************************)
Frame == [dest : Slots, ctx : Slots, id : Int, call : 0 .. MaxCalls,
          answer : Verdicts \cup {None}]

NoFrame == [dest |-> 0, ctx |-> 0, id |-> 0, call |-> 0, answer |-> None]

Request == [ctx : Slots, id : Int, call : 1 .. MaxCalls]
Reply   == [id : Int, call : 1 .. MaxCalls, retval : Verdicts]

\* PCD_api_init has run: the supervisor owns the first slot
Init ==
  /\ slot = [i \in Slots |-> IF i = 0 THEN Server ELSE Free]
  /\ owner = [i \in Slots |-> i = 0]
  /\ phase = [c \in Clients |-> "idle"]
  /\ frame = [c \in Clients |-> NoFrame]
  /\ result = [c \in Clients |-> None]
  /\ sock = [c \in Clients |-> <<>>]
  /\ inbox = <<>>
  /\ pending = {}
  /\ calls = 0
  /\ srv = "up"
  /\ pcdCtx = 0
  /\ children = Clients
  /\ crashes = 0

-----------------------------------------------------------------------------
(***************************************************************************)
(* The table.  Every access below is made under its lock.                  *)
(***************************************************************************)

FreeSlots == {i \in Slots : slot[i] = Free}

\* "Find an empty spot"
FirstFree == CHOOSE i \in FreeSlots : \A j \in FreeSlots : i <= j

\* IPC_start binds a socket and fills in the slot
IpcStart(p, i) ==
  /\ slot' = [slot EXCEPT ![i] = p]
  /\ owner' = [owner EXCEPT ![i] = FALSE]

\* IPC_stop of slot i
IpcStop(i) ==
  /\ slot' = [slot EXCEPT ![i] = Free]
  /\ owner' = [owner EXCEPT ![i] = FALSE]

\* IPC_get_context_by_owner: the first slot the supervisor owns
Owned == {i \in Slots : slot[i] # Free /\ owner[i]}

FirstOwned == CHOOSE i \in Owned : \A j \in Owned : i <= j

-----------------------------------------------------------------------------
(***************************************************************************)
(* PCD_api_malloc_and_send                                                 *)
(***************************************************************************)

\* A client calls the API
Begin(c) ==
  /\ phase[c] = "idle"
  /\ calls < MaxCalls
  /\ calls' = calls + 1
  /\ frame' = [frame EXCEPT ![c] = [NoFrame EXCEPT !.call = calls + 1]]
  /\ phase' = [phase EXCEPT ![c] = "lookup"]
  /\ result' = [result EXCEPT ![c] = None]
  /\ UNCHANGED <<table, server, wires>>

Lookup(c) ==
  /\ phase[c] = "lookup"
  /\ IF Owned = {}
     THEN /\ phase' = [phase EXCEPT ![c] = "idle"]
          /\ result' = [result EXCEPT ![c] = Failed]
          /\ frame' = [frame EXCEPT ![c] = NoFrame]
     ELSE /\ phase' = [phase EXCEPT ![c] = "start"]
          /\ frame' = [frame EXCEPT ![c].dest = FirstOwned]
          /\ UNCHANGED result
  /\ UNCHANGED <<table, server, wires, calls>>

\* IPC_start
Start(c) ==
  /\ phase[c] = "start"
  /\ FreeSlots # {}
  /\ IpcStart(c, FirstFree)
  /\ frame' = [frame EXCEPT ![c].ctx = FirstFree]
  /\ phase' = [phase EXCEPT ![c] = "send"]
  /\ UNCHANGED <<server, wires, result, calls>>

\* All slots are taken, or there is no socket to be had
StartFails(c) ==
  /\ phase[c] = "start"
  /\ phase' = [phase EXCEPT ![c] = "idle"]
  /\ frame' = [frame EXCEPT ![c] = NoFrame]
  /\ result' = [result EXCEPT ![c] = Failed]
  /\ UNCHANGED <<table, server, wires, calls>>

InCall(c) == phase[c] \in {"lookup", "start", "send", "wait"}

Waiting == {c \in Clients : phase[c] = "wait"}

\* The requests and the replies that are on their way
Requests == Range(inbox) \cup pending
Replies == UNION {Range(sock[c]) : c \in Clients}

\* Message ids of the calls in progress
IdsInUse ==
  {m.id : m \in Requests \cup Replies} \cup {frame[c].id : c \in Waiting}

\* IPC_alloc_msg: a message names its sender's slot
NewMsg(i, id, n) == [ctx |-> i, id |-> id, call |-> n]

\* IPC_send_msg fails when nobody listens at the destination and when the socket
\* there is full; it does not block
CanSend(i) ==
  /\ slot[i] = Server
  /\ srv # "down"
  /\ Len(inbox) < QueueLen

(***************************************************************************)
(* The message id is an uninitialised word less the slot's index.  The     *)
(* 32-bit difference is one-to-one for each slot, so its wrap is left out. *)
(***************************************************************************)
Send(c) ==
  /\ phase[c] = "send"
  /\ CanSend(frame[c].dest)
  /\ \E raw \in Garbage :
       LET id == raw - frame[c].ctx
       IN  /\ FreshIds => id \notin IdsInUse
           /\ frame' = [frame EXCEPT ![c].id = id]
           /\ inbox' = Append(inbox, NewMsg(frame[c].ctx, id, frame[c].call))
  /\ phase' = [phase EXCEPT ![c] = "wait"]
  /\ UNCHANGED <<table, server, sock, pending, result, calls>>

\* No memory for the message, or it cannot be sent
SendFails(c) ==
  /\ phase[c] = "send"
  /\ phase' = [phase EXCEPT ![c] = "stop"]
  /\ result' = [result EXCEPT ![c] = Failed]
  /\ UNCHANGED <<table, server, wires, frame, calls>>

\* What select in IPC_wait_msg waits for, until its time is up
Arrived(c) == sock[c] # <<>>

\* Mutant: the message id is not compared
IsOursMut(c, m) == TRUE

IsOurs(c, m) == m.id = frame[c].id

\* A message arrives: it ends the call if it has the right id, else it is
\* deleted and the client waits again
Receive(c) ==
  /\ phase[c] = "wait"
  /\ Arrived(c)
  /\ sock' = [sock EXCEPT ![c] = Tail(@)]
  /\ LET m == Head(sock[c])
     IN  IF IsOurs(c, m)
         THEN /\ phase' = [phase EXCEPT ![c] = "stop"]
              /\ result' = [result EXCEPT ![c] = m.retval]
         ELSE UNCHANGED <<phase, result>>
  /\ UNCHANGED <<table, server, inbox, pending, frame, calls>>

\* Mutant: the client waits for ever (IPC_TIMEOUT_FOREVER)
GiveUpMut(c) == FALSE /\ UNCHANGED vars

\* Nothing arrives in time
GiveUp(c) ==
  /\ phase[c] = "wait"
  /\ ~Arrived(c)
  /\ phase' = [phase EXCEPT ![c] = "stop"]
  /\ result' = [result EXCEPT ![c] = Failed]
  /\ UNCHANGED <<table, server, wires, frame, calls>>

\* "Delete temporary dest point": what is still in the socket is lost
Stop(c) ==
  /\ phase[c] = "stop"
  /\ IpcStop(frame[c].ctx)
  /\ frame' = [frame EXCEPT ![c] = NoFrame]
  /\ sock' = [sock EXCEPT ![c] = <<>>]
  /\ phase' = [phase EXCEPT ![c] = "idle"]
  /\ UNCHANGED <<server, inbox, pending, result, calls>>

\* The steps of a call that has begun
ClientStep(c) ==
  \/ Lookup(c) \/ Start(c) \/ StartFails(c) \/ Send(c) \/ SendFails(c)
  \/ Receive(c) \/ GiveUp(c) \/ Stop(c)

\* The client dies outside the table's lock; the kernel closes its socket
Crash(c) ==
  /\ phase[c] \notin {"dead", "reaped"}
  /\ phase' = [phase EXCEPT ![c] = "dead"]
  /\ frame' = [frame EXCEPT ![c] = NoFrame]
  /\ sock' = [sock EXCEPT ![c] = <<>>]
  /\ UNCHANGED <<table, server, inbox, pending, result, calls>>

-----------------------------------------------------------------------------
(***************************************************************************)
(* The supervisor: PCD_api_check_messages and PCD_api_reply_message.       *)
(***************************************************************************)

\* A client's socket exists from IPC_start to IPC_stop
Bound(c) == phase[c] \in {"send", "wait", "stop"}

\* Mutant: the reply is sent before its return value is set
AnswerMut(m, v) ==
  LET to == slot[m.ctx]
  IN  /\ frame' = frame
      /\ sock' = IF to \in Clients /\ Bound(to)
                 THEN [sock EXCEPT ![to] =
                        Append(@, [id |-> m.id, call |-> m.call, retval |-> None])]
                 ELSE sock

(***************************************************************************)
(* IPC_reply_msg: to the holder of the sender's slot, whoever that is now; *)
(* the reply is lost when there is none or it has no socket.  A slot of    *)
(* the supervisor's own is never a sender's.                               *)
(***************************************************************************)
Answer(m, v) ==
  LET to == slot[m.ctx]
  IN  /\ frame' = [c \in Clients |->
                     IF frame[c].call = m.call THEN [frame[c] EXCEPT !.answer = v]
                                               ELSE frame[c]]
      /\ sock' = IF to \in Clients /\ Bound(to)
                 THEN [sock EXCEPT ![to] =
                         Append(@, [id |-> m.id, call |-> m.call, retval |-> v])]
                 ELSE sock

\* A request that is answered at once
Serve(v) ==
  /\ srv = "up"
  /\ inbox # <<>>
  /\ inbox' = Tail(inbox)
  /\ Answer(Head(inbox), v)
  /\ UNCHANGED <<table, client, server, pending>>

\* A synchronous terminate that must wait for its process
ServeLater ==
  /\ srv = "up"
  /\ inbox # <<>>
  /\ inbox' = Tail(inbox)
  /\ pending' = pending \cup {Head(inbox)}
  /\ UNCHANGED <<table, client, frame, server, sock>>

\* No memory for the reply: the request is dropped before it is looked at
ServeNoMemory ==
  /\ srv = "up"
  /\ inbox # <<>>
  /\ inbox' = Tail(inbox)
  /\ UNCHANGED <<table, client, frame, server, sock, pending>>

\* Mutant: the cookie is kept after the reply
ServePendingMut(m, v) ==
  /\ srv = "up"
  /\ Answer(m, v)
  /\ UNCHANGED <<table, client, server, inbox, pending>>

\* PCD_api_reply_message, when the process has died
ServePending(m, v) ==
  /\ srv = "up"
  /\ pending' = pending \ {m}
  /\ Answer(m, v)
  /\ UNCHANGED <<table, client, server, inbox>>

\* The process object is freed without a reply, or there is no memory for one
DropPending(m) ==
  /\ srv = "up"
  /\ pending' = pending \ {m}
  /\ UNCHANGED <<table, client, frame, server, sock, inbox>>

\* Mutant: the pid of the slot is not compared
CleanupFirstMut(c) ==
  LET held == {i \in Slots : slot[i] # Free}
  IN  IF held = {} THEN UNCHANGED table
      ELSE IpcStop(CHOOSE i \in held : \A j \in held : i <= j)

\* Mutant: nothing is cleaned up
CleanupProcMut(c) == UNCHANGED table

\* IPC_cleanup_proc stops the first slot of the process and no other
CleanupProc(c) ==
  LET held == {i \in Slots : slot[i] = c}
  IN  IF held = {} THEN UNCHANGED table
      ELSE IpcStop(CHOOSE i \in held : \A j \in held : i <= j)

\* The supervisor buries a child of its own
ReapChild(c) ==
  /\ srv = "up"
  /\ phase[c] = "dead"
  /\ c \in children
  /\ CleanupProc(c)
  /\ phase' = [phase EXCEPT ![c] = "reaped"]
  /\ children' = children \ {c}
  /\ UNCHANGED <<wires, frame, result, calls, srv, pcdCtx, crashes>>

\* A new process of the same rule is started
Respawn(c) ==
  /\ srv = "up"
  /\ phase[c] = "reaped"
  /\ phase' = [phase EXCEPT ![c] = "idle"]
  /\ children' = children \cup {c}
  /\ UNCHANGED <<table, wires, frame, result, calls, srv, pcdCtx, crashes>>

\* The supervisor is killed: its slot stays, its socket and its children go
PcdDies ==
  /\ srv # "down"
  /\ crashes < MaxCrashes
  /\ crashes' = crashes + 1
  /\ srv' = "down"
  /\ inbox' = <<>>
  /\ pending' = {}
  /\ children' = {}
  /\ UNCHANGED <<table, client, frame, sock, pcdCtx>>

\* A new supervisor: IPC_start finds the old socket's path, unlinks it and
\* binds it again
PcdStarts ==
  /\ srv = "down"
  /\ FreeSlots # {}
  /\ IpcStart(Server, FirstFree)
  /\ pcdCtx' = FirstFree
  /\ srv' = "starting"
  /\ UNCHANGED <<client, frame, wires, children, crashes>>

\* IPC_set_owner
PcdOwns ==
  /\ srv = "starting"
  /\ owner' = [owner EXCEPT ![pcdCtx] = TRUE]
  /\ srv' = "up"
  /\ UNCHANGED <<slot, client, frame, wires, pcdCtx, children, crashes>>

ServerStep ==
  \/ \E v \in Verdicts : Serve(v) \/ \E m \in pending : ServePending(m, v)
  \/ ServeLater
  \/ ServeNoMemory
  \/ \E m \in pending : DropPending(m)
  \/ PcdStarts
  \/ PcdOwns

Next ==
  \/ \E c \in Clients : \/ Begin(c) \/ ClientStep(c) \/ Crash(c)
                        \/ ReapChild(c) \/ Respawn(c)
  \/ ServerStep
  \/ PcdDies

Spec == Init /\ [][Next]_vars

\* A client that runs goes on with its call.  Nothing is assumed of the
\* supervisor: it may never answer.
FairSpec == Spec /\ \A c \in Clients : WF_vars(ClientStep(c))

-----------------------------------------------------------------------------
\* Every variable has the type the code declares for it.
TypeOK ==
  /\ slot \in [Slots -> Clients \cup {Server, Free}]
  /\ owner \in [Slots -> BOOLEAN]
  /\ phase \in [Clients -> Phases]
  /\ frame \in [Clients -> Frame]
  /\ result \in [Clients -> Verdicts \cup {None, Failed}]
  /\ sock \in [Clients -> Seq(Reply)]
  /\ inbox \in Seq(Request)
  /\ pending \in SUBSET Request
  /\ calls \in 0 .. MaxCalls
  /\ srv \in {"up", "down", "starting"}
  /\ pcdCtx \in Slots
  /\ children \in SUBSET Clients
  /\ crashes \in 0 .. MaxCrashes

\* The table and the clients agree: a client with a socket holds the slot it
\* thinks it holds, no client has two slots, and a slot in a client's name is
\* that of a client with a socket or of a dead one.  So nobody is written over,
\* and the one slot IPC_cleanup_proc frees is all a dead child has left behind.
SlotIsHeld ==
  /\ \A c \in Clients : Bound(c) => slot[frame[c].ctx] = c
  /\ \A i, j \in Slots : slot[i] \in Clients /\ slot[i] = slot[j] => i = j
  /\ \A i \in Slots : slot[i] \in Clients =>
       Bound(slot[i]) \/ phase[slot[i]] = "dead"

\* The supervisor can be found while it is up, and the slot a client has looked
\* up still leads to it when the client sends, even when the supervisor has
\* died and come back in between: the slot of the old one stays in the table
\* and has the path of the new one's socket.
ServerIsFound ==
  /\ srv = "up" => Owned # {}
  /\ \A i \in Owned : slot[i] = Server
  /\ \A c \in Clients : phase[c] \in {"start", "send"} =>
       slot[frame[c].dest] = Server

\* A call that returns an answer returns the answer the supervisor gave to that
\* very call, not the late one to a call of another client, or of its own, that
\* had given up and whose slot it now holds.
ReplyIsOwn ==
  \A c \in Clients :
    phase[c] = "stop" =>
      \/ result[c] = Failed
      \/ result[c] \in Verdicts /\ frame[c].answer = result[c]

(***************************************************************************)
(* The parts of the inductive invariant ReplyIsOwn rests on.               *)
(***************************************************************************)

\* The supervisor's slot is its own while it lives.
ServerKeepsSlot ==
  /\ srv # "down" => slot[pcdCtx] = Server
  /\ srv = "up" => owner[pcdCtx]

\* A call in progress has its number.
CallsAreNumbered == \A c \in Clients : InCall(c) => frame[c].call > 0

\* The numbers of the calls in progress are distinct and have been given out,
\* and so have those of the messages on their way.
CallsAreDistinct ==
  /\ \A c \in Clients : frame[c].call <= calls
  /\ \A c, d \in Clients : frame[c].call = frame[d].call => c = d \/ frame[c].call = 0
  /\ \A m \in Requests \cup Replies : m.call \in 1 .. calls

\* A call that has not been sent has no message on its way and no answer.
UnsentIsSilent ==
  \A c \in Clients : phase[c] \in {"lookup", "start", "send"} =>
    /\ frame[c].answer = None
    /\ \A m \in Requests \cup Replies : m.call # frame[c].call

\* A request is in the system once.
RequestIsUnique ==
  /\ \A i, j \in DOMAIN inbox : inbox[i].call = inbox[j].call => i = j
  /\ \A i \in DOMAIN inbox, m \in pending : inbox[i].call # m.call
  /\ \A m, n \in pending : m.call = n.call => m = n

\* A request on its way has not been answered; a reply on its way carries the
\* answer.
AnswersAreKnown ==
  \A c \in Clients :
    /\ \A m \in Requests : m.call = frame[c].call => frame[c].answer = None
    /\ \A m \in Replies : m.call = frame[c].call => frame[c].answer = m.retval

\* A message with the id a client waits for is a message of that client's call.
IdsAreDistinct ==
  \A c \in Waiting, m \in Requests \cup Replies :
    m.id = frame[c].id => m.call = frame[c].call

AnswerInv ==
  /\ CallsAreNumbered
  /\ CallsAreDistinct
  /\ UnsentIsSilent
  /\ RequestIsUnique
  /\ AnswersAreKnown
  /\ IdsAreDistinct
  /\ ReplyIsOwn

-----------------------------------------------------------------------------
(***************************************************************************)
(* The exchange implements a plain remote call (PcdCall).  A call counts   *)
(* as answered from the moment the supervisor sends the reply, and is over *)
(* for the caller when its result is known.                                *)
(***************************************************************************)
Stage ==
  [c \in Clients |-> IF InCall(c) THEN "called"
                     ELSE IF phase[c] \in {"dead", "reaped"} THEN "dead" ELSE "idle"]

AnswerSeen == [c \in Clients |-> IF InCall(c) THEN frame[c].answer ELSE None]

Remote == INSTANCE PcdCall WITH stage <- Stage, answer <- AnswerSeen, result <- result

\* Every call is answered at most once, and returns that answer or a failure.
ImplementsRemoteCall == Remote!Spec

\* A call returns whatever the supervisor does: the wait for the reply is
\* bounded although every message with a wrong id starts it anew.
CallEnds ==
  \A c \in Clients : InCall(c) ~> phase[c] \in {"idle", "dead"}
=============================================================================

---------------------------- MODULE PcdIpcProofs ----------------------------
(***************************************************************************)
(* The exchange between clients and supervisor, proved for any number of   *)
(* clients, slots, calls and crashes.                                      *)
(***************************************************************************)
EXTENDS PcdIpc, SequenceTheorems, WellFoundedInduction, TLAPS

-----------------------------------------------------------------------------
(***************************************************************************)
(* The table.                                                              *)
(***************************************************************************)

\* A search of the table from its start ends at the first match.
LEMMA LeastExists ==
  ASSUME NEW S \in SUBSET Slots, S # {}
  PROVE  (CHOOSE i \in S : \A j \in S : i <= j) \in S
<1>1. S \in SUBSET Nat
  BY IpcAssumption DEF Slots
<1>2. \E x \in S : \A y \in S : ~(<<y, x>> \in OpToRel(<, Nat))
  BY <1>1, WFMin, NatLessThanWellFounded
<1>3. PICK x \in S : \A y \in S : ~(<<y, x>> \in OpToRel(<, Nat))
  BY <1>2
<1>4. ASSUME NEW y \in S PROVE x <= y
  <2>1. y \in Nat /\ x \in Nat
    BY <1>1
  <2>2. ~(y < x)
    BY <1>3, <2>1, Zenon DEF OpToRel
  <2> QED
    BY <2>1, <2>2
<1> QED
  BY <1>4

\* IPC_start takes a slot of the table that nobody holds.
LEMMA FirstFreeIsFree ==
  ASSUME FreeSlots # {}
  PROVE  FirstFree \in Slots /\ slot[FirstFree] = Free
<1>1. FreeSlots \in SUBSET Slots
  BY DEF FreeSlots
<1>2. FirstFree \in FreeSlots
  BY <1>1, LeastExists DEF FirstFree
<1> QED
  BY <1>2 DEF FreeSlots

\* IPC_get_context_by_owner returns a slot in use whose owner was set.
LEMMA FirstOwnedIsOwned ==
  ASSUME Owned # {}
  PROVE  FirstOwned \in Slots /\ FirstOwned \in Owned
<1>1. Owned \in SUBSET Slots
  BY DEF Owned
<1>2. FirstOwned \in Owned
  BY <1>1, LeastExists DEF FirstOwned
<1> QED
  BY <1>1, <1>2

\* IPC_cleanup_proc stops one slot of the process, or finds none.
LEMMA CleanupCases ==
  ASSUME NEW c \in Clients, CleanupProc(c)
  PROVE  \/ \E i \in Slots : slot[i] = c /\ IpcStop(i)
         \/ (\A i \in Slots : slot[i] # c) /\ UNCHANGED table
<1> DEFINE held == {i \in Slots : slot[i] = c}
<1>1. CASE held = {}
  BY <1>1 DEF CleanupProc
<1>2. CASE held # {}
  <2>1. held \in SUBSET Slots
    OBVIOUS
  <2>2. (CHOOSE i \in held : \A j \in held : i <= j) \in held
    <3> HIDE DEF held
    <3> QED
      BY <1>2, <2>1, LeastExists
  <2>3. IpcStop(CHOOSE i \in held : \A j \in held : i <= j)
    BY <1>2 DEF CleanupProc
  <2> QED
    BY <2>2, <2>3
<1> QED
  BY <1>1, <1>2

-----------------------------------------------------------------------------
(***************************************************************************)
(* Types.                                                                  *)
(***************************************************************************)

\* A reply goes to a socket as a reply, and the answer is noted as one.
LEMMA AnswerType ==
  ASSUME TypeOK, NEW m \in Request, NEW v \in Verdicts, Answer(m, v)
  PROVE  /\ frame' \in [Clients -> Frame]
         /\ sock' \in [Clients -> Seq(Reply)]
<1> DEFINE rep == [id |-> m.id, call |-> m.call, retval |-> v]
           to == slot[m.ctx]
<1>1. frame \in [Clients -> Frame] /\ sock \in [Clients -> Seq(Reply)]
  BY DEF TypeOK
<1>2. ASSUME NEW c \in Clients PROVE [frame[c] EXCEPT !.answer = v] \in Frame
  BY <1>1 DEF Frame
<1>3. frame' \in [Clients -> Frame]
  BY <1>1, <1>2 DEF Answer
<1>4. rep \in Reply
  BY DEF Request, Reply
<1>5. CASE to \in Clients /\ Bound(to)
  <2>1. sock' = [sock EXCEPT ![to] = Append(sock[to], rep)]
    BY <1>5 DEF Answer
  <2>2. Append(sock[to], rep) \in Seq(Reply)
    <3>1. sock[to] \in Seq(Reply)
      BY <1>1, <1>5
    <3> HIDE DEF rep, to
    <3> QED
      BY <1>4, <3>1
  <2> HIDE DEF rep, to
  <2> QED
    BY <1>1, <1>3, <1>5, <2>1, <2>2
<1>6. CASE ~(to \in Clients /\ Bound(to))
  BY <1>1, <1>3, <1>6 DEF Answer
<1> QED
  BY <1>5, <1>6

\* IPC_start and IPC_stop leave a table.
LEMMA TableType ==
  ASSUME TypeOK, NEW i \in Slots, NEW p \in Clients \cup {Server},
         IpcStart(p, i) \/ IpcStop(i)
  PROVE  /\ slot' \in [Slots -> Clients \cup {Server, Free}]
         /\ owner' \in [Slots -> BOOLEAN]
<1>1. slot \in [Slots -> Clients \cup {Server, Free}] /\ owner \in [Slots -> BOOLEAN]
  BY DEF TypeOK
<1> QED
  BY <1>1 DEF IpcStart, IpcStop

\* The supervisor's socket and the cookies hold requests.
LEMMA InboxType ==
  ASSUME TypeOK, inbox # <<>>
  PROVE  Head(inbox) \in Request /\ Tail(inbox) \in Seq(Request)
<1>1. inbox \in Seq(Request)
  BY DEF TypeOK
<1> QED
  BY <1>1, HeadTailProperties

LEMMA InitType == Init => TypeOK
<1> SUFFICES ASSUME Init PROVE TypeOK
  OBVIOUS
<1>1. 0 \in Slots /\ 0 \in Int /\ 0 \in 0 .. MaxCalls /\ 0 \in 0 .. MaxCrashes
  BY IpcAssumption DEF Slots
<1>2. NoFrame \in Frame
  BY <1>1 DEF NoFrame, Frame
<1>3. slot \in [Slots -> Clients \cup {Server, Free}] /\ owner \in [Slots -> BOOLEAN]
  BY DEF Init
<1>4. phase \in [Clients -> Phases] /\ frame \in [Clients -> Frame]
  BY <1>2 DEF Init, Phases
<1>5. result \in [Clients -> Verdicts \cup {None, Failed}]
  BY DEF Init
<1>6. sock \in [Clients -> Seq(Reply)] /\ inbox \in Seq(Request)
  BY DEF Init
<1>7. pending \in SUBSET Request /\ children \in SUBSET Clients
  BY DEF Init
<1> QED
  BY <1>1, <1>3, <1>4, <1>5, <1>6, <1>7 DEF Init, TypeOK

\* A step of the frame of a call: the call begins, ends, or sets one local.
LEMMA FrameType ==
  ASSUME TypeOK, NEW c \in Clients, NEW f \in Frame, frame' = [frame EXCEPT ![c] = f]
  PROVE  frame' \in [Clients -> Frame]
BY DEF TypeOK

LEMMA PhaseType ==
  ASSUME TypeOK, NEW c \in Clients, NEW s \in Phases, phase' = [phase EXCEPT ![c] = s]
  PROVE  phase' \in [Clients -> Phases]
BY DEF TypeOK

LEMMA ResultType ==
  ASSUME TypeOK, NEW c \in Clients, NEW v \in Verdicts \cup {None, Failed},
         result' = [result EXCEPT ![c] = v]
  PROVE  result' \in [Clients -> Verdicts \cup {None, Failed}]
BY DEF TypeOK

LEMMA NoFrameType == NoFrame \in Frame
<1>1. 0 \in Slots /\ 0 \in Int /\ 0 \in 0 .. MaxCalls
  BY IpcAssumption DEF Slots
<1> QED
  BY <1>1 DEF NoFrame, Frame

\* What is sent, with the message id it gets.
LEMMA SendShape ==
  ASSUME TypeOK, NEW c \in Clients, Send(c)
  PROVE  \E id \in Int :
           /\ FreshIds => id \notin IdsInUse
           /\ frame' = [frame EXCEPT ![c] = [frame[c] EXCEPT !.id = id]]
           /\ inbox' = Append(inbox, NewMsg(frame[c].ctx, id, frame[c].call))
<1>1. frame[c].ctx \in Int
  BY IpcAssumption DEF TypeOK, Frame, Slots
<1>2. PICK raw \in Garbage :
        /\ FreshIds => raw - frame[c].ctx \notin IdsInUse
        /\ frame' = [frame EXCEPT ![c].id = raw - frame[c].ctx]
        /\ inbox' = Append(inbox, NewMsg(frame[c].ctx, raw - frame[c].ctx, frame[c].call))
  BY DEF Send
<1>3. raw - frame[c].ctx \in Int
  BY <1>1, IpcAssumption
<1> QED
  BY <1>2, <1>3

\* Every step of a client keeps the types.
LEMMA ClientType ==
  ASSUME TypeOK, CallsAreNumbered, NEW c \in Clients, Begin(c) \/ ClientStep(c) \/ Crash(c)
  PROVE  TypeOK'
<1>1. frame[c] \in Frame /\ calls \in 0 .. MaxCalls
  BY DEF TypeOK
<1>2. CASE Begin(c)
  <2>1. calls + 1 \in 0 .. MaxCalls
    BY <1>1, <1>2, IpcAssumption DEF Begin
  <2>2. [NoFrame EXCEPT !.call = calls + 1] \in Frame
    BY <2>1, NoFrameType DEF Frame
  <2>3. frame' \in [Clients -> Frame]
    BY <1>2, <2>2, FrameType DEF Begin
  <2>4. phase' \in [Clients -> Phases]
    BY <1>2, PhaseType DEF Begin, Phases
  <2>5. result' \in [Clients -> Verdicts \cup {None, Failed}]
    BY <1>2, ResultType DEF Begin
  <2> QED
    BY <1>2, <2>1, <2>3, <2>4, <2>5 DEF Begin, TypeOK, table, server, wires
<1>3. CASE Lookup(c)
  <2>1. CASE Owned = {}
    <3>1. frame' \in [Clients -> Frame]
      BY <1>3, <2>1, NoFrameType, FrameType DEF Lookup
    <3>2. phase' \in [Clients -> Phases]
      BY <1>3, <2>1, PhaseType DEF Lookup, Phases
    <3>3. result' \in [Clients -> Verdicts \cup {None, Failed}]
      BY <1>3, <2>1, ResultType DEF Lookup
    <3> QED
      BY <1>3, <3>1, <3>2, <3>3 DEF Lookup, TypeOK, table, server, wires
  <2>2. CASE Owned # {}
    <3>1. FirstOwned \in Slots
      BY <2>2, FirstOwnedIsOwned
    <3>2. [frame[c] EXCEPT !.dest = FirstOwned] \in Frame
      BY <1>1, <3>1 DEF Frame
    <3>3. frame' = [frame EXCEPT ![c] = [frame[c] EXCEPT !.dest = FirstOwned]]
      BY <1>3, <2>2 DEF Lookup
    <3>4. frame' \in [Clients -> Frame]
      BY <3>2, <3>3, FrameType
    <3>5. phase' \in [Clients -> Phases]
      BY <1>3, <2>2, PhaseType DEF Lookup, Phases
    <3> QED
      BY <1>3, <2>2, <3>4, <3>5 DEF Lookup, TypeOK, table, server, wires
  <2> QED
    BY <2>1, <2>2
<1>4. CASE Start(c)
  <2>1. FirstFree \in Slots
    BY <1>4, FirstFreeIsFree DEF Start
  <2>2. [frame[c] EXCEPT !.ctx = FirstFree] \in Frame
    BY <1>1, <2>1 DEF Frame
  <2>3. frame' = [frame EXCEPT ![c] = [frame[c] EXCEPT !.ctx = FirstFree]]
    BY <1>4 DEF Start
  <2>4. frame' \in [Clients -> Frame]
    BY <2>2, <2>3, FrameType
  <2>5. phase' \in [Clients -> Phases]
    BY <1>4, PhaseType DEF Start, Phases
  <2>6. slot' \in [Slots -> Clients \cup {Server, Free}] /\ owner' \in [Slots -> BOOLEAN]
    BY <1>4, <2>1, TableType DEF Start
  <2> QED
    BY <1>4, <2>4, <2>5, <2>6 DEF Start, TypeOK, server, wires
<1>5. CASE StartFails(c)
  <2>1. frame' \in [Clients -> Frame]
    BY <1>5, NoFrameType, FrameType DEF StartFails
  <2>2. phase' \in [Clients -> Phases]
    BY <1>5, PhaseType DEF StartFails, Phases
  <2>3. result' \in [Clients -> Verdicts \cup {None, Failed}]
    BY <1>5, ResultType DEF StartFails
  <2> QED
    BY <1>5, <2>1, <2>2, <2>3 DEF StartFails, TypeOK, table, server, wires
<1>6. CASE Send(c)
  <2>1. PICK id \in Int :
          /\ frame' = [frame EXCEPT ![c] = [frame[c] EXCEPT !.id = id]]
          /\ inbox' = Append(inbox, NewMsg(frame[c].ctx, id, frame[c].call))
    BY <1>6, SendShape
  <2>2. [frame[c] EXCEPT !.id = id] \in Frame
    BY <1>1 DEF Frame
  <2>3. frame' \in [Clients -> Frame]
    BY <2>1, <2>2, FrameType
  <2>4. frame[c].call \in 1 .. MaxCalls
    BY <1>1, <1>6, IpcAssumption DEF Send, CallsAreNumbered, InCall, Frame
  <2>5. NewMsg(frame[c].ctx, id, frame[c].call) \in Request
    BY <1>1, <2>4 DEF NewMsg, Request, Frame
  <2>6. inbox' \in Seq(Request)
    BY <2>1, <2>5 DEF TypeOK
  <2>7. phase' \in [Clients -> Phases]
    BY <1>6, PhaseType DEF Send, Phases
  <2> QED
    BY <1>6, <2>3, <2>6, <2>7 DEF Send, TypeOK, table, server
<1>7. CASE SendFails(c)
  <2>1. phase' \in [Clients -> Phases]
    BY <1>7, PhaseType DEF SendFails, Phases
  <2>2. result' \in [Clients -> Verdicts \cup {None, Failed}]
    BY <1>7, ResultType DEF SendFails
  <2> QED
    BY <1>7, <2>1, <2>2 DEF SendFails, TypeOK, table, server, wires
<1>8. CASE Receive(c)
  <2>1. sock \in [Clients -> Seq(Reply)] /\ sock[c] # <<>>
    BY <1>8 DEF TypeOK, Receive, Arrived
  <2>2. Head(sock[c]) \in Reply /\ Tail(sock[c]) \in Seq(Reply)
    BY <2>1, HeadTailProperties
  <2>3. sock' \in [Clients -> Seq(Reply)]
    BY <1>8, <2>1, <2>2 DEF Receive
  <2>4. Head(sock[c]).retval \in Verdicts
    BY <2>2 DEF Reply
  <2>5. CASE IsOurs(c, Head(sock[c]))
    <3>1. phase' \in [Clients -> Phases]
      BY <1>8, <2>5, PhaseType DEF Receive, Phases
    <3>2. result' = [result EXCEPT ![c] = Head(sock[c]).retval]
      BY <1>8, <2>5 DEF Receive
    <3>3. result' \in [Clients -> Verdicts \cup {None, Failed}]
      BY <2>4, <3>2, ResultType
    <3> QED
      BY <1>8, <2>3, <3>1, <3>3 DEF Receive, TypeOK, table, server
  <2>6. CASE ~IsOurs(c, Head(sock[c]))
    BY <1>8, <2>3, <2>6 DEF Receive, TypeOK, table, server
  <2> QED
    BY <2>5, <2>6
<1>9. CASE GiveUp(c)
  <2>1. phase' \in [Clients -> Phases]
    BY <1>9, PhaseType DEF GiveUp, Phases
  <2>2. result' \in [Clients -> Verdicts \cup {None, Failed}]
    BY <1>9, ResultType DEF GiveUp
  <2> QED
    BY <1>9, <2>1, <2>2 DEF GiveUp, TypeOK, table, server, wires
<1>10. CASE Stop(c)
  <2>1. frame[c].ctx \in Slots
    BY <1>1 DEF Frame
  <2>2. slot' \in [Slots -> Clients \cup {Server, Free}] /\ owner' \in [Slots -> BOOLEAN]
    BY <1>10, <2>1, TableType DEF Stop
  <2>3. frame' \in [Clients -> Frame]
    BY <1>10, NoFrameType, FrameType DEF Stop
  <2>4. phase' \in [Clients -> Phases]
    BY <1>10, PhaseType DEF Stop, Phases
  <2>5. sock' \in [Clients -> Seq(Reply)]
    BY <1>10 DEF Stop, TypeOK
  <2> QED
    BY <1>10, <2>2, <2>3, <2>4, <2>5 DEF Stop, TypeOK, server
<1>11. CASE Crash(c)
  <2>1. frame' \in [Clients -> Frame]
    BY <1>11, NoFrameType, FrameType DEF Crash
  <2>2. phase' \in [Clients -> Phases]
    BY <1>11, PhaseType DEF Crash, Phases
  <2>3. sock' \in [Clients -> Seq(Reply)]
    BY <1>11 DEF Crash, TypeOK
  <2> QED
    BY <1>11, <2>1, <2>2, <2>3 DEF Crash, TypeOK, table, server
<1> QED
  BY <1>2, <1>3, <1>4, <1>5, <1>6, <1>7, <1>8, <1>9, <1>10, <1>11 DEF ClientStep

\* Every step of the supervisor keeps the types.
LEMMA ServerType ==
  ASSUME TypeOK,
         ServerStep \/ PcdDies \/ \E c \in Clients : ReapChild(c) \/ Respawn(c)
  PROVE  TypeOK'
<1>1. CASE \E v \in Verdicts : Serve(v)
  <2>1. PICK v \in Verdicts : Serve(v)
    BY <1>1
  <2>2. Head(inbox) \in Request /\ inbox' \in Seq(Request)
    BY <2>1, InboxType DEF Serve
  <2>3. frame' \in [Clients -> Frame] /\ sock' \in [Clients -> Seq(Reply)]
    BY <2>1, <2>2, AnswerType DEF Serve
  <2> QED
    BY <2>1, <2>2, <2>3 DEF Serve, TypeOK, table, client, server
<1>2. CASE \E v \in Verdicts, m \in pending : ServePending(m, v)
  <2>1. PICK v \in Verdicts, m \in pending : ServePending(m, v)
    BY <1>2
  <2>2. m \in Request
    BY DEF TypeOK
  <2>3. frame' \in [Clients -> Frame] /\ sock' \in [Clients -> Seq(Reply)]
    BY <2>1, <2>2, AnswerType DEF ServePending
  <2>4. pending' \in SUBSET Request
    BY <2>1 DEF ServePending, TypeOK
  <2> QED
    BY <2>1, <2>3, <2>4 DEF ServePending, TypeOK, table, client, server
<1>3. CASE ServeLater
  <2>1. Head(inbox) \in Request /\ inbox' \in Seq(Request)
    BY <1>3, InboxType DEF ServeLater
  <2>2. pending' \in SUBSET Request
    BY <1>3, <2>1 DEF ServeLater, TypeOK
  <2> QED
    BY <1>3, <2>1, <2>2 DEF ServeLater, TypeOK, table, client, server
<1>4. CASE ServeNoMemory
  <2>1. inbox' \in Seq(Request)
    BY <1>4, InboxType DEF ServeNoMemory
  <2> QED
    BY <1>4, <2>1 DEF ServeNoMemory, TypeOK, table, client, server
<1>5. CASE \E m \in pending : DropPending(m)
  <2>1. pending' \in SUBSET Request
    BY <1>5 DEF DropPending, TypeOK
  <2> QED
    BY <1>5, <2>1 DEF DropPending, TypeOK, table, client, server
<1>6. CASE PcdStarts
  <2>1. FirstFree \in Slots
    BY <1>6, FirstFreeIsFree DEF PcdStarts
  <2>2. slot' \in [Slots -> Clients \cup {Server, Free}] /\ owner' \in [Slots -> BOOLEAN]
    BY <1>6, <2>1, TableType DEF PcdStarts
  <2> QED
    BY <1>6, <2>1, <2>2 DEF PcdStarts, TypeOK, client, wires
<1>7. CASE PcdOwns
  <2>1. owner' \in [Slots -> BOOLEAN]
    BY <1>7 DEF PcdOwns, TypeOK
  <2> QED
    BY <1>7, <2>1 DEF PcdOwns, TypeOK, client, wires
<1>8. CASE PcdDies
  <2>1. crashes' \in 0 .. MaxCrashes
    BY <1>8, IpcAssumption DEF PcdDies, TypeOK
  <2>2. inbox' \in Seq(Request) /\ pending' \in SUBSET Request /\ children' \in SUBSET Clients
    BY <1>8 DEF PcdDies
  <2> QED
    BY <1>8, <2>1, <2>2 DEF PcdDies, TypeOK, table, client
<1>9. ASSUME NEW c \in Clients, ReapChild(c) PROVE TypeOK'
  <2>1. slot' \in [Slots -> Clients \cup {Server, Free}] /\ owner' \in [Slots -> BOOLEAN]
    <3>1. CASE UNCHANGED table
      BY <3>1 DEF TypeOK, table
    <3>2. CASE \E i \in Slots : IpcStop(i)
      BY <3>2, TableType
    <3> QED
      BY <1>9, <3>1, <3>2, CleanupCases DEF ReapChild
  <2>2. phase' \in [Clients -> Phases]
    BY <1>9, PhaseType DEF ReapChild, Phases
  <2>3. children' \in SUBSET Clients
    BY <1>9 DEF ReapChild, TypeOK
  <2> QED
    BY <1>9, <2>1, <2>2, <2>3 DEF ReapChild, TypeOK, wires
<1>10. ASSUME NEW c \in Clients, Respawn(c) PROVE TypeOK'
  <2>1. phase' \in [Clients -> Phases]
    BY <1>10, PhaseType DEF Respawn, Phases
  <2>2. children' \in SUBSET Clients
    BY <1>10 DEF Respawn, TypeOK
  <2> QED
    BY <1>10, <2>1, <2>2 DEF Respawn, TypeOK, table, wires
<1> QED
  BY <1>1, <1>2, <1>3, <1>4, <1>5, <1>6, <1>7, <1>8, <1>9, <1>10 DEF ServerStep

\* What a step of a call, and what any other step, does to the number of a call.
LEMMA NumberedStep ==
  ASSUME TypeOK, CallsAreNumbered, Next
  PROVE  CallsAreNumbered'
<1> SUFFICES ASSUME NEW d \in Clients, InCall(d)' PROVE frame'[d].call > 0
  BY DEF CallsAreNumbered
<1>t. frame \in [Clients -> Frame] /\ phase \in [Clients -> Phases] /\ calls \in Nat
  BY IpcAssumption DEF TypeOK
<1>h. InCall(d) => frame[d].call > 0
  BY DEF CallsAreNumbered
<1>1. ASSUME NEW c \in Clients, Begin(c) PROVE frame'[d].call > 0
  BY <1>t, <1>h, <1>1 DEF Begin, InCall, Frame, NoFrame
<1>2. ASSUME NEW c \in Clients, Lookup(c) PROVE frame'[d].call > 0
  BY <1>t, <1>h, <1>2 DEF Lookup, InCall, Frame, NoFrame
<1>3. ASSUME NEW c \in Clients, Start(c) \/ StartFails(c) PROVE frame'[d].call > 0
  BY <1>t, <1>h, <1>3 DEF Start, StartFails, InCall, Frame, NoFrame
<1>4. ASSUME NEW c \in Clients, Send(c) \/ SendFails(c) PROVE frame'[d].call > 0
  <2>1. CASE Send(c)
    <3>1. PICK id : frame' = [frame EXCEPT ![c] = [frame[c] EXCEPT !.id = id]]
      BY <2>1, SendShape
    <3>2. InCall(d)
      BY <1>t, <2>1 DEF Send, InCall
    <3>3. frame'[d].call = frame[d].call
      BY <1>t, <3>1 DEF Frame
    <3> QED
      BY <1>h, <3>2, <3>3
  <2>2. CASE SendFails(c)
    BY <1>t, <1>h, <2>2 DEF SendFails, InCall
  <2> QED
    BY <1>4, <2>1, <2>2
<1>5. ASSUME NEW c \in Clients, Receive(c) \/ GiveUp(c) PROVE frame'[d].call > 0
  BY <1>t, <1>h, <1>5 DEF Receive, GiveUp, wires, InCall, Frame, NoFrame
<1>6. ASSUME NEW c \in Clients, Stop(c) \/ Crash(c) PROVE frame'[d].call > 0
  BY <1>t, <1>h, <1>6 DEF Stop, Crash, InCall, Frame, NoFrame
<1>7. ASSUME NEW c \in Clients, ReapChild(c) \/ Respawn(c) PROVE frame'[d].call > 0
  BY <1>t, <1>h, <1>7 DEF ReapChild, Respawn, InCall
<1>8. ASSUME NEW m, NEW v, Answer(m, v), phase' = phase PROVE frame'[d].call > 0
  BY <1>t, <1>h, <1>8 DEF Answer, InCall, Frame
<1>9. CASE ServerStep \/ PcdDies
  BY <1>h, <1>8, <1>9 DEF ServerStep, Serve, ServePending, ServeLater, ServeNoMemory,
    DropPending, PcdStarts, PcdOwns, PcdDies, InCall, client
<1> QED
  BY <1>1, <1>2, <1>3, <1>4, <1>5, <1>6, <1>7, <1>9 DEF Next, ClientStep

LEMMA TypeInvariant == Spec => [](TypeOK /\ CallsAreNumbered)
<1> DEFINE I == TypeOK /\ CallsAreNumbered
<1>1. Init => I
  BY InitType DEF Init, CallsAreNumbered, InCall
<1>2. I /\ [Next]_vars => I'
  <2> SUFFICES ASSUME TypeOK, CallsAreNumbered, [Next]_vars PROVE I'
    OBVIOUS
  <2>1. CASE Next
    BY <2>1, ClientType, ServerType, NumberedStep DEF Next
  <2>2. CASE UNCHANGED vars
    BY <2>2 DEF vars, TypeOK, CallsAreNumbered, InCall
  <2> QED
    BY <2>1, <2>2
<1> QED
  BY <1>1, <1>2, PTL DEF Spec

\* The types hold whatever the clients, the supervisor and their deaths do.
THEOREM IpcTypeCorrect == Spec => []TypeOK
BY TypeInvariant, PTL

-----------------------------------------------------------------------------
(***************************************************************************)
(* The table and its users.                                                *)
(***************************************************************************)

TableInv == SlotIsHeld /\ ServerIsFound /\ ServerKeepsSlot

LEMMA TableInit == Init => TableInv
<1> SUFFICES ASSUME Init PROVE TableInv
  OBVIOUS
<1>1. 0 \in Slots
  BY IpcAssumption DEF Slots
<1>2. slot[0] = Server /\ owner[0] /\ \A i \in Slots : i # 0 => slot[i] = Free /\ ~owner[i]
  BY <1>1 DEF Init
<1>3. \A i \in Slots : slot[i] \notin Clients
  BY <1>1, <1>2, IpcAssumption
<1>4. SlotIsHeld
  BY <1>3 DEF Init, SlotIsHeld, Bound
<1>5. ServerIsFound
  <2>1. 0 \in Owned /\ \A i \in Owned : i = 0
    BY <1>1, <1>2, IpcAssumption DEF Owned
  <2> QED
    BY <1>2, <2>1 DEF Init, ServerIsFound
<1>6. ServerKeepsSlot
  BY <1>2 DEF Init, ServerKeepsSlot
<1> QED
  BY <1>4, <1>5, <1>6 DEF TableInv

LEMMA TableClient ==
  ASSUME TypeOK, TableInv, NEW c \in Clients, Begin(c) \/ ClientStep(c) \/ Crash(c)
  PROVE  TableInv'
<1> USE DEF TableInv, SlotIsHeld, ServerIsFound, ServerKeepsSlot, Bound, Owned
<1>t. /\ slot \in [Slots -> Clients \cup {Server, Free}]
      /\ owner \in [Slots -> BOOLEAN]
      /\ phase \in [Clients -> Phases]
      /\ frame \in [Clients -> Frame]
      /\ pcdCtx \in Slots
  BY DEF TypeOK
<1>2. CASE Begin(c)
  BY <1>t, <1>2 DEF Begin, table, server, Frame
<1>3. CASE Lookup(c)
  BY <1>t, <1>3, FirstOwnedIsOwned DEF Lookup, table, server, Frame
<1>4. CASE Start(c)
  BY <1>t, <1>4, FirstFreeIsFree, IpcAssumption DEF Start, server, Frame, IpcStart
<1>5. CASE StartFails(c)
  BY <1>t, <1>5 DEF StartFails, table, server, Frame
<1>6. CASE Send(c)
  BY <1>t, <1>6, SendShape DEF Send, table, server, Frame
<1>7. CASE SendFails(c)
  BY <1>t, <1>7 DEF SendFails, table, server
<1>8. CASE Receive(c)
  BY <1>t, <1>8 DEF Receive, table, server
<1>9. CASE GiveUp(c)
  BY <1>t, <1>9 DEF GiveUp, table, server
<1>10. CASE Stop(c)
  BY <1>t, <1>10, IpcAssumption DEF Stop, server, Frame, IpcStop
<1>11. CASE Crash(c)
  BY <1>t, <1>11 DEF Crash, table, server
<1> QED
  BY <1>2, <1>3, <1>4, <1>5, <1>6, <1>7, <1>8, <1>9, <1>10, <1>11 DEF ClientStep

LEMMA TableServer ==
  ASSUME TypeOK, TableInv,
         ServerStep \/ PcdDies \/ \E c \in Clients : ReapChild(c) \/ Respawn(c)
  PROVE  TableInv'
<1> USE DEF TableInv, SlotIsHeld, ServerIsFound, ServerKeepsSlot, Bound, Owned
<1>t. /\ slot \in [Slots -> Clients \cup {Server, Free}]
      /\ owner \in [Slots -> BOOLEAN]
      /\ phase \in [Clients -> Phases]
      /\ frame \in [Clients -> Frame]
      /\ pcdCtx \in Slots
  BY DEF TypeOK
<1>1. ASSUME NEW m, NEW v, Answer(m, v), UNCHANGED <<table, phase, srv, pcdCtx>>
      PROVE  TableInv'
  BY <1>t, <1>1 DEF Answer, Frame, table
<1>2. CASE UNCHANGED <<table, phase, frame, srv, pcdCtx>>
  BY <1>2 DEF table
<1>3. CASE PcdStarts
  BY <1>t, <1>3, FirstFreeIsFree, IpcAssumption DEF PcdStarts, IpcStart, client
<1>4. CASE PcdOwns
  BY <1>t, <1>4, IpcAssumption DEF PcdOwns, client
<1>5. CASE PcdDies
  BY <1>t, <1>5 DEF PcdDies, table, client
<1>6. ASSUME NEW c \in Clients, ReapChild(c) PROVE TableInv'
  <2>1. ASSUME NEW i \in Slots, slot[i] = c, IpcStop(i) PROVE TableInv'
    BY <1>t, <1>6, <2>1, IpcAssumption DEF ReapChild, IpcStop
  <2>2. ASSUME \A i \in Slots : slot[i] # c, UNCHANGED table PROVE TableInv'
    BY <1>t, <1>6, <2>2 DEF ReapChild, table
  <2> QED
    BY <1>6, <2>1, <2>2, CleanupCases DEF ReapChild
<1>7. ASSUME NEW c \in Clients, Respawn(c) PROVE TableInv'
  BY <1>t, <1>7 DEF Respawn, table
<1> QED
  BY <1>1, <1>2, <1>3, <1>4, <1>5, <1>6, <1>7 DEF ServerStep, Serve, ServePending,
    ServeLater, ServeNoMemory, DropPending, client, server

LEMMA TableInvariant == Spec => []TableInv
<1>1. Init => TableInv
  BY TableInit
<1>2. TypeOK /\ TableInv /\ [Next]_vars => TableInv'
  <2> SUFFICES ASSUME TypeOK, TableInv, [Next]_vars PROVE TableInv'
    OBVIOUS
  <2>1. CASE Next
    BY <2>1, TableClient, TableServer DEF Next
  <2>2. CASE UNCHANGED vars
    BY <2>2 DEF vars, TableInv, SlotIsHeld, ServerIsFound, ServerKeepsSlot, Bound, Owned
  <2> QED
    BY <2>1, <2>2
<1> QED
  BY <1>1, <1>2, IpcTypeCorrect, PTL DEF Spec

\* Every client with a socket holds the slot it thinks it holds and no other,
\* and what a dead child has left behind is the one slot IPC_cleanup_proc frees.
THEOREM SlotsCorrect == Spec => []SlotIsHeld
<1>1. TableInv => SlotIsHeld
  BY DEF TableInv
<1> QED
  BY <1>1, TableInvariant, PTL

\* The slot a client looked up leads to the supervisor whenever it is used,
\* through any number of deaths and restarts of the supervisor.
THEOREM ServerFoundCorrect == Spec => []ServerIsFound
<1>1. TableInv => ServerIsFound
  BY DEF TableInv
<1> QED
  BY <1>1, TableInvariant, PTL

-----------------------------------------------------------------------------
(***************************************************************************)
(* Messages on their way.                                                  *)
(***************************************************************************)

LEMMA RangeOfTail ==
  ASSUME NEW T, NEW s \in Seq(T), s # <<>>
  PROVE  Head(s) \in Range(s) /\ Range(Tail(s)) \subseteq Range(s)
<1>1. Tail(s) \in Seq(T) /\ Len(Tail(s)) = Len(s) - 1 /\ Len(s) \in Nat \ {0}
  OBVIOUS
<1>2. \A i \in 1 .. Len(s) - 1 : Tail(s)[i] = s[i + 1]
  OBVIOUS
<1>3. DOMAIN s = 1 .. Len(s) /\ DOMAIN Tail(s) = 1 .. Len(s) - 1 /\ Head(s) = s[1]
  BY <1>1
<1> QED
  BY <1>1, <1>2, <1>3 DEF Range

LEMMA RangeOfAppend ==
  ASSUME NEW T, NEW s \in Seq(T), NEW e \in T
  PROVE  Range(Append(s, e)) = Range(s) \cup {e}
<1>1. DOMAIN s = 1 .. Len(s) /\ DOMAIN Append(s, e) = 1 .. Len(s) + 1 /\ Len(s) \in Nat
  OBVIOUS
<1>2. \A i \in 1 .. Len(s) : Append(s, e)[i] = s[i]
  OBVIOUS
<1>3. Append(s, e)[Len(s) + 1] = e
  OBVIOUS
<1> QED
  BY <1>1, <1>2, <1>3 DEF Range

LEMMA MessageTypes ==
  ASSUME TypeOK
  PROVE  Requests \subseteq Request /\ Replies \subseteq Reply
<1>1. Range(inbox) \subseteq Request
  BY RangeOfSeq DEF TypeOK
<1>2. \A c \in Clients : Range(sock[c]) \subseteq Reply
  BY RangeOfSeq DEF TypeOK
<1> QED
  BY <1>1, <1>2 DEF Requests, Replies, TypeOK

\* One socket changes: only what it gains is new.
LEMMA RepliesOfSock ==
  ASSUME TypeOK, NEW c \in Clients, NEW q, NEW X,
         sock' = [sock EXCEPT ![c] = q], Range(q) \subseteq Range(sock[c]) \cup X
  PROVE  Replies' \subseteq Replies \cup X
<1>1. \A d \in Clients : d # c => sock'[d] = sock[d]
  BY DEF TypeOK
<1>2. sock'[c] = q
  BY DEF TypeOK
<1> QED
  BY <1>1, <1>2 DEF Replies

\* The one reply a request causes.
ReplyTo(m, v) == [id |-> m.id, call |-> m.call, retval |-> v]

LEMMA RepliesOfAnswer ==
  ASSUME TypeOK, NEW m \in Request, NEW v \in Verdicts, Answer(m, v)
  PROVE  Replies' \subseteq Replies \cup {ReplyTo(m, v)}
<1>1. CASE slot[m.ctx] \in Clients /\ Bound(slot[m.ctx])
  <2> DEFINE to == slot[m.ctx]
  <2>1. sock' = [sock EXCEPT ![to] = Append(sock[to], ReplyTo(m, v))]
    BY <1>1 DEF Answer, ReplyTo
  <2>2. ReplyTo(m, v) \in Reply
    BY DEF ReplyTo, Request, Reply
  <2>3. to \in Clients /\ sock[to] \in Seq(Reply)
    BY <1>1 DEF TypeOK
  <2> HIDE DEF to
  <2>4. Range(Append(sock[to], ReplyTo(m, v))) = Range(sock[to]) \cup {ReplyTo(m, v)}
    BY <2>2, <2>3, RangeOfAppend
  <2> QED
    BY <2>1, <2>3, <2>4, RepliesOfSock
<1>2. CASE ~(slot[m.ctx] \in Clients /\ Bound(slot[m.ctx]))
  <2>1. sock' = sock
    BY <1>2 DEF Answer
  <2> QED
    BY <2>1 DEF Replies
<1> QED
  BY <1>1, <1>2

\* Taking a request out of the socket leaves no other of the same call.
LEMMA RequestsOfTail ==
  ASSUME TypeOK, RequestIsUnique, inbox # <<>>, inbox' = Tail(inbox)
  PROVE  /\ Head(inbox) \in Requests
         /\ Range(inbox') \subseteq Range(inbox)
         /\ \A m \in Range(inbox') \cup pending : m.call # Head(inbox).call
         /\ \A i, j \in DOMAIN inbox' : inbox'[i].call = inbox'[j].call => i = j
         /\ \A i \in DOMAIN inbox' : inbox'[i] \in Range(inbox)
         /\ \A i \in DOMAIN inbox', m \in pending : inbox'[i].call # m.call
<1>1. inbox \in Seq(Request)
  BY DEF TypeOK
<1>2. Len(inbox) \in Nat \ {0} /\ DOMAIN inbox = 1 .. Len(inbox)
  BY <1>1
<1>3. DOMAIN inbox' = 1 .. Len(inbox) - 1 /\ \A i \in DOMAIN inbox' : inbox'[i] = inbox[i + 1]
  BY <1>1, <1>2
<1>4. Head(inbox) = inbox[1] /\ 1 \in DOMAIN inbox
  BY <1>1, <1>2
<1>5. \A i \in DOMAIN inbox' : i + 1 \in DOMAIN inbox /\ i + 1 # 1 /\ i \in Nat
  BY <1>2, <1>3
<1>6. \A i \in DOMAIN inbox' : inbox'[i].call # Head(inbox).call
  BY <1>3, <1>4, <1>5 DEF RequestIsUnique
<1>7. \A m \in pending : m.call # Head(inbox).call
  BY <1>4 DEF RequestIsUnique
<1>8. \A m \in Range(inbox') : m.call # Head(inbox).call
  BY <1>6 DEF Range
<1>9. Head(inbox) \in Range(inbox) /\ Range(inbox') \subseteq Range(inbox)
  BY <1>1, RangeOfTail
<1>10. \A i, j \in DOMAIN inbox' : inbox'[i].call = inbox'[j].call => i = j
  BY <1>3, <1>5 DEF RequestIsUnique
<1>11. \A i \in DOMAIN inbox', m \in pending : inbox'[i].call # m.call
  BY <1>3, <1>5 DEF RequestIsUnique
<1>12. \A i \in DOMAIN inbox' : inbox'[i] \in Range(inbox)
  BY <1>9 DEF Range
<1> QED
  BY <1>7, <1>8, <1>9, <1>10, <1>11, <1>12 DEF Requests

\* A request is in the system once: what is sent is new, and the supervisor
\* keeps or answers each request, never both.
LEMMA UniqueStep ==
  ASSUME TypeOK, UnsentIsSilent, RequestIsUnique, Next
  PROVE  RequestIsUnique'
<1>1. CASE UNCHANGED <<inbox, pending>>
  BY <1>1 DEF RequestIsUnique
<1>2. ASSUME NEW c \in Clients, Send(c) PROVE RequestIsUnique'
  <2>1. PICK id \in Int : inbox' = Append(inbox, NewMsg(frame[c].ctx, id, frame[c].call))
    BY <1>2, SendShape
  <2> DEFINE m == NewMsg(frame[c].ctx, id, frame[c].call)
  <2>2. inbox \in Seq(Request) /\ pending' = pending
    BY <1>2 DEF TypeOK, Send
  <2>3. m.call = frame[c].call
    BY DEF NewMsg
  <2>4. \A n \in Range(inbox) \cup pending : n.call # m.call
    BY <1>2, <2>3 DEF Send, UnsentIsSilent, Requests
  <2> HIDE DEF m
  <2>5. /\ DOMAIN inbox = 1 .. Len(inbox) /\ Len(inbox) \in Nat
        /\ DOMAIN inbox' = 1 .. Len(inbox) + 1
        /\ \A i \in 1 .. Len(inbox) : inbox'[i] = inbox[i]
        /\ inbox'[Len(inbox) + 1] = m
    BY <2>1, <2>2 DEF m
  <2>6. \A i \in DOMAIN inbox : inbox[i] \in Range(inbox)
    BY DEF Range
  <2>7. \A i \in DOMAIN inbox' : i \in DOMAIN inbox \/ i = Len(inbox) + 1
    BY <2>5
  <2>8. \A i, j \in DOMAIN inbox' : inbox'[i].call = inbox'[j].call => i = j
    BY <2>4, <2>5, <2>6, <2>7 DEF RequestIsUnique
  <2>9. \A i \in DOMAIN inbox', n \in pending : inbox'[i].call # n.call
    BY <2>4, <2>5, <2>6, <2>7 DEF RequestIsUnique
  <2> QED
    BY <2>2, <2>8, <2>9 DEF RequestIsUnique
<1>3. CASE inbox # <<>> /\ inbox' = Tail(inbox) /\ pending' = pending
  BY <1>3, RequestsOfTail DEF RequestIsUnique
<1>4. CASE ServeLater
  <2>1. pending' = pending \cup {Head(inbox)} /\ inbox # <<>> /\ inbox' = Tail(inbox)
    BY <1>4 DEF ServeLater
  <2>2. \A i \in DOMAIN inbox' : inbox'[i] \in Range(inbox')
    BY DEF Range
  <2>3. \A i \in DOMAIN inbox', m \in pending' : inbox'[i].call # m.call
    BY <2>1, <2>2, RequestsOfTail
  <2>4. \A m, n \in pending' : m.call = n.call => m = n
    BY <2>1, RequestsOfTail DEF RequestIsUnique
  <2> QED
    BY <2>1, <2>3, <2>4, RequestsOfTail DEF RequestIsUnique
<1>5. CASE pending' \subseteq pending /\ inbox' = inbox
  BY <1>5 DEF RequestIsUnique
<1>6. CASE PcdDies
  BY <1>6 DEF PcdDies, RequestIsUnique
<1>7. ASSUME NEW c \in Clients, ~Send(c),
             Begin(c) \/ ClientStep(c) \/ Crash(c) \/ ReapChild(c) \/ Respawn(c)
      PROVE  UNCHANGED <<inbox, pending>>
  BY <1>7 DEF Begin, ClientStep, Lookup, Start, StartFails, SendFails, Receive, GiveUp,
    Stop, Crash, ReapChild, Respawn, wires
<1>8. CASE ServerStep
  BY <1>1, <1>3, <1>4, <1>5, <1>8 DEF ServerStep, Serve, ServePending, ServeNoMemory,
    DropPending, PcdStarts, PcdOwns, wires
<1> QED
  BY <1>1, <1>2, <1>6, <1>7, <1>8 DEF Next

(***************************************************************************)
(* Answers.  MessageInv is AnswerInv without the two parts shown above.    *)
(***************************************************************************)

MessageInv ==
  /\ CallsAreDistinct
  /\ UnsentIsSilent
  /\ AnswersAreKnown
  /\ IdsAreDistinct
  /\ ReplyIsOwn

\* Messages may get lost.
LEMMA MessagesGetLost ==
  ASSUME TypeOK, MessageInv, Requests' \subseteq Requests, Replies' \subseteq Replies,
         UNCHANGED <<phase, frame, calls, result>>
  PROVE  MessageInv'
BY DEF MessageInv, CallsAreDistinct, UnsentIsSilent, AnswersAreKnown, IdsAreDistinct,
  ReplyIsOwn, Waiting

\* A call ends, or its client dies: the frame is cleared.
LEMMA MessagesAtEnd ==
  ASSUME TypeOK, MessageInv, NEW c \in Clients, NEW s \in {"idle", "dead"},
         Requests' \subseteq Requests, Replies' \subseteq Replies, calls' = calls,
         phase' = [phase EXCEPT ![c] = s], frame' = [frame EXCEPT ![c] = NoFrame],
         \A d \in Clients : d # c => result'[d] = result[d]
  PROVE  MessageInv'
<1>1. /\ \A d \in Clients : d # c => phase'[d] = phase[d] /\ frame'[d] = frame[d]
      /\ phase'[c] = s /\ frame'[c] = NoFrame
      /\ NoFrame.call = 0 /\ calls \in Nat
  BY IpcAssumption DEF TypeOK, NoFrame
<1>2. Requests \subseteq Request /\ Replies \subseteq Reply
  BY MessageTypes
<1>3. \A m \in Requests' \cup Replies' : m.call \in Nat /\ m.call # 0
  BY <1>2, IpcAssumption DEF Request, Reply
<1>4. CallsAreDistinct'
  BY <1>1 DEF MessageInv, CallsAreDistinct
<1>5. UnsentIsSilent'
  BY <1>1 DEF MessageInv, UnsentIsSilent
<1>6. AnswersAreKnown'
  BY <1>1, <1>3 DEF MessageInv, AnswersAreKnown
<1>7. IdsAreDistinct'
  BY <1>1 DEF MessageInv, IdsAreDistinct, Waiting
<1>8. ReplyIsOwn'
  BY <1>1 DEF MessageInv, ReplyIsOwn
<1> QED
  BY <1>4, <1>5, <1>6, <1>7, <1>8 DEF MessageInv

\* The message id a call gets is nobody else's.
LEMMA MessagesAtSend ==
  ASSUME TypeOK, CallsAreNumbered, MessageInv, FreshIds, NEW c \in Clients, Send(c)
  PROVE  MessageInv'
<1>1. PICK id \in Int :
        /\ id \notin IdsInUse
        /\ frame' = [frame EXCEPT ![c] = [frame[c] EXCEPT !.id = id]]
        /\ inbox' = Append(inbox, NewMsg(frame[c].ctx, id, frame[c].call))
  BY SendShape
<1> DEFINE m == NewMsg(frame[c].ctx, id, frame[c].call)
<1>2. m.id = id /\ m.call = frame[c].call
  BY DEF NewMsg
<1>3. frame[c].call \in 1 .. MaxCalls /\ frame[c].call \in 1 .. calls
  BY IpcAssumption DEF TypeOK, Frame, Send, CallsAreNumbered, InCall, MessageInv, CallsAreDistinct
<1>4. m \in Request
  BY <1>3 DEF TypeOK, NewMsg, Request, Frame
<1>5. Requests' = Requests \cup {m} /\ Replies' = Replies
  <2>1. Range(inbox') = Range(inbox) \cup {m}
    <3> HIDE DEF m
    <3> QED
      BY <1>1, <1>4, RangeOfAppend DEF TypeOK, m
  <2> QED
    BY <2>1 DEF Requests, Replies, Send
<1> HIDE DEF m
<1>6. /\ \A d \in Clients : d # c => phase'[d] = phase[d] /\ frame'[d] = frame[d]
      /\ phase[c] = "send" /\ phase'[c] = "wait"
      /\ frame'[c].id = id /\ frame'[c].call = frame[c].call
      /\ frame'[c].answer = frame[c].answer
      /\ calls' = calls /\ result' = result
  BY <1>1 DEF TypeOK, Frame, Send
<1>7. \A d \in Clients : frame'[d].call = frame[d].call /\ frame'[d].answer = frame[d].answer
  BY <1>6
<1>8. \A d \in Clients : frame[d].call = m.call => d = c
  BY <1>2, <1>3 DEF MessageInv, CallsAreDistinct
<1>9. /\ frame[c].answer = None
      /\ \A n \in Requests \cup Replies : n.call # frame[c].call
  BY <1>6 DEF MessageInv, UnsentIsSilent
<1>10. CallsAreDistinct'
  BY <1>2, <1>3, <1>5, <1>6, <1>7 DEF MessageInv, CallsAreDistinct
<1>11. UnsentIsSilent'
  BY <1>2, <1>5, <1>6, <1>7, <1>8 DEF MessageInv, UnsentIsSilent
<1>12. AnswersAreKnown'
  BY <1>2, <1>5, <1>7, <1>8, <1>9 DEF MessageInv, AnswersAreKnown
<1>13. IdsAreDistinct'
  <2> SUFFICES ASSUME NEW d \in Clients, phase'[d] = "wait",
                      NEW n \in Requests' \cup Replies', n.id = frame'[d].id
               PROVE  n.call = frame'[d].call
    BY DEF IdsAreDistinct, Waiting
  <2>1. CASE n = m
    <3>1. d # c => d \in Waiting /\ frame[d].id \in IdsInUse
      BY <1>6 DEF Waiting, IdsInUse
    <3> QED
      BY <1>1, <1>2, <1>6, <2>1, <3>1
  <2>2. CASE n \in Requests \cup Replies
    <3>1. n.id \in IdsInUse
      BY <2>2 DEF IdsInUse
    <3>2. d # c
      BY <1>1, <1>6, <3>1
    <3> QED
      BY <1>6, <2>2, <3>2 DEF MessageInv, IdsAreDistinct, Waiting
  <2> QED
    BY <1>5, <2>1, <2>2
<1>14. ReplyIsOwn'
  BY <1>6 DEF MessageInv, ReplyIsOwn
<1> QED
  BY <1>10, <1>11, <1>12, <1>13, <1>14 DEF MessageInv

\* An answer goes to the call that asked: its request is gone when the reply is
\* on its way, and no other request or reply of that call is.
LEMMA MessagesAtAnswer ==
  ASSUME TypeOK, MessageInv, NEW m \in Requests, NEW v \in Verdicts, Answer(m, v),
         Requests' \subseteq Requests, \A n \in Requests' : n.call # m.call,
         UNCHANGED <<phase, calls, result>>
  PROVE  MessageInv'
<1>1. Requests \subseteq Request /\ Replies \subseteq Reply
  BY MessageTypes
<1> DEFINE r == ReplyTo(m, v)
<1>2. r.id = m.id /\ r.call = m.call /\ r.retval = v
  BY DEF ReplyTo
<1>3. Replies' \subseteq Replies \cup {r}
  BY <1>1, RepliesOfAnswer
<1> HIDE DEF r
<1>4. \A c \in Clients :
        /\ frame'[c].call = frame[c].call /\ frame'[c].id = frame[c].id
        /\ frame'[c].answer = IF frame[c].call = m.call THEN v ELSE frame[c].answer
  BY DEF Answer, TypeOK, Frame
<1>5. \A c \in Clients : frame[c].call = m.call => frame[c].answer = None
  BY DEF MessageInv, AnswersAreKnown
<1>6. None \notin Verdicts /\ \A n \in Replies : n.retval \in Verdicts
  BY <1>1 DEF None, Verdicts, Reply
<1>7. CallsAreDistinct'
  BY <1>2, <1>3, <1>4 DEF MessageInv, CallsAreDistinct
<1>8. UnsentIsSilent'
  BY <1>2, <1>3, <1>4 DEF MessageInv, UnsentIsSilent
<1>9. AnswersAreKnown'
  <2> SUFFICES ASSUME NEW c \in Clients
               PROVE  /\ \A n \in Requests' : n.call = frame'[c].call => frame'[c].answer = None
                      /\ \A n \in Replies' : n.call = frame'[c].call => frame'[c].answer = n.retval
    BY DEF AnswersAreKnown
  <2>1. \A n \in Requests' : n.call = frame'[c].call => frame'[c].answer = None
    BY <1>4 DEF MessageInv, AnswersAreKnown
  <2>2. \A n \in Replies' : n.call = frame'[c].call => frame'[c].answer = n.retval
    BY <1>2, <1>3, <1>4, <1>5, <1>6 DEF MessageInv, AnswersAreKnown
  <2> QED
    BY <2>1, <2>2
<1>10. IdsAreDistinct'
  BY <1>2, <1>3, <1>4 DEF MessageInv, IdsAreDistinct, Waiting
<1>11. ReplyIsOwn'
  BY <1>4, <1>5, <1>6 DEF MessageInv, ReplyIsOwn
<1> QED
  BY <1>7, <1>8, <1>9, <1>10, <1>11 DEF MessageInv

\* A call begins with a number no message has.
LEMMA MessagesAtBegin ==
  ASSUME TypeOK, MessageInv, NEW c \in Clients, Begin(c)
  PROVE  MessageInv'
<1>1. /\ \A d \in Clients : d # c => /\ phase'[d] = phase[d] /\ frame'[d] = frame[d]
                                     /\ result'[d] = result[d]
      /\ phase'[c] = "lookup" /\ calls' = calls + 1 /\ calls \in Nat
      /\ frame'[c].call = calls + 1 /\ frame'[c].answer = None
  BY IpcAssumption DEF TypeOK, Begin, NoFrame
<1>2. Requests' = Requests /\ Replies' = Replies
  BY DEF Begin, wires, Requests, Replies
<1>3. \A m \in Requests \cup Replies : m.call \in 1 .. calls
  BY DEF MessageInv, CallsAreDistinct
<1>4. \A d \in Clients : frame[d].call \in Nat /\ frame[d].call <= calls
  BY IpcAssumption DEF TypeOK, Frame, MessageInv, CallsAreDistinct
<1>5. CallsAreDistinct'
  <2>1. \A d \in Clients : frame'[d].call <= calls'
    BY <1>1, <1>4
  <2>2. \A d, e \in Clients :
          frame'[d].call = frame'[e].call => d = e \/ frame'[d].call = 0
    BY <1>1, <1>4 DEF MessageInv, CallsAreDistinct
  <2>3. \A m \in Requests' \cup Replies' : m.call \in 1 .. calls'
    BY <1>1, <1>2, <1>3
  <2> QED
    BY <2>1, <2>2, <2>3 DEF CallsAreDistinct
<1>6. UnsentIsSilent'
  BY <1>1, <1>2, <1>3 DEF MessageInv, UnsentIsSilent
<1>7. AnswersAreKnown'
  BY <1>1, <1>2, <1>3 DEF MessageInv, AnswersAreKnown
<1>8. IdsAreDistinct'
  BY <1>1, <1>2 DEF MessageInv, IdsAreDistinct, Waiting
<1>9. ReplyIsOwn'
  BY <1>1 DEF MessageInv, ReplyIsOwn
<1> QED
  BY <1>5, <1>6, <1>7, <1>8, <1>9 DEF MessageInv

\* The slots a call finds and takes say nothing of its messages.
LEMMA MessagesAtSetup ==
  ASSUME TypeOK, MessageInv, NEW c \in Clients, phase[c] \in {"lookup", "start"},
         Lookup(c) \/ Start(c) \/ StartFails(c)
  PROVE  MessageInv'
<1>1. Requests' = Requests /\ Replies' = Replies
  BY DEF Lookup, Start, StartFails, wires, Requests, Replies
<1>2. CASE Lookup(c) /\ Owned = {}
  <2>1. \A d \in Clients : d # c => result'[d] = result[d]
    BY <1>2 DEF Lookup, TypeOK
  <2> QED
    BY <1>1, <1>2, <2>1, MessagesAtEnd DEF Lookup
<1>3. CASE StartFails(c)
  <2>1. \A d \in Clients : d # c => result'[d] = result[d]
    BY <1>3 DEF StartFails, TypeOK
  <2> QED
    BY <1>1, <1>3, <2>1, MessagesAtEnd DEF StartFails
<1>4. CASE Start(c) \/ (Lookup(c) /\ Owned # {})
  <2>1. /\ \A d \in Clients : d # c => phase'[d] = phase[d] /\ frame'[d] = frame[d]
        /\ phase'[c] \in {"start", "send"}
        /\ frame'[c].call = frame[c].call /\ frame'[c].answer = frame[c].answer
        /\ result' = result /\ calls' = calls
    BY <1>4 DEF Lookup, Start, TypeOK, Frame
  <2>2. \A d \in Clients : frame'[d].call = frame[d].call /\ frame'[d].answer = frame[d].answer
    BY <2>1
  <2> QED
    BY <1>1, <2>1, <2>2 DEF MessageInv, CallsAreDistinct, UnsentIsSilent, AnswersAreKnown,
      IdsAreDistinct, Waiting, ReplyIsOwn
<1> QED
  BY <1>2, <1>3, <1>4

\* The message a client takes for its own is the answer to its call.
LEMMA MessagesAtReceive ==
  ASSUME TypeOK, MessageInv, NEW c \in Clients, Receive(c)
  PROVE  MessageInv'
<1> DEFINE m == Head(sock[c])
<1>1. sock[c] \in Seq(Reply) /\ sock[c] # <<>>
  BY DEF TypeOK, Receive, Arrived
<1>2. m \in Range(sock[c]) /\ Range(Tail(sock[c])) \subseteq Range(sock[c])
  BY <1>1, RangeOfTail
<1>3. Requests' = Requests
  BY DEF Receive, Requests
<1>4. sock' = [sock EXCEPT ![c] = Tail(sock[c])]
  BY DEF Receive
<1>5. Replies' \subseteq Replies
  <2>1. Range(Tail(sock[c])) \subseteq Range(sock[c]) \cup {}
    BY <1>2
  <2>2. Replies' \subseteq Replies \cup {}
    BY <1>4, <2>1, RepliesOfSock
  <2> QED
    BY <2>2
<1>6. m \in Replies /\ m \in Reply
  BY <1>2, MessageTypes DEF Replies
<1>7. UNCHANGED <<frame, calls>> /\ phase[c] = "wait"
  BY DEF Receive
<1>8. CASE IsOurs(c, m)
  <2>1. /\ phase'[c] = "stop" /\ result'[c] = m.retval
        /\ \A d \in Clients : d # c => phase'[d] = phase[d] /\ result'[d] = result[d]
    BY <1>8 DEF Receive, TypeOK
  <2> HIDE DEF m
  <2>2. m.call = frame[c].call
    BY <1>6, <1>7, <1>8 DEF IsOurs, MessageInv, IdsAreDistinct, Waiting
  <2>3. frame[c].answer = m.retval /\ m.retval \in Verdicts
    BY <1>6, <2>2 DEF MessageInv, AnswersAreKnown, Reply
  <2>4. ReplyIsOwn'
    BY <1>7, <2>1, <2>3 DEF MessageInv, ReplyIsOwn
  <2>5. UnsentIsSilent'
    BY <1>3, <1>5, <1>7, <2>1 DEF MessageInv, UnsentIsSilent
  <2>6. IdsAreDistinct'
    BY <1>3, <1>5, <1>7, <2>1 DEF MessageInv, IdsAreDistinct, Waiting
  <2>7. CallsAreDistinct' /\ AnswersAreKnown'
    BY <1>3, <1>5, <1>7 DEF MessageInv, CallsAreDistinct, AnswersAreKnown
  <2> QED
    BY <2>4, <2>5, <2>6, <2>7 DEF MessageInv
<1>9. CASE ~IsOurs(c, m)
  BY <1>3, <1>5, <1>7, <1>9, MessagesGetLost DEF Receive
<1> QED
  BY <1>8, <1>9

LEMMA MessagesClient ==
  ASSUME TypeOK, CallsAreNumbered, MessageInv, FreshIds, NEW c \in Clients,
         Begin(c) \/ ClientStep(c) \/ Crash(c)
  PROVE  MessageInv'
<1>1. CASE Begin(c)
  BY <1>1, MessagesAtBegin
<1>2. CASE Lookup(c) \/ Start(c) \/ StartFails(c)
  BY <1>2, MessagesAtSetup DEF Lookup, Start, StartFails
<1>3. CASE Send(c)
  BY <1>3, MessagesAtSend
<1>4. CASE SendFails(c) \/ GiveUp(c)
  <2>1. UNCHANGED <<frame, calls>> /\ Requests' = Requests /\ Replies' = Replies
    BY <1>4 DEF SendFails, GiveUp, wires, Requests, Replies
  <2>2. /\ phase'[c] = "stop" /\ result'[c] = Failed
        /\ \A d \in Clients : d # c => phase'[d] = phase[d] /\ result'[d] = result[d]
    BY <1>4 DEF SendFails, GiveUp, TypeOK
  <2> QED
    BY <2>1, <2>2 DEF MessageInv, CallsAreDistinct, UnsentIsSilent, AnswersAreKnown,
      IdsAreDistinct, Waiting, ReplyIsOwn
<1>5. CASE Receive(c)
  BY <1>5, MessagesAtReceive
<1>6. CASE Stop(c) \/ Crash(c)
  <2>1. sock' = [sock EXCEPT ![c] = <<>>] /\ Requests' = Requests
    BY <1>6 DEF Stop, Crash, Requests
  <2>2. Replies' \subseteq Replies
    <3>1. Range(<<>>) \subseteq Range(sock[c]) \cup {}
      BY DEF Range
    <3>2. Replies' \subseteq Replies \cup {}
      BY <2>1, <3>1, RepliesOfSock
    <3> QED
      BY <3>2
  <2> QED
    BY <1>6, <2>1, <2>2, MessagesAtEnd DEF Stop, Crash
<1> QED
  BY <1>1, <1>2, <1>3, <1>4, <1>5, <1>6 DEF ClientStep

LEMMA MessagesServer ==
  ASSUME TypeOK, MessageInv, RequestIsUnique,
         ServerStep \/ PcdDies \/ \E c \in Clients : ReapChild(c) \/ Respawn(c)
  PROVE  MessageInv'
<1>1. ASSUME NEW v \in Verdicts, Serve(v) PROVE MessageInv'
  <2>1. inbox # <<>> /\ inbox' = Tail(inbox) /\ Answer(Head(inbox), v) /\ pending' = pending
    BY <1>1 DEF Serve
  <2>2. /\ Head(inbox) \in Requests
        /\ Requests' \subseteq Requests
        /\ \A n \in Requests' : n.call # Head(inbox).call
    BY <2>1, RequestsOfTail DEF Requests
  <2> QED
    BY <1>1, <2>1, <2>2, MessagesAtAnswer DEF Serve, client
<1>2. ASSUME NEW v \in Verdicts, NEW m \in pending, ServePending(m, v) PROVE MessageInv'
  <2>1. inbox' = inbox /\ Answer(m, v) /\ pending' = pending \ {m}
    BY <1>2 DEF ServePending
  <2>2. m \in Requests /\ Requests' \subseteq Requests
    BY <2>1 DEF Requests
  <2>3. \A n \in Requests' : n.call # m.call
    <3>1. \A n \in Range(inbox) : n.call # m.call
      BY DEF RequestIsUnique, Range
    <3> QED
      BY <2>1, <3>1 DEF Requests, RequestIsUnique
  <2> QED
    BY <1>2, <2>1, <2>2, <2>3, MessagesAtAnswer DEF ServePending, client
<1>3. CASE ServeLater
  <2>1. Requests' \subseteq Requests /\ Replies' = Replies
    BY <1>3, RequestsOfTail DEF ServeLater, Requests, Replies
  <2> QED
    BY <1>3, <2>1, MessagesGetLost DEF ServeLater, client
<1>4. CASE ServeNoMemory
  <2>1. Requests' \subseteq Requests /\ Replies' = Replies
    BY <1>4, RequestsOfTail DEF ServeNoMemory, Requests, Replies
  <2> QED
    BY <1>4, <2>1, MessagesGetLost DEF ServeNoMemory, client
<1>5. ASSUME NEW m \in pending, DropPending(m) PROVE MessageInv'
  <2>1. Requests' \subseteq Requests /\ Replies' = Replies
    BY <1>5 DEF DropPending, Requests, Replies
  <2> QED
    BY <1>5, <2>1, MessagesGetLost DEF DropPending, client
<1>6. CASE PcdDies
  <2>1. Requests' \subseteq Requests /\ Replies' = Replies
    BY <1>6 DEF PcdDies, Requests, Replies, Range
  <2> QED
    BY <1>6, <2>1, MessagesGetLost DEF PcdDies, client
<1>7. CASE PcdStarts \/ PcdOwns
  <2>1. Requests' = Requests /\ Replies' = Replies
    BY <1>7 DEF PcdStarts, PcdOwns, wires, Requests, Replies
  <2> QED
    BY <1>7, <2>1, MessagesGetLost DEF PcdStarts, PcdOwns, client
<1>8. ASSUME NEW c \in Clients, ReapChild(c) \/ Respawn(c) PROVE MessageInv'
  <2>1. Requests' = Requests /\ Replies' = Replies /\ UNCHANGED <<frame, calls, result>>
    BY <1>8 DEF ReapChild, Respawn, wires, Requests, Replies
  <2>2. /\ phase'[c] \in {"idle", "reaped"}
        /\ \A d \in Clients : d # c => phase'[d] = phase[d]
    BY <1>8 DEF ReapChild, Respawn, TypeOK
  <2> QED
    BY <2>1, <2>2 DEF MessageInv, CallsAreDistinct, UnsentIsSilent, AnswersAreKnown,
      IdsAreDistinct, Waiting, ReplyIsOwn
<1> QED
  BY <1>1, <1>2, <1>3, <1>4, <1>5, <1>6, <1>7, <1>8 DEF ServerStep

LEMMA AnswerInvariant ==
  ASSUME FreshIds
  PROVE  Spec => [](TypeOK /\ AnswerInv)
<1>1. Init => MessageInv /\ RequestIsUnique
  <2> SUFFICES ASSUME Init PROVE MessageInv /\ RequestIsUnique
    OBVIOUS
  <2>1. Requests = {} /\ Replies = {}
    BY DEF Init, Requests, Replies, Range
  <2>2. \A c \in Clients : phase[c] = "idle" /\ frame[c].call = 0
    BY DEF Init, NoFrame
  <2>3. CallsAreDistinct
    BY <2>1, <2>2 DEF CallsAreDistinct, Init
  <2> QED
    BY <2>1, <2>2, <2>3 DEF Init, MessageInv, UnsentIsSilent, AnswersAreKnown, IdsAreDistinct,
      ReplyIsOwn, RequestIsUnique
<1>2. TypeOK /\ CallsAreNumbered /\ MessageInv /\ RequestIsUnique /\ [Next]_vars
        => MessageInv' /\ RequestIsUnique'
  <2> SUFFICES ASSUME TypeOK, CallsAreNumbered, MessageInv, RequestIsUnique, [Next]_vars
               PROVE  MessageInv' /\ RequestIsUnique'
    OBVIOUS
  <2>1. CASE Next
    <3>1. RequestIsUnique'
      BY <2>1, UniqueStep DEF MessageInv
    <3>2. MessageInv'
      BY <2>1, MessagesClient, MessagesServer DEF Next
    <3> QED
      BY <3>1, <3>2
  <2>2. CASE UNCHANGED vars
    <3>1. Requests' = Requests /\ Replies' = Replies
      BY <2>2 DEF vars, Requests, Replies
    <3>2. RequestIsUnique'
      BY <2>2 DEF vars, RequestIsUnique
    <3> QED
      BY <2>2, <3>1, <3>2, MessagesGetLost DEF vars
  <2> QED
    BY <2>1, <2>2
<1>3. CallsAreNumbered /\ MessageInv /\ RequestIsUnique => AnswerInv
  BY DEF MessageInv, AnswerInv
<1> QED
  BY <1>1, <1>2, <1>3, TypeInvariant, PTL DEF Spec

\* As long as no two calls in progress share a message id, a call that returns
\* an answer returns the one the supervisor gave to it, whatever slots are reused
\* and however late, or out of turn, the supervisor answers.
THEOREM ReplyCorrect ==
  ASSUME FreshIds
  PROVE  Spec => []ReplyIsOwn
<1>1. AnswerInv => ReplyIsOwn
  BY DEF AnswerInv
<1> QED
  BY <1>1, AnswerInvariant, PTL

-----------------------------------------------------------------------------
(***************************************************************************)
(* The remote call.                                                        *)
(***************************************************************************)

\* A step that concerns one client is seen at that client only.
LEMMA SeenAtOne ==
  ASSUME NEW c \in Clients,
         \A d \in Clients : d # c =>
           phase'[d] = phase[d] /\ frame'[d].answer = frame[d].answer
  PROVE  /\ Stage' = [Stage EXCEPT ![c] = Stage'[c]]
         /\ AnswerSeen' = [AnswerSeen EXCEPT ![c] = AnswerSeen'[c]]
BY DEF Stage, AnswerSeen, InCall

LEMMA RemoteClient ==
  ASSUME TypeOK, AnswerInv, AnswerInv', NEW c \in Clients,
         Begin(c) \/ ClientStep(c) \/ Crash(c) \/ ReapChild(c) \/ Respawn(c)
  PROVE  [Remote!Next]_(Remote!vars)
<1>t. /\ phase \in [Clients -> Phases]
      /\ frame \in [Clients -> Frame]
      /\ result \in [Clients -> Verdicts \cup {None, Failed}]
  BY DEF TypeOK
<1>s. /\ Stage[c] = IF InCall(c) THEN "called"
                    ELSE IF phase[c] \in {"dead", "reaped"} THEN "dead" ELSE "idle"
      /\ Stage'[c] = IF InCall(c)' THEN "called"
                     ELSE IF phase'[c] \in {"dead", "reaped"} THEN "dead" ELSE "idle"
      /\ AnswerSeen[c] = IF InCall(c) THEN frame[c].answer ELSE None
      /\ AnswerSeen'[c] = IF InCall(c)' THEN frame'[c].answer ELSE None
  BY DEF Stage, AnswerSeen
<1>d. /\ [Stage EXCEPT ![c] = Stage[c]] = Stage
      /\ [AnswerSeen EXCEPT ![c] = AnswerSeen[c]] = AnswerSeen
  BY DEF Stage, AnswerSeen
<1>n. [NoFrame EXCEPT !.call = calls + 1].answer = None /\ NoFrame.answer = None
  BY DEF NoFrame
<1>1. ASSUME \A d \in Clients : d # c =>
               phase'[d] = phase[d] /\ frame'[d].answer = frame[d].answer,
             Stage'[c] = Stage[c], AnswerSeen'[c] = AnswerSeen[c], result' = result
      PROVE  UNCHANGED Remote!vars
  <2>1. Stage' = Stage /\ AnswerSeen' = AnswerSeen
    BY <1>1, <1>d, SeenAtOne
  <2> QED
    BY <1>1, <2>1 DEF Remote!vars
<1>2. CASE Begin(c)
  <2>1. \A d \in Clients : d # c => phase'[d] = phase[d] /\ frame'[d] = frame[d]
    BY <1>t, <1>2 DEF Begin
  <2>2. phase[c] = "idle" /\ phase'[c] = "lookup" /\ frame'[c].answer = None
    BY <1>t, <1>n, <1>2 DEF Begin
  <2>3. Stage[c] = "idle" /\ Stage'[c] = "called" /\ AnswerSeen'[c] = AnswerSeen[c]
    BY <1>s, <2>2 DEF InCall
  <2>4. Remote!Call(c)
    BY <1>2, <1>d, <2>1, <2>3, SeenAtOne DEF Remote!Call, Begin
  <2> QED
    BY <2>4 DEF Remote!Next
<1>3. ASSUME phase'[c] \in {"idle", "stop"}, InCall(c),
             \A d \in Clients : d # c => phase'[d] = phase[d] /\ frame'[d] = frame[d],
             result' = [result EXCEPT ![c] = Failed]
      PROVE  Remote!Next
  <2>1. Stage[c] = "called" /\ Stage'[c] = "idle" /\ AnswerSeen'[c] = None
    BY <1>s, <1>3 DEF InCall
  <2>2. Remote!Fail(c)
    BY <1>3, <2>1, SeenAtOne DEF Remote!Fail, Remote!Over
  <2> QED
    BY <2>2 DEF Remote!Next
<1>4. CASE Lookup(c)
  <2>1. CASE Owned = {}
    BY <1>t, <1>3, <1>4, <2>1 DEF Lookup, InCall
  <2>2. CASE Owned # {}
    <3>1. /\ \A d \in Clients : d # c => phase'[d] = phase[d] /\ frame'[d] = frame[d]
          /\ phase[c] = "lookup" /\ phase'[c] = "start"
          /\ frame'[c].answer = frame[c].answer /\ result' = result
      BY <1>t, <1>4, <2>2 DEF Lookup, Frame
    <3> QED
      BY <1>s, <1>1, <3>1 DEF InCall
  <2> QED
    BY <2>1, <2>2
<1>5. CASE Start(c)
  <2>1. /\ \A d \in Clients : d # c => phase'[d] = phase[d] /\ frame'[d] = frame[d]
        /\ phase[c] = "start" /\ phase'[c] = "send"
        /\ frame'[c].answer = frame[c].answer /\ result' = result
    BY <1>t, <1>5 DEF Start, Frame
  <2> QED
    BY <1>s, <1>1, <2>1 DEF InCall
<1>6. CASE StartFails(c)
  BY <1>t, <1>3, <1>6 DEF StartFails, InCall
<1>7. CASE Send(c)
  <2>1. PICK id \in Int : frame' = [frame EXCEPT ![c] = [frame[c] EXCEPT !.id = id]]
    BY <1>7, SendShape
  <2>2. /\ \A d \in Clients : d # c => phase'[d] = phase[d] /\ frame'[d] = frame[d]
        /\ phase[c] = "send" /\ phase'[c] = "wait"
        /\ frame'[c].answer = frame[c].answer /\ result' = result
    BY <1>t, <1>7, <2>1 DEF Send, Frame
  <2> QED
    BY <1>s, <1>1, <2>2 DEF InCall
<1>8. CASE SendFails(c) \/ GiveUp(c)
  BY <1>t, <1>3, <1>8 DEF SendFails, GiveUp, InCall
<1>9. CASE Receive(c)
  <2>1. CASE IsOurs(c, Head(sock[c]))
    <3>1. /\ \A d \in Clients : d # c => phase'[d] = phase[d]
          /\ phase[c] = "wait" /\ phase'[c] = "stop" /\ frame' = frame
          /\ result' = [result EXCEPT ![c] = Head(sock[c]).retval]
          /\ result'[c] = Head(sock[c]).retval
      BY <1>t, <1>9, <2>1 DEF Receive
    <3>2. Stage[c] = "called" /\ Stage'[c] = "idle" /\ AnswerSeen'[c] = None
      BY <1>s, <3>1 DEF InCall
    <3>3. Head(sock[c]).retval \in Verdicts
      <4>1. sock[c] \in Seq(Reply) /\ sock[c] # <<>>
        BY <1>9 DEF TypeOK, Receive, Arrived
      <4>2. Head(sock[c]) \in Reply
        BY <4>1
      <4> QED
        BY <4>2 DEF Reply
    <3>4. AnswerSeen[c] = result'[c] /\ AnswerSeen[c] # None
      <4>1. result'[c] # Failed /\ result'[c] # None
        BY <3>1, <3>3 DEF Verdicts, Failed, None
      <4>2. frame[c].answer = result'[c]
        BY <3>1, <4>1 DEF AnswerInv, ReplyIsOwn
      <4> QED
        BY <1>s, <3>1, <4>1, <4>2 DEF InCall
    <3>5. Remote!Return(c)
      BY <3>1, <3>2, <3>4, SeenAtOne DEF Remote!Return, Remote!Over
    <3> QED
      BY <3>5 DEF Remote!Next
  <2>2. CASE ~IsOurs(c, Head(sock[c]))
    BY <1>s, <1>1, <1>9, <2>2 DEF Receive, InCall
  <2> QED
    BY <2>1, <2>2
<1>10. CASE Stop(c)
  <2>1. /\ \A d \in Clients : d # c => phase'[d] = phase[d] /\ frame'[d] = frame[d]
        /\ phase[c] = "stop" /\ phase'[c] = "idle" /\ result' = result
    BY <1>t, <1>10 DEF Stop
  <2> QED
    BY <1>s, <1>1, <2>1 DEF InCall
<1>11. CASE Crash(c)
  <2>1. /\ \A d \in Clients : d # c => phase'[d] = phase[d] /\ frame'[d] = frame[d]
        /\ phase[c] \notin {"dead", "reaped"} /\ phase'[c] = "dead" /\ result' = result
    BY <1>t, <1>11 DEF Crash
  <2>2. Stage[c] # "dead" /\ Stage'[c] = "dead" /\ AnswerSeen'[c] = None
    BY <1>s, <2>1 DEF InCall
  <2>3. Remote!Die(c)
    BY <2>1, <2>2, SeenAtOne DEF Remote!Die, Remote!Over
  <2> QED
    BY <2>3 DEF Remote!Next
<1>12. CASE ReapChild(c)
  <2>1. /\ \A d \in Clients : d # c => phase'[d] = phase[d] /\ frame'[d] = frame[d]
        /\ phase[c] = "dead" /\ phase'[c] = "reaped" /\ result' = result
    BY <1>t, <1>12 DEF ReapChild
  <2> QED
    BY <1>s, <1>1, <2>1 DEF InCall
<1>13. CASE Respawn(c)
  <2>1. /\ \A d \in Clients : d # c => phase'[d] = phase[d] /\ frame'[d] = frame[d]
        /\ phase[c] = "reaped" /\ phase'[c] = "idle" /\ result' = result
    BY <1>t, <1>13 DEF Respawn
  <2>2. Stage[c] = "dead" /\ Stage'[c] = "idle" /\ AnswerSeen'[c] = AnswerSeen[c]
    BY <1>s, <2>1 DEF InCall
  <2>3. Remote!Reborn(c)
    BY <1>d, <2>1, <2>2, SeenAtOne DEF Remote!Reborn
  <2> QED
    BY <2>3 DEF Remote!Next
<1> QED
  BY <1>2, <1>4, <1>5, <1>6, <1>7, <1>8, <1>9, <1>10, <1>11, <1>12, <1>13 DEF ClientStep

\* The supervisor's answer is seen at the call that asked, once, or not at all
\* when that call is over.
LEMMA RemoteAnswer ==
  ASSUME TypeOK, AnswerInv, NEW m \in Requests, NEW v \in Verdicts, Answer(m, v),
         UNCHANGED <<phase, result>>
  PROVE  [Remote!Next]_(Remote!vars)
<1>1. m.call # 0
  BY MessageTypes DEF Request
<1>2. Stage' = Stage
  BY DEF Stage, InCall
<1>3. \A c \in Clients :
        frame'[c].answer = IF frame[c].call = m.call THEN v ELSE frame[c].answer
  BY DEF Answer, TypeOK, Frame
<1>4. CASE \E c \in Clients : InCall(c) /\ frame[c].call = m.call
  <2>1. PICK c \in Clients : InCall(c) /\ frame[c].call = m.call
    BY <1>4
  <2>2. \A d \in Clients : frame[d].call = m.call => d = c
    BY <1>1, <2>1 DEF AnswerInv, CallsAreDistinct
  <2>3. AnswerSeen' = [AnswerSeen EXCEPT ![c] = AnswerSeen'[c]]
    BY <1>3, <2>2, SeenAtOne
  <2>4. AnswerSeen'[c] = v /\ Stage[c] = "called"
    BY <1>3, <2>1 DEF AnswerSeen, Stage, InCall
  <2>5. AnswerSeen[c] = None
    BY <2>1 DEF AnswerSeen, AnswerInv, AnswersAreKnown
  <2>6. Remote!Answer(c)
    BY <1>2, <2>3, <2>4, <2>5 DEF Remote!Answer
  <2> QED
    BY <2>6 DEF Remote!Next
<1>5. CASE ~\E c \in Clients : InCall(c) /\ frame[c].call = m.call
  <2>1. AnswerSeen' = AnswerSeen
    BY <1>3, <1>5 DEF AnswerSeen, InCall
  <2> QED
    BY <1>2, <2>1 DEF Remote!vars
<1> QED
  BY <1>4, <1>5

LEMMA RemoteServer ==
  ASSUME TypeOK, AnswerInv, ServerStep \/ PcdDies
  PROVE  [Remote!Next]_(Remote!vars)
<1>1. ASSUME NEW v \in Verdicts, Serve(v) PROVE [Remote!Next]_(Remote!vars)
  <2>1. Head(inbox) \in Requests
    BY <1>1, RequestsOfTail DEF Serve, AnswerInv
  <2> QED
    BY <1>1, <2>1, RemoteAnswer DEF Serve, client
<1>2. ASSUME NEW v \in Verdicts, NEW m \in pending, ServePending(m, v)
      PROVE  [Remote!Next]_(Remote!vars)
  BY <1>2, RemoteAnswer DEF ServePending, client, Requests
<1>3. CASE UNCHANGED <<phase, frame, result>>
  BY <1>3 DEF Remote!vars, Stage, AnswerSeen, InCall
<1> QED
  BY <1>1, <1>2, <1>3 DEF ServerStep, ServeLater, ServeNoMemory, DropPending, PcdStarts,
    PcdOwns, PcdDies, client

\* The exchange implements the remote call that pcdapi.h promises, as long as no
\* two calls in progress share a message id: every step of it is a step of that
\* call, or is not seen by the callers.
THEOREM RemoteCallCorrect ==
  ASSUME FreshIds
  PROVE  Spec => ImplementsRemoteCall
<1>1. Init => Remote!Init
  BY DEF Init, Remote!Init, Stage, AnswerSeen, InCall
<1>2. TypeOK /\ AnswerInv /\ AnswerInv' /\ [Next]_vars => [Remote!Next]_(Remote!vars)
  <2> SUFFICES ASSUME TypeOK, AnswerInv, AnswerInv', [Next]_vars
               PROVE  [Remote!Next]_(Remote!vars)
    OBVIOUS
  <2>1. CASE Next
    BY <2>1, RemoteClient, RemoteServer DEF Next
  <2>2. CASE UNCHANGED vars
    BY <2>2 DEF vars, Remote!vars, Stage, AnswerSeen, InCall
  <2> QED
    BY <2>1, <2>2
<1> QED
  BY <1>1, <1>2, AnswerInvariant, PTL DEF Spec, ImplementsRemoteCall, Remote!Spec

=============================================================================

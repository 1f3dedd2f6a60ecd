----------------------------- MODULE Dataplane -----------------------------
(***************************************************************************)
(* The processes of the platform around the memory they share: the         *)
(* application manager (DPDK primary), which reads its configuration,      *)
(* initialises the shared memory and creates the rings; the dispatcher     *)
(* (DPDK secondary), which attaches to that memory, looks its rings up,    *)
(* flushes them and starts to receive; the other secondaries, which pass   *)
(* packet buffers through the rings while all this happens; and the        *)
(* supervisor, which starts the manager, starts the dispatcher when the    *)
(* manager's rule is completed, and starts again whichever of them dies.   *)
(*                                                                         *)
(* One ring, Shared, is followed step by step; the other rings of the      *)
(* configuration only exist or do not.                                     *)
(***************************************************************************)
EXTENDS RingUsers, LList

CONSTANTS
  Disp,          \* the dispatcher as a consumer of the ring
  RingConf,      \* the rings of the manager's configuration, in its order
  Shared,        \* the ring that is followed
  Ifs,           \* the dispatcher's interfaces: rx, then tx, then app
  NoName         \* no bypass interface

ASSUME DataplaneAssumption ==
  /\ Disp \in Consumers
  /\ RingConf \in Seq(Elements)
  /\ \A i, j \in DOMAIN RingConf : RingConf[i] = RingConf[j] => i = j
  /\ Shared \in {RingConf[i] : i \in DOMAIN RingConf}
  /\ Len(Ifs) \in Nat /\ DOMAIN Ifs = 1..Len(Ifs)
  /\ \A i \in DOMAIN Ifs : /\ Ifs[i].kind \in {"rx", "tx", "app"}
                           /\ Ifs[i].used \in BOOLEAN
                           /\ Ifs[i].eth \in BOOLEAN

VARIABLES
  mgr,       \* where the manager is
  ringList,  \* its CONF.ring_list
  cursor,    \* the element its walk over the list has reached
  created,   \* the rings it has created in the shared memory
  mem,       \* the shared configuration: none yet, being built, or ready
  mgrRule,   \* the supervisor's rule for it: waiting or completed
  disp,      \* where the dispatcher is
  ctx,       \* dispatcher_ctx: the interfaces it has stored
  flushAt,   \* where its flush has got to among them
  left,      \* dequeues left of the flush of a ring
  attached   \* each thread's memory: none, current, or stale (a dead manager's)

mgrVars  == <<mgr, ringList, cursor, created, mem, mgrRule>>
dispVars == <<disp, ctx, flushAt, left>>
vars == <<prodHead, prodTail, consHead, consTail, slots, op, pool, deaths,
          mgr, ringList, cursor, created, mem, mgrRule, disp, ctx, flushAt,
          left, attached>>

Init ==
  /\ RingInit
  /\ mgr = "dead" /\ ringList = LL_Init /\ cursor = Nil /\ created = {}
  /\ mem = "none" /\ mgrRule = "waiting"
  /\ pool = {} /\ deaths = 0
  /\ disp = "dead" /\ ctx = <<>> /\ flushAt = 1 /\ left = 0
  /\ attached = [t \in Threads |-> "none"]

-----------------------------------------------------------------------------
(***************************************************************************)
(* The manager.  A failure of any of its steps is exit(-1): MgrDies.       *)
(***************************************************************************)
MgrStart ==
  /\ mgr = "dead"
  /\ mgr' = "parse"
  /\ mgrRule' = "waiting"
  /\ ringList' = LL_Init
  /\ UNCHANGED <<cursor, created, mem, dispVars, attached, userVars>>

\* _parse_rings adds the next ring of the file to the list
MgrParseRing ==
  /\ mgr = "parse" /\ ringList.count < Len(RingConf)
  /\ ringList' = LListAdd(ringList, RingConf[ringList.count + 1])
  /\ UNCHANGED <<mgr, cursor, created, mem, mgrRule, dispVars, attached,
                 userVars>>

(***************************************************************************)
(* rte_eal_init of a primary clears the shared configuration and maps      *)
(* fresh memory: what processes attached to before is no longer what later *)
(* ones attach to.  Threads left in the old memory are not followed there. *)
(***************************************************************************)
MgrEalInit ==
  /\ mgr = "parse" /\ ringList.count = Len(RingConf)
  /\ mgr' = "eal"
  /\ mem' = "init" /\ created' = {} /\ pool' = {}
  /\ attached' = [t \in Threads |-> IF attached[t] = "none" THEN "none"
                                                            ELSE "stale"]
  /\ RingReset
  /\ left' = 0
  /\ UNCHANGED <<ringList, cursor, mgrRule, disp, ctx, flushAt, deaths>>

\* Mutant: the primary does not mark its configuration as complete
MgrEalDoneMut ==
  /\ mgr = "eal" /\ mgr' = "pools"
  /\ UNCHANGED <<ringList, cursor, created, mem, mgrRule, dispVars, attached,
                 userVars>>

MgrEalDone ==
  /\ mgr = "eal" /\ mgr' = "pools"
  /\ mem' = "ready"
  /\ UNCHANGED <<ringList, cursor, created, mgrRule, dispVars, attached,
                 userVars>>

\* _alloc_pkt_pools; _alloc_rings starts its walk
MgrPools ==
  /\ mgr = "pools" /\ mgr' = "rings"
  /\ pool' = Mbufs
  /\ cursor' = ringList.head
  /\ UNCHANGED <<ringList, created, mem, mgrRule, dispVars, attached, ringVars,
                 deaths>>

\* _alloc_ring
MgrRing ==
  /\ mgr = "rings" /\ LL_Continues(ringList, cursor)
  /\ created' = created \cup {cursor}
  /\ cursor' = ringList.next[cursor]
  /\ UNCHANGED <<mgr, ringList, mem, mgrRule, dispVars, attached, userVars>>

\* The walk is over: _alloc_eth_ports and _start_eth_ports
MgrPorts ==
  /\ mgr = "rings" /\ ~LL_Continues(ringList, cursor)
  /\ mgr' = "up"
  /\ UNCHANGED <<ringList, cursor, created, mem, mgrRule, dispVars, attached,
                 userVars>>

MgrDies ==
  /\ mgr # "dead" /\ deaths < MaxDeaths
  /\ mgr' = "dead" /\ deaths' = deaths + 1
  /\ cursor' = Nil
  /\ UNCHANGED <<ringList, created, mem, mgrRule, dispVars, attached, ringVars,
                 pool>>

\* END_COND WAIT of the manager's rule: only time has to pass
RuleCompletes ==
  /\ mgrRule = "waiting" /\ mgr # "dead"
  /\ mgrRule' = "completed"
  /\ UNCHANGED <<mgr, ringList, cursor, created, mem, dispVars, attached,
                 userVars>>

-----------------------------------------------------------------------------
(***************************************************************************)
(* The dispatcher.                                                         *)
(***************************************************************************)
notDisp == <<mgrVars, indices, slots, pool>>

\* The dispatcher's process ends
Gone ==
  /\ disp' = "dead" /\ ctx' = <<>> /\ flushAt' = 1 /\ left' = 0
  /\ attached' = [attached EXCEPT ![Disp] = "none"]
  /\ Leave(Disp)
  /\ UNCHANGED mgrVars

DispStart ==
  /\ disp = "dead" /\ mgrRule = "completed"
  /\ disp' = "eal"
  /\ UNCHANGED <<ctx, flushAt, left, attached, op, notDisp, deaths>>

\* rte_eal_init of a secondary: panics without a shared configuration, and
\* waits until the primary has completed it
DispAttach ==
  /\ disp = "eal"
  /\ \/ mem = "none" /\ Gone
     \/ /\ mem = "ready"
        /\ disp' = "ctx"
        /\ attached' = [attached EXCEPT ![Disp] = "current"]
        /\ UNCHANGED <<ctx, flushAt, left, op, notDisp>>
  /\ UNCHANGED deaths

Stored(i) == i.used

\* The interfaces _store_if_in_ctx keeps, in their order: each is known by its
\* place in the configuration
Context == [i \in {j \in DOMAIN Ifs : Stored(Ifs[j])} |-> Ifs[i]]

Kind(c, k) == {i \in DOMAIN c : c[i].kind = k}

\* _assign_bypass_interfaces: every name given is the name of a tx interface
BypassFound(c) ==
  \A i \in Kind(c, "rx") : c[i].bypass # NoName =>
    \E j \in Kind(c, "tx") : c[j].name = c[i].bypass

\* Mutant: the result of the lookup is not checked
LookupResultsMut == {TRUE}

\* Whether rte_ring_lookup finds the ring; in a stale memory it may or may not
LookupResults ==
  CASE \A i \in DOMAIN Context : Context[i].eth -> {TRUE}
    [] OTHER -> IF attached[Disp] = "current" THEN {Shared \in created}
                                              ELSE BOOLEAN

(***************************************************************************)
(* _init_app_ctx and _assign_bypass_interfaces, in one step: the context   *)
(* is the dispatcher's own, and Shared the only ring it looks up.          *)
(***************************************************************************)
DispContext ==
  /\ disp = "ctx"
  /\ \E found \in LookupResults :
       IF found /\ BypassFound(Context)
       THEN /\ disp' = "flush" /\ ctx' = Context /\ flushAt' = 1
            /\ UNCHANGED <<left, attached, op, notDisp>>
       ELSE Gone
  /\ UNCHANGED deaths

(***************************************************************************)
(* _init_interfaces: the rings of all interfaces are flushed, each of as   *)
(* many buffers as it holds when its turn comes.                           *)
(***************************************************************************)
ToFlush == {i \in DOMAIN ctx : i >= flushAt /\ ~ctx[i].eth}

DispFlush ==
  /\ disp = "flush" /\ left = 0 /\ op[Disp] = Idle
  /\ attached[Disp] = "current"
  /\ \E i \in ToFlush : (\A j \in ToFlush : i <= j) /\ flushAt' = i + 1
  /\ left' = RingCount
  /\ UNCHANGED <<disp, ctx, attached, op, notDisp, deaths>>

\* A step of rte_ring_dequeue
DispDequeue ==
  /\ disp = "flush" /\ left > 0
  /\ RingStep(Disp)
  /\ UNCHANGED <<mgrVars, dispVars, attached, pool, deaths>>

\* rte_ring_dequeue has returned a buffer, which is freed
DispFree ==
  /\ disp = "flush"
  /\ Drop(Disp)
  /\ left' = left - 1
  /\ UNCHANGED <<disp, ctx, flushAt, attached, mgrVars, deaths>>

\* Mutant: the flush goes on until the ring is empty
DispEmptyMut ==
  /\ disp = "flush"
  /\ op[Disp] = Idle /\ Entries = 0
  /\ left' = left - 1
  /\ UNCHANGED <<disp, ctx, flushAt, attached, op, notDisp, deaths>>

\* Mutant: the result of the dequeue is not tested, and whatever the pointer holds
\* is freed
DispEmptyFreeMut ==
  /\ disp = "flush" /\ left > 0
  /\ op[Disp] = Idle /\ Entries = 0
  /\ left' = left - 1
  /\ \E m \in Mbufs : pool' = pool \cup {m}
  /\ UNCHANGED <<disp, ctx, flushAt, attached, op, mgrVars, indices, slots,
                 deaths>>

\* rte_ring_dequeue has returned -ENOENT: others were faster
DispEmpty ==
  /\ disp = "flush" /\ left > 0
  /\ op[Disp] = Idle /\ Entries = 0
  /\ left' = left - 1
  /\ UNCHANGED <<disp, ctx, flushAt, attached, op, notDisp, deaths>>

DispLoop ==
  /\ disp = "flush" /\ left = 0 /\ op[Disp] = Idle
  /\ ToFlush = {} \/ attached[Disp] = "stale"
  /\ disp' = "loop"
  /\ UNCHANGED <<ctx, flushAt, left, attached, op, notDisp, deaths>>

(***************************************************************************)
(* _process_incoming_packets: its first statement for the first interface  *)
(* clears the memory rx_pkts[0] points at, and rx_pkts has just been set   *)
(* to null pointers: the process is killed by the fault.  Nothing after it *)
(* is reached.                                                             *)
(***************************************************************************)
DispReceive ==
  /\ disp = "loop" /\ Kind(ctx, "rx") # {}
  /\ Gone
  /\ UNCHANGED deaths

\* The dispatcher is stopped, killed or crashes
DispDies ==
  /\ disp # "dead" /\ deaths < MaxDeaths
  /\ deaths' = deaths + 1
  /\ Gone

-----------------------------------------------------------------------------
(***************************************************************************)
(* The other secondary processes, which are not in the repository: all     *)
(* that is said of them is that they use the ring as its interface asks.   *)
(***************************************************************************)
Apps == Threads \ {Disp}

\* They start together, and look the ring up until they find it
AppsAttach ==
  /\ \E t \in Apps : attached[t] # "current"
  /\ mem = "ready" /\ Shared \in created
  /\ attached' = [t \in Threads |-> IF t = Disp THEN attached[t]
                                                ELSE "current"]
  /\ UNCHANGED <<mgrVars, dispVars, userVars>>

AppStep(t) ==
  /\ attached[t] = "current"
  /\ UserStep(t)
  /\ UNCHANGED <<mgrVars, dispVars, attached>>

-----------------------------------------------------------------------------
MgrStep ==
  \/ MgrParseRing \/ MgrEalInit \/ MgrEalDone \/ MgrPools \/ MgrRing
  \/ MgrPorts

DispStep ==
  \/ DispAttach \/ DispContext \/ DispFlush \/ DispDequeue \/ DispFree
  \/ DispEmpty \/ DispLoop \/ DispReceive

Next ==
  \/ MgrStart \/ MgrStep \/ MgrDies \/ RuleCompletes
  \/ DispStart \/ DispStep \/ DispDies
  \/ AppsAttach
  \/ \E t \in Apps : AppStep(t)

Spec == Init /\ [][Next]_vars

-----------------------------------------------------------------------------
(***************************************************************************)
(* Every process goes on while it can, and the supervisor starts what its  *)
(* rules allow (DaemonRecovers of Pcd).  Nothing is assumed of a           *)
(* dispatcher left in the memory of a dead manager: its flush may wait     *)
(* there for ever.                                                         *)
(***************************************************************************)
Fairness ==
  /\ WF_vars(MgrStart) /\ WF_vars(MgrStep) /\ WF_vars(RuleCompletes)
  /\ WF_vars(DispStart) /\ WF_vars(DispStep /\ attached[Disp] # "stale")
  /\ \A t \in Apps : WF_vars(AppStep(t))

FairSpec == Spec /\ Fairness

-----------------------------------------------------------------------------
\* Every variable has the type the code declares for it.
TypeOK ==
  /\ UsersTypeOK
  /\ mgr \in {"dead", "parse", "eal", "pools", "rings", "up"}
  /\ cursor \in Elements \cup {Nil} /\ created \in SUBSET Elements
  /\ mem \in {"none", "init", "ready"}
  /\ mgrRule \in {"waiting", "completed"}
  /\ disp \in {"dead", "eal", "ctx", "flush", "loop"}
  /\ flushAt \in 1..(Len(Ifs) + 1)
  /\ left \in 0..(Size - 1)
  /\ attached \in [Threads -> {"none", "current", "stale"}]

\* The dispatcher flushes and receives only from rings of a manager that had
\* created them: WAIT lets it start before that, and then it ends in a failed
\* lookup, not in a null pointer.
RingsExist ==
  /\ disp \in {"flush", "loop"} /\ attached[Disp] = "current"
  /\ \E i \in DOMAIN ctx : ~ctx[i].eth
  => Shared \in created

\* The manager's list of rings is the sequence its configuration gives, at
\* every moment of the parse and of the walk, and a manager that got past the
\* walk has created every ring of it.
RingsAreConf ==
  /\ IsSequence(ringList, SubSeq(RingConf, 1, ringList.count))
  /\ mgr = "up" => created = {RingConf[i] : i \in DOMAIN RingConf}

\* The flush of the dispatcher, deaths of it and restarts of the manager
\* included, no buffer of the current memory is lost but by a death.
FlushLosesNothing == Shared \in created => NoLeak

\* A position of the ring whose claim nobody will finish: the process that
\* made it is dead
Abandoned ==
  \/ /\ consTail # consHead
     /\ \A t \in Consumers : Holds(t) => op[t].at # consTail
  \/ /\ prodTail # prodHead
     /\ \A t \in Producers : Holds(t) => op[t].at # prodTail

AppClaims == \E t \in Apps \cap Consumers : DeqClaim(t) /\ Claims(ScDeq, consHead, t)

\* Once faults stop, the platform boots: the dispatcher gets to its receive
\* loop again and again (where it dies, see DispReceive).  The exceptions are
\* the real ones: a death inside a ring operation left a claim that every
\* later operation waits for; its flush never ends, because other consumers
\* claim again and again in front of it; it sits in the memory of a dead manager.
Boots ==
  \/ []<>(disp = "loop")
  \/ <>[]Abandoned
  \/ <>[](disp = "flush" /\ left > 0) /\ []<><<AppClaims>>_vars
  \/ <>[](attached[Disp] = "stale")
=============================================================================

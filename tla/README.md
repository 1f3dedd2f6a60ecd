# A TLA+ verification of cyber-platform

The platform is a set of DPDK applications started and watched by the *Process
Control Daemon* (PCD 1.1.6, `src/apps/space-pcd-master/pcd-1.1.6`). PCD reads
rules ("start this command when that condition holds, wait for that end
condition, on failure do this"), forks the commands, and restarts, replaces or
reboots when they fail. If PCD is wrong, nothing else of the platform stays up,
so PCD is the core of this project. Around it stand the two applications of the
repository, the application manager and the dispatcher, and the DPDK ring through
which processes pass packets. Paths below are relative to
`src/apps/space-pcd-master/pcd-1.1.6` unless they begin with `src/`.

## 1. Inventory

| Component | State it keeps | Operations | Talks to |
|---|---|---|---|
| main loop (`pcd/src/main.c`) | tick counter, "process pass wanted" flag | init; turn = messages, timer iteration, process pass | all |
| rule database (`rules_db.c`) | groups and rules in sorted order; per rule its state, process pointer, delay, ready flag | add, lookup (with clones of indexed rules), activate | timer |
| timer queue (`timer.c`) | queue of (rule, remaining timeout), enqueue list, dequeue list | iterate, enqueue/dequeue a rule | conditions, process list, failure actions |
| conditions (`condchk.c`) | none of its own: consumes the rule's delay and ready flag | one check per start and end condition | rules, processes, the outside world |
| failure actions (`failact.c`) | none | NONE, REBOOT, RESTART, EXEC_RULE | process stop; returns a rule for its caller to enqueue |
| process supervision (`process.c`) | list of process objects with a state machine RUNME → STARTING → RUNNING → TERMME → KILLME / STOPPING → STOPPED | enqueue, stop, start pass, stop pass, SIGCHLD handler, trigger action | fork, kill, waitpid; timer queue; API reply |
| API server (`pcd_api.c`) | none: cookies of blocked clients are in process objects | start, terminate, terminate and wait, kill, ready, query, signal | timer queue, processes, IPC |
| API client (`pcdapi/src/pcdapi.c`) | message id | request/reply with timeouts, register, exception handler | IPC |
| IPC (`ipc/src/ipc.c`) | 32 slots in shared memory, a semaphore, a socket per slot | start, stop, send, wait, reply, cleanup by pid | clients and server |
| parser (`parser.c`) | keyword status, rule under construction | one handler per keyword | rule database |
| exception handler, error log, misc | a FIFO; a file; none | format a crash report; append; set a priority | files |
| host rule compiler (`pcd/src/parser`) | none | prints a header and a graph | files |
| linked list (`src/common/llist`) | head, tail, count; next and prev in the elements | init, add at the end, for-each (the rest is never called) | applications |
| application manager (`src/apps/app_manager`) | lists of pools, ports and rings; tables of what it created | parse the configuration; initialise the shared memory; create pools, rings, ports; start ports | DPDK as primary; PCD as a daemon |
| dispatcher (`src/apps/dispatcher`) | a context with its rx, tx and app interfaces | attach; look rings up; assign bypasses; flush; receive | DPDK as secondary; rings of the manager; PCD as a daemon |
| DPDK ring (`src/dpdk-stable-16.07.2/lib/librte_ring`) | four indices and an array in shared memory | enqueue, dequeue (one or many producers and consumers), count, create, look up | all processes of the data plane |
| DPDK environment (`librte_eal`) | the shared configuration with its "complete" mark | initialise (primary), wait and attach (secondary) | all processes of the data plane |
| rest of DPDK, json-c, kconfig | | | vendored |

**How they interact.** One thread runs everything in PCD. A turn of its loop
serves at most five messages, iterates over the timer queue, and (when the
iteration asks for it, or every `PCD_PROCESS_TICK`) passes twice over the
process list: once to spawn, once to stop and to bury. `rule->proc` and
`proc->rule` tie the two lists together and are written by all four parts. The
SIGCHLD handler interrupts the thread anywhere except between fork and the
update of the object, and writes the state and the return status of an object.

**What is hard.**

* The SIGCHLD handler and the thread write the same field (`process.c:719`).
* A stop disconnects the rule at once but the process lives on for several
  passes; the rule may be started, stopped and started again meanwhile, and the
  old object is buried under a rule that has a new one (`process.c:670`, `757`).
* Whether an exit counts as expected depends on the order of the client's
  request, the exit, the signal and the passes (`process.c:768`).
* SIGKILL moves the object on without waiting for SIGCHLD (`process.c:899`).
* Failure actions check their target, and the enqueueing happens later
  (`failact.c:119`, `timer.c:365`).
* A refused failure action makes the pass stay at the same object
  (`process.c:776`); a TERMME waits behind every KILLME (`process.c:870`).
* The exit status must survive in the object until a timer iteration has seen it.
* Clients time out, die with slots, and meet late replies (IPC).
* One static rule serves all blocks of all rule files, an INCLUDE in the middle of a
  block saves and restores it, and errors of included files are ignored
  (`parser.c:543`, `559`).
* Any request about an unknown id may add a clone of a template to the database, with
  the state and the process pointer of the template (`rules_db.c:254`).
* Ring operations of different processes interleave at every access to the shared
  indices, which wrap; a process may die between claim and publication
  (`rte_ring.h:478`, `501`).
* The dispatcher is started five seconds after the manager, whether its rings exist or
  not (`src/config/system.pcd:12`); a restarted manager replaces the memory under everyone else.

**What makes each part correct.**

* Processes: pointers consistent, no object freed under a running child,
  terminations serialised, every stop ends, a dead daemon comes back.
* Timer queue: an active rule is in the queue, and once; counters do not wrap.
* Failure actions: the target is idle and has no process when it is enqueued.
* API: a stop is final, a blocked client is answered, start never doubles.
* Main loop: always comes back to its messages.
* IPC and client: a slot has one holder, the supervisor can be found, a reply is taken
  for the request it answers, a call returns.
* Parser and rule database: a rule is made of the lines of its own block, the database is
  sorted, lookup finds the most specific template, instances do not share processes or
  parameters.
* List: it is the sequence of what was added.
* Ring: it is a bounded queue; a buffer has one owner and none is lost.
* Manager and dispatcher: the dispatcher only uses rings that exist, and gets to its
  loop once the faults stop.

## 2. The modules

| Module | Models | Correspondence |
|---|---|---|
| `PcdState` | the data (`process.h`, `rules_db.h`, `rulestate.h`), `PCD_process_stop`, failure actions | `ruleState`, `ruleProc`, `delay`, `ready` are the mutable fields of `rule_t`; `proc[p]` is a `procObj_t`; `os[p]` is the child forked for it |
| `PcdTimer` | `timer.c`, `condchk.c` | one action per outcome of visiting a timer object; `TimerDone` is `PCD_timer_enqueue_handle` and the decision of `main.c:274` |
| `PcdProcess` | `process.c`, children, SIGCHLD | one action per branch of the two passes; `ChildEnds`, `KilledEnds`, `SendReady` are the children, `Sigchld` the handler |
| `PcdApi` | `pcd_api.c` | one action per request that changes state |
| `Pcd` | `main.c`, `PCD_rulesdb_activate` | composes the three over the shared state; `pc` is where the loop is. All properties are here |
| `PcdIpc` | `ipc.c`, the exchange of `pcdapi.c` and `pcd_api.c` | `slot` and `owner` are the table in shared memory; `phase` and `frame` are where a client is in `PCD_api_malloc_and_send` and its locals; `pending` are the cookies; one action per step of the client between two accesses to shared state |
| `PcdCall` | `pcdapi.h` | abstract: what a call promises its caller; `PcdIpc` implements it |
| `RulesDb` | `rules_db.c` | operators on the database: `AddRule`, `Lookup` (with its clone), `FirstRule`, `NextRule`. No variables |
| `Parser` | `parser.c` | `status` is `readParseStatus`, `rule` the static rule, `stack` the locals of the nested `PCD_parser_handle_INCLUDE`; one action per kind of line |
| `PcdRules` | `PCD_rulesdb_activate`, the lookups of `pcd_api.c`, optional parameters | composes `Parser` and `RulesDb`; a rule either waits in the timer queue, has a process, or neither (the rest is `Pcd`) |
| `Ring` | `rte_ring.h`, `rte_ring.c` | the four indices and the slots are variables; `op[t]` is where thread `t` is in an operation and its locals |
| `RingUsers` | the processes on both ends of a ring | allocate, enqueue, dequeue, free, or be killed at any point |
| `Fifo` | | abstract: what a ring promises; `RingUsers` implements it |
| `LList` | `llist.c` | operators on a list as a record of its pointers, and what sequence it is |
| `Dataplane` | manager, dispatcher, `rte_eal_init`, the supervisor's two rules | composes `RingUsers` and `LList`; `mgr` and `disp` are where the two processes are, `mem` is the shared configuration, `attached` which memory a process sees |
| `PcdTypeProofs`, `PcdProofs`, `PcdLifeProofs`, `PcdTimerProofs`; `PcdIpcProofs`; `RulesProofs`; `RingProofs`, `DataplaneProofs` | | the theorems about `Pcd`, `PcdIpc`, `PcdRules`, `RingUsers` and `Dataplane` |
| `MCPlatform`, `MCJobs`, `MCDaemon`, `MCIpc`, `MCRules`, `MCRing`, `MCDataplane` | | instances for TLC |

`PcdIpc` and the modules of the supervisor look at the same requests from two
sides: `PcdApi` has what a request does, `PcdIpc` how it and its answer travel.
They are not composed: the answer's value and the time at which a cookie is
answered are left open in `PcdIpc`, so that it covers every supervisor.

`timerTodo` and `procTodo` are the iterators: what a pass has still to visit. A
pass is a sequence of steps, one per object, so that SIGCHLD and the children may
act between two objects. `timerQ` during an iteration is the part already
visited and kept. Operators whose name ends in `Mut` are mutated versions used
to test the properties; no specification uses them.

Abstractions:

* *Exit status.* Only "the expected one / another / by a signal" is kept, which
  is all the code compares. `RETSTOPPED` cannot occur: `waitpid` is not asked
  for stopped children.
* *Conditions on the outside* (FILE, NETDEVICE, IPC_OWNER, ENV_VAR) are
  "EXTERNAL": either result at any check.
* *Time* is counted in turns (`Tick`); `StartingTm` and `KillTm` are pass counts,
  as in the code.
* *Memory* is the pool `Procs`: `malloc` of a process object fails when it is
  empty. An object's name is not reused while the child forked for it is still
  around, so `os[p]` can stand for the pid. Failing `malloc` of timer objects is
  left out.
* *Requests* that change nothing (refused, queries, signals) are `ApiAnswered`:
  they use up the message budget. Client timeouts are not modelled, and a client
  blocked in the synchronous terminate makes no other call. A request is made
  and served in one step: what lies between is `PcdIpc`.
* *REBOOT* takes the loop to `pc = "down"` for good.
* *SIGCHLD inside a branch.* The handler runs between steps. The one place where
  running inside a branch makes a difference that the passes do not undo is the
  assignment of RUNNING, which is an action of its own (`StartedRaced`).

Abstractions of `PcdIpc`:

* *The table's lock.* Every access to the table is made under it or is a read that
  the holder of the slot alone can invalidate, so an access is one step. Processes die
  outside it; a death inside it leaves it locked for everyone, and is not modelled,
  nor is the lock inside a process (`info.lock`), since clients have one thread.
* *Requests.* Their kind is left out: any request may be answered at once, kept as a
  cookie, or dropped for lack of memory.
* *Call numbers and answers* in `frame` and in messages are history: they name the
  call a message belongs to, and no guard reads them.
* *The message id* is any word of `Garbage` less the slot's index
  (`pcdapi.c:143`). `FreshIds` says whether two calls in progress may share one.
  The 32-bit subtraction is one-to-one for each slot, so its wrap is left out.
* *Processes.* Pids are not reused. `Respawn` puts a new process in a dead client's place.
  Clients of a supervisor that died are nobody's children: their slots stay, as in
  the code.
* *Not modelled:* the race of two processes in `IPC_init`, the supervisor's clean
  exit, slots that a process opens for itself besides those of its calls.

Abstractions of `RulesDb`, `Parser` and `PcdRules`:

* *Names* are sequences of numbers, because lookup depends on their order and on prefixes.
* *Lines* are a keyword and whether its handler accepts the value; all files up to the bounds
  are read, so a file is never fixed. SCHED, DAEMON and USER are one line, OPTION.
* *Blocks.* A field remembers in which block its line stood. That is history: no guard reads it.
* *Processes* start and end in one step. A clone made while its template was itself busy is
  in `sharing`; what a stop of such a clone does to the template's process is not followed.

Abstractions of `Ring`, `RingUsers` and `Dataplane`:

* *Steps of an operation.* Read (both indices), claim, copy, publish. The two reads are
  one step: if the head moved in between, the compare-and-set fails; and the tail only
  moves on, which makes the room or the number of entries larger. Loads and stores keep their
  order, as on the x86 the platform is built for.
* *The compare-and-set.* A thread that sleeps between read and claim while the head goes
  around all of its 2^32 values would be fooled. With `Wrap = 8` that would
  happen at once, so `MaxLag` (see `LapsNobody`) keeps the others from going that far ahead.
* *One object* per operation, as the platform calls it. The default water mark is never exceeded.
* *Memory.* When a restarted manager has initialised new memory, the ring of the old one is no longer
  followed: threads in it are `stale`, and a lookup there may succeed or fail.
* *Failures* of pools, rings, ports and of the configuration all end in `exit(-1)`, which is
  `MgrDies` at that point.
* *Other processes.* The repository has no other secondaries; `AppsAttach` and `AppStep` are what a
  correct user of the ring may do (external in the map).
* *END_COND WAIT* is a delay: `RuleCompletes` may come at any time after the manager has started,
  before its rings exist too. The dispatcher's rule is only its restarts.

## 3. Runs

| Run | Instance | Shows |
|---|---|---|
| `platform` | the two rules of `src/config/system.pcd` | `TypeOK`; a new object is spawned in the turn that made it (`SpawnedInSameTurn`); the process list is exact while it is edited during a pass (`ListIsExact`); one timer object per rule (`TimerObjIsUnique`) |
| `jobs` | a job with a timeout and EXEC_RULE, a rescue with REBOOT, a pseudo rule, a rule with an unknown dependency, two process objects, failing forks, the signal window | no active rule outside the queue (`ActiveIsQueued`), no lost child (`RunningChildIsTracked`), pointers (`PointerInv`), a rule that waits for an exit loses its process only to a signal (`ExitIsSeen`) |
| `daemon_live` | one restarted daemon, three requests, with fairness, no failing fork, no signal window | `Connected`, `Owned`, `StartWaitingHasNoProcess` and one termination at a time (`OneTermination`) with up to three generations of the process on the list; the loop returns (`MainLoopReturns`), every stop ends (`StopEnds`), the daemon recovers (`DaemonRecovers`), up means there is a child (`UpHasChild`) |
| `ipc` | two clients, three slots, three calls, one crash of the supervisor | the table and its users agree (`SlotIsHeld`), the supervisor is found and the slot looked up leads to it (`ServerIsFound`), an answer is the answer to the call (`ReplyIsOwn`), the exchange implements a remote call (`ImplementsRemoteCall`), a call returns (`CallEnds`) |
| `rules` | two templates of which one is a prefix of the other, a rule in another group, an include, errors anywhere; two instances, three requests | a rule is made of its own lines (`RulesAreWhole`), the database is sorted (`DbIsSorted`), active rules are enqueued once and in order (`ActivatedInOrder`), lookup uses the longest template (`TemplateIsLongest`), instances keep their own processes (`InstancesAreApart`) and parameters (`ArgsAreAsked`) |
| `ring` | two producers, two consumers, four buffers, three of them fit; one death | the order of the indices (`IndexOrder`), one owner per buffer (`BufferHasOneOwner`), only the dead lose buffers (`NoLeak`), the ring implements a queue (`ImplementsQueue`) |
| `dataplane` | a single-producer ring shared by a producer, a consumer and the dispatcher; a manager with two rings; two deaths | rings exist when they are used (`RingsExist`), the list of rings is the configuration and all are created (`RingsAreConf`), the flush loses nothing (`FlushLosesNothing`) and, beside the others and over restarts of the manager, gives no buffer a second owner (`BufferHasOneOwner`), the platform boots when the deaths stop (`Boots`) |
| `mixed_reply` | `ipc` with message ids that may coincide | the reply to another call is taken (section 5) |
| `stopped_restarts`, `blocked_client`, `lost_sigchld`, `fresh_start` | the daemon | disagreements of the code with its manual and comments, section 5 |

**Bounds and why they are enough.** Three process objects allow a new process,
one being killed and one being buried at the same time, the most that three
requests can produce; two objects in `jobs` and `platform` make `malloc` fail.
`KillTm = 1` and `StartingTm` in {0, 1} take both branches of each countdown; a larger
value only repeats the waiting step. `ProcTick = 2` with `Tick = 1` makes turns with
and without a process pass. `Budget = 1` lets messages pile up over turns.
`MaxReqs` bounds requests over the whole behaviour: 3 gives stop-start-stop.
Delays and timeouts of 0, 1, 2 ticks reach both ends of the countdown.
In `ipc` three slots are too few for a supervisor, its predecessor's slot and
two clients; `QueueLen = 1` makes its socket full; three calls let one client
give up, a second take the slot and a third reuse it while the first answer is
still to come. `CHECK_DEADLOCK FALSE` there: when the calls are used up, nothing is left
to do.
In `rules`, `MaxRules = 2` with `MaxIncludes = 1` gives a block before, inside and after an
included file, and both templates in the database; `MaxReqs = 3` lets a rule be started,
stopped and started again, or one instance be used between two uses of the other. A parse
that failed, or requests used up, is the end (`CHECK_DEADLOCK FALSE`).
In `ring`, `Size = 4` holds three buffers, fewer than the four there are, so that the ring is full;
`Wrap = 8` makes the indices wrap twice around the slots; `MaxLag = 1` lets a thread lose its race to
any other once before it reads again. In `dataplane`, `Size = 2` and `Wrap = 4` are the smallest ring,
`MaxDeaths = 2` lets the manager and the dispatcher die once each or one of them twice. A
death inside an operation blocks a ring for good, as in the code: `CHECK_DEADLOCK
FALSE` for both. `SYMMETRY` of buffers and of the threads on one side is sound in `ring`, whose properties
are all safety. The theorems of section 4 remove these bounds.

**Fairness** (`FairSpec`): weak fairness of `MainStep` (the thread is runnable; nothing
in its loop blocks longer than a tick), of `Sigchld(p)` (the kernel delivers a
pending signal) and of `KilledEnds(p)` (SIGKILL cannot be ignored). Nothing is
assumed of a client or of a child that was only asked to terminate, so `StopEnds`
rests on the escalation to SIGKILL, as the code does. In `PcdIpc`, `FairSpec` is
weak fairness of a client's own steps only: a client that has begun a call goes on, and
`select` returns when something arrives or its time is up. Nothing is assumed of the
supervisor, which may never answer. In `Dataplane`: weak fairness of the steps of the manager, of the dispatcher and
of each application (they are runnable processes, and waiting in a ring is a loop),
of the starts by the supervisor (`DaemonRecovers`) and of the end of a delay. Nothing is
assumed of a dispatcher that is left in the memory of a dead manager. `Boots` names
the ways in which the code itself does not boot: an abandoned claim in the ring, a flush that never ends while other
consumers claim again and again in front of it, stale memory. The second is no excuse for a dispatcher that hangs
anywhere else: it must be in its flush, with buffers left to take, from some moment on.

`DaemonRecovers` holds without the signal window and fails with it (`lost_sigchld`);
`UpHasChild` fails with a failing fork (observation 4). Those two switches
are off in `daemon_live` for that reason only.

## 4. Proofs

**The supervisor** (`PcdTypeProofs`, `PcdProofs`, `PcdLifeProofs`, `PcdTimerProofs`). The theorems hold
for every rule set, configuration, pool, budget and timing that satisfies the assumptions of `PcdState` (`ConfAssumption`: the configuration is
well typed, `ActiveRules` lists exactly the active rules, each once, and WAIT has
no timeout, which the parser enforces; `SentinelAssumption`: NULL is no rule,
process or client; `BoundAssumption`: the counters are naturals).

* `TypeCorrect`: `Spec => []TypeOK`. `TypeOK` alone is not inductive: the passes and
  the SIGCHLD handler index rule functions with `proc[p].rule`, which is typed only if
  the object is allocated. The inductive invariant `TypeInv` adds `ObjectHasRule`.
  One lemma per group of actions; the sequence helpers (removal, unlinking) and
  the countdowns have lemmas of their own. The type of `delay` says that the
  unsigned countdown of WAIT never wraps.
* `PointersCorrect`: `Spec => []PointerInv`, and from it `ConnectedCorrect`,
  `OwnedCorrect`, `StartWaitingCorrect`. The three need each other: a start is safe
  because `ruleProc = NoProc` means that no process of the rule is up (`Owned`); a
  stop disconnects only an object of that rule (`Connected`); a restart from
  the stop pass enqueues only a rule without a process. `EnqueueListIsIdle`
  closes the gap between the check of a failure action and
  `PCD_timer_enqueue_handle`: without it `TimerDone` could make a rule START_WAITING
  that has a process. `StartWaitingCorrect` shows that the branch
  marked "how could this be??" (`timer.c:462`) is dead code.

* `ListIsExactCorrect`, `SpawnedCorrect`, `RunningChildCorrect`, `OneTerminationCorrect`:
  from `LifeInv`. Each of the many branches of the passes is first put into one of a
  few shapes (an object is made, spawned, marked, unlinked, freed), and the invariant is
  proved once per shape. The list part of it also says that what a pass has still
  to visit is on the list, each object once.
* `UpHasChildCorrect` has two hypotheses, that fork does not fail and that the signal
  window is off. Without the first it is observation 4, without the second the run
  `lost_sigchld`.
* `ActiveIsQueuedCorrect`: from `QueueInv`, which also says that outside an iteration
  nothing of the queue is left to visit.
* `ExitIsSeenCorrect`, an action property, from `ExitInv`: an object that was signalled has been
  let go by its rule; one that its rule still points at is STOPPING or STOPPED only with a status from
  SIGCHLD; and from the pass that makes it STOPPED to the pass that frees it, the timer
  iteration has still to visit a rule that waits for that exit.
* `PassMovesOnCorrect`: `PCD_process_iterate_stop` stays at an object whose failure
  action is refused (`process.c:776`). It is never refused there, so the pass ends.
* `TimerObjIsUniqueCorrect`, `QueueIsExact`: if `PlainRules`, no rule has two timer objects, and a rule
  has one exactly while its state is START_WAITING or END_WAITING. `PlainRules` says that no rule is
  named by the failure actions of two rules (a RESTART names its own rule) and that no start condition
  names a missing rule. Both are needed: without the first there is observation 2, without the second
  observation 6. The rules of `src/config/system.pcd` satisfy it, which TLC evaluates
  (`PlatformIsPlain` of `MCPlatform`). The inductive invariant `UniqueInv` has four parts. The queue and
  what is left of it to visit hold each rule once between them (`UniqueObjs`). A rule in the queue is active
  (`QueuedIsActive`), so that the test of the state in front of every enqueue is a test of the queue. The
  enqueue list holds no rule twice. And a rule is on that list because of a rule that names it and has
  already been taken out of the iteration (`Blamed`): when a rule fails that is still to be visited, its target
  is not on the list, because no other rule could have put it there.

**The exchange** (`PcdIpcProofs`). The theorems about `PcdIpc` hold for any number of clients, slots, calls and crashes, from
`IpcAssumption` (the supervisor is no client, a free slot is neither, the bounds
are naturals).

* `IpcTypeCorrect`: `Spec => []TypeOK`, with `CallsAreNumbered`: a request carries the
  number of a call only if the call has one when it is sent.
* `SlotsCorrect`, `ServerFoundCorrect`: from `TableInv`, in which `SlotIsHeld`,
  `ServerIsFound` and `ServerKeepsSlot` are inductive together. The supervisor's slot is
  never freed by the burial of a child because that frees only slots in the
  child's name; and a dead supervisor's slot is never freed at all, which is why a client that
  looked it up before the crash still reaches the new supervisor by its path.
* `ReplyCorrect`, `RemoteCallCorrect`: if `FreshIds`, then `Spec => []ReplyIsOwn` and
  `Spec => ImplementsRemoteCall`. The invariant `AnswerInv` says that call numbers are
  distinct, that an unsent call has no message on its way, that a request is in the system once
  (in the socket or as a cookie), that a reply on its way carries the answer that was given,
  and that a message with the id a client waits for belongs to that client's call. The
  last part is the one place that uses `FreshIds`, at `Send`. The refinement
  maps a call to `called` from `Begin` until its result is known.
  Without the assumption the theorem is false: `mixed_reply`.

**The rules** (`RulesProofs`). For any rule files with any nesting of includes and any errors,
any templates, ids and parameters, and any number of requests, from `RuleIdsAssumption` and
`IdsAssumption` (an id is a group and a name, a name is a sequence of numbers).

* *The order of names.* `Less` is irreflexive, transitive and total (`LessIrreflexive`,
  `LessTransitive`, `LessTotal`). Totality needs the first place at which two names differ.
  Induction over data is out of reach, so the least element of a set of naturals comes from the
  library's theorem that a well-founded relation has minimal elements (`Least`).
* *The database as a value.* `AddRuleSorts`, `LookupAdds` and `ApplySorts` say of any
  sorted database what adding, looking up and changing a rule make of it: it is
  sorted again, and which rules are in it.
* *The inductive invariant* `RulesInv` has three parts. `ParserInv`: the parser, and each of the
  files that wait for an include to end, is a `Frame`: in front of its first block, or in a
  block whose lines so far made the rule. `DbInv`: the database is sorted, its rules
  are good, and nothing is known of an id without a rule, so that a new
  rule or clone starts with a clean slate. `CursorInv`: the walk of `PCD_rulesdb_activate`
  points at a rule.
* `ActivatedInOrderCorrect`: from `WalkInv`: the list of activated rules is in the order of the database and holds
  exactly the active rules the cursor has passed. `NextPasses` says that `NextRule`, which crosses from a
  group to the next, passes one rule more and no other. The order (`Precedes`) is stated
  by positions in the database, so that no flattening of it has to be computed.
* `RulesAreWholeCorrect`, `DbIsSortedCorrect`, `InstancesAreApartCorrect` and
  `ArgsAreAskedCorrect` follow from it at once. `TemplateIsLongestCorrect` needs
  `LaterIsLonger`: of two prefixes of one name, the greater is the longer.

**The ring** (`RingProofs`). For any number of threads, buffers and deaths, any size and width of
the indices, from `RingAssumption`, `SlotAssumption` (positions less than the size apart have
different slots; true because the size and 2^32 are powers of two) and `DeathsAssumption`. `FlagsHold` says
that a side declared single has one thread, which `rte_ring_create` requires of its
callers. `ProducersLive` says that a *single* producer is not killed: it does not wait for
earlier claims, so its successor would publish the dead one's position with whatever is in
the slot. Multi-producer rings need no such hypothesis. The compare-and-set is safe only if no
thread sleeps while the head goes once around all indices; that is the guard `LapsNobody`, with
any `MaxLag` below the width.

* `UsersTypeCorrect`, `IndexOrderCorrect`: from `IndexInv`. `IndexOrder` needs to know that open
  claims lie between tail and head, each claimed by one thread, and that what a thread has read is
  still true if the head has not moved (`ReadsAreGood`), which is what the compare-and-set tests.
* `OneOwnerCorrect`, `NoLeakCorrect`: `BufferInv` adds what the slots of claimed
  positions hold, and that a single producer publishes in order.
  A killed thread takes at most the buffer in its hands.
* `QueueCorrect`: `UsersSpec => ImplementsQueue`. An enqueue takes effect when it publishes, a
  dequeue when it claims; every other step is a stutter of `Fifo`.

**The platform** (`DataplaneProofs`). For any list of rings and interfaces and any number of deaths,
from `DataplaneAssumption`, `NilAssumption` and those of the ring, with `FlagsHold` only: applications do not
die in `Dataplane`.

* `PlatformTypeCorrect`, `RingsExistCorrect`, `RingsAreConfCorrect`, `FlushCorrect`,
  `PlatformOneOwner`, all from `PlatformInv`. The list of the manager is the part of the
  configuration parsed so far and the other elements are in no list, which is what `llist_add`
  needs (`IsParsed`); the walk has created the rings in front of its cursor (`WalkInv`);
  nobody is in the ring before it is created (`NobodyIsEarly`), so that filling the pool
  of a new memory makes no second owner; the dispatcher is in the ring only while a flush has
  objects left (`FlushInv`).

**Only model-checked.**

* Liveness (`MainLoopReturns`, `StopEnds`, `DaemonRecovers`, `CallEnds`, `Boots`): fairness is out of
  the prover's reach.

Every invariant and every action property that a passing run checks is also a theorem. What a theorem
assumes beyond the assumptions of its module is named above: `PlainRules`, `FreshIds`, `FlagsHold`,
`ProducersLive`, and for `UpHasChild` that fork succeeds and the signal window is off.

## 5. Findings

1. `stopped_restarts`: a process that exits between a client's stop and the pass that
   would signal it is taken for a crash, and RESTART starts the stopped rule.
2. `blocked_client`: in the same race, after a synchronous terminate, the client is never
   answered although its process is dead: only the branch for a process that was signalled replies to the
   cookie (`process.c:768`, `812`).
3. `lost_sigchld`: SIGCHLD between test and assignment in
   `PCD_process_iterate_start` is overwritten; the daemon stays dead.
4. `fresh_start`: a READY event of a process that was stopped before its rule looked at it
   completes the next start of the rule before the new process is ready
   (`pcd_api.c:201`).
5. `mixed_reply`: the message id is an uninitialised word less the slot's index. Two
   calls from one slot may get the same id, and the late reply to the one that timed out is
   then taken for the reply to the next.

Further observations, not claimed as defects by any document:

1. After stop and start two instances of a command run at the same time until
   the old one is gone (`process.c:670`).
2. Two rules that fail in one timer iteration enqueue the same EXEC_RULE target twice:
   the target is tested before the enqueue list is handled (`failact.c:119`, `timer.c:365`).
3. A job killed by a signal leaves its END_COND EXIT rule waiting without a process;
   only the timeout of the rule ends the wait (`process.c:823`). `ExitIsSeen` shows that a signal is the only
   way to get there.
4. A failing fork leaves pid -1 in an object that goes on to RUNNING
   (`process.c:539`).
5. Kill and synchronous terminate of a rule that is still in the timer queue are served as
   a gentle terminate and answered at once (`timer.c:274`).
6. A rule with an unknown dependency stays in the queue for one more
   iteration; a start in between gives it a second timer object.

7. `IPC_cleanup_proc` says "Remove all entries of a specific pid" and returns
   after the first (`ipc.c:722`). `SlotIsHeld` shows that a client of the API has no
   second one.
8. When `malloc` fails in `IPC_wait_msg`, `info.lock` is not released (`ipc.c:617`),
   and the next send or wait of the process blocks.
9. A clone made while its template is started has the state and the process of the template: it
   can be stopped, and then stops the template's process, though it was never started
   (`rules_db.c:254`). `InstancesAreApart` excepts exactly these clones.
10. The parameters of a start that is refused replace those of the running instance, and are used
    when it is restarted (`pcd_api.c:235`).
11. An option (SCHED, DAEMON, USER) in front of the first RULE line of a file is kept for the first rule
    (`parser.c:559` clears the rule only after a complete one). `RulesAreWhole` excepts it.
12. An error in an included file is reported and otherwise ignored (`parser.c:543`); the rules before
    the error are in the database.
13. The dispatcher's first pass over an rx interface writes through a null pointer
    (`src/apps/dispatcher/pkt_router.c:206`): with `config/dispatcher_1.json` it dies in its loop and is restarted for
    ever. `is_ip_frame` and the rest of the packet path are therefore unreachable.
14. The dispatcher never sends PROCESS_READY, so its rule in `config/system.pcd` is never completed; as a
    daemon it is restarted all the same.
15. SIGKILL is a second way to leave the client of a synchronous terminate without an answer: the object is STOPPED in
    the pass that kills (`process.c:899`), and if SIGCHLD has not come by the next pass, it is freed with its status
    unknown, without a reply (`process.c:853`).
16. A WAIT delay interrupted by a stop is not restored: the next start of the rule waits only for the rest
    (`condchk.c:323`). `FreshStart` says so too, but the rule of `fresh_start` has no delay.
17. `_store_if_in_ctx` writes `ifs[count]` without comparing `count` with MAX_INTERFACES
    (`src/apps/dispatcher/allocator.c:41`), and nothing checks the number of interfaces of the configuration before it.

## 6. Not modelled

* Vendored code: nearly all lines of the repository (700,000 of DPDK's drivers, libraries and
  tests, json-c, kconfig) are third-party code that the platform does not change and mostly does not
  call. Of DPDK only what the platform's own processes rest on is modelled: the ring, and the
  hand-over of the shared configuration. The share of all lines that the map covers is small for that reason.
* The exception handler, the logs and `misc.c`: pure I/O. The host rule compiler: offline.
* Command lines, JSON files, the set-up of a child's arguments and scheduling in `PCD_process_spawn`, the
  configuration of ports.
* The packet path of the dispatcher, which is never reached (observation 13).
* The operations of `llist.c` and `rte_ring.h` that have no caller in the platform.
* A death inside the lock of the IPC table, `info.lock`, and the race of two processes in `IPC_init`.

## 7. Plan

1. *(done)* PCD's core: `PcdState`, `PcdTimer`, `PcdProcess`, `PcdApi`, `Pcd`.
2. *(done)* The exchange between clients and supervisor: `PcdIpc`, `PcdCall`.
3. *(done)* Rules from the file to their processes: `RulesDb`, `Parser`, `PcdRules`.
4. *(done)* The ring as a queue, and the processes around it: `Fifo`, `Ring`, `RingUsers`, `LList`,
   `Dataplane`.
5. *(done)* The invariants and action properties of all components as theorems, and the refinements of
   `PcdCall` and `Fifo`.
6. *(done)* `TimerObjIsUnique`, with the rule bases of which it holds as hypothesis, and the order of
   activation as theorems.
7. Left: a single producer that dies, for which the ring's theorems are silent; the locks of the IPC
   library (section 6, last item).

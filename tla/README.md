# A TLA+ development for NUClear

NUClear is a C++ framework of reactors that exchange messages. An emit finds the
reactions bound to a type and makes a task of each; a scheduler runs the tasks on
thread pools, those of a Sync group one at a time, from lock-free queues; extension
reactors add time, file descriptors, a network and traces. This directory holds TLA+
modules for these parts, the TLC configurations that check them and TLAPS
proofs about the scheduler's groups, queues and pools, about the whole system of pools, and about the IO controller and
the network. Paths below are relative to the repository,
mostly to its `src/`.

## Inventory

| Part | State | Operations | What is hard | What makes it correct |
| --- | --- | --- | --- | --- |
| `Group` (`threading/scheduler/Group.*`) | signed `tokens`, `slow_pending`, wait buckets, arbiter slots, queue of lock handles | `try_submit`, `try_acquire_running_lock`, `lock`, `release_token`, `~GroupLock` | two paths to one counter, one of them without the mutex | at most `concurrency` tasks run, the counter is exact, nobody is forgotten |
| `TaskQueue`, `MPSCQueue` (`queue/`) | blocks of slots, `head`, `tail`, `graveyard` | `enqueue`, `try_dequeue`, the destructor | every load may be stale | an item is taken once, a producer's in order, blocks outlive their readers |
| `Pool` | priority buckets, `pending_tasks`, `external_waiters`, `running`, `accept`, `live` | `submit`, `get_task`, `stop`, `notify`, external waiters | a condition variable, atomics outside the mutex, three kinds of stop | no lost wakeup, workers stay as long as needed, stops return |
| Idle detection (`Pool`, `CountingLock`) | `active`, `active_pools`, `thread_idle`, `pool_idle`, idle reactions | `get_idle_task`, `add_idle_task` | a count that all pools share | idle fires when nothing goes on, and does fire |
| `Scheduler`, `PowerPlant` | pools, groups, `running`, `started` | `submit`, `start`, `stop`, `shutdown` | pools made on demand while stopping | the system ends, in the right order |
| `Reaction`, `ReactionTask` | `enabled`, `active_tasks`, `current_task`, transients | `get_task`, `run`, `unbind` | tasks run inside the emit that makes them | every task is counted once and carries its own message |
| DSL words, `Parse`, fusion | template types | `on<...>(...).then(...)` | arguments and data are shared out at compile time | the words get theirs, the callback its data |
| Stores, emits | `DataStore`, `ThreadStore`, `TypeCallbackStore` | `emit<Local>`, `emit<Inline>` | globals overwritten by nested emits | see `ReactionTask` |
| `ChronoController`, `clock` | heap of tasks, `running`, three slots of clock data | add, unbind, time travel, watchdog service | waiting on a clock that stops and jumps | tasks run in order and on their grid, shutdown returns |
| `NUClearNetwork`, `NetworkController` | targets, send queue, assemblers, recent ids | announce, data, ACK, NACK, leave, retransmit | loss, reordering, repetition, expiry | messages come whole, reliable ones arrive and are forgotten |
| `IOController` (POSIX) | tasks by descriptor, poll set, `dirty`, notifier | configure, finished, unbind, poll | `poll` is entered under a lock that others need | no event is lost, one task of a reaction at a time |
| `TraceController` | file, interned ids, tracks | begin, events, logs, end | told in one order, written in another | the file can be read from front to back and is complete |
| UDP and TCP words, serialisation, Windows I/O, utilities | sockets, bytes | system calls | little that interleaves | unit tests reach it |

How they meet. An emit (`Reaction`) makes a `ReactionTask` and calls
`Scheduler::submit`, which takes a task of one group to `Group::try_submit`, one of several
to a `CombinedLock` of `GroupLock`s, and the others straight to `Pool::submit`. A
group that cannot run a task keeps it and registers an external waiter with its pool;
a release drains one such task into its pool by force. A pool's buckets are
`TaskQueue`s, or `MPSCQueue`s where it has one consumer. A worker with nothing to do
gives up its counting lock, and who gives up the last fires the idle reactions.
The extensions are reactors: they take part through emits, through tasks they
submit from a thread of their own (the chrono and the poll thread, each an `Always`
reaction), and through `unbind` hooks that the words register. `PROJECT.json` lists
the hazards of all these parts with their lines and the properties that cover them.

## Modules

| Module | Models | Notes |
| --- | --- | --- |
| `Group` | `Group.cpp`, `CombinedLock.cpp`, the group side of `Scheduler::submit` | one step per atomic operation; two threads per task, its submitter and its worker |
| `Blocks` | the producers of both queues and `block_ops.hpp` | extended by the two queue modules |
| `TaskQueue` | the consumers of `TaskQueue.hpp` | one step per atomic operation; the destructor and `empty` as what they find |
| `MPSCQueue` | the consumer of `MPSCQueue.hpp` | the same (it has no `empty`) |
| `Pool` | `Pool.cpp` without idle reactions | steps cut where atomics are touched without the mutex |
| `PowerPlant` | `Scheduler.cpp`, `PowerPlant.cpp`, `CountingLock`, the idle machinery of `Pool.cpp` | several pools, from set-up to the return of `start`; one step per critical section of a pool |
| `Sentence` | `Parse`, `FunctionFusion`, `RelevantArguments`, the fusers | operators over a sequence of words |
| `Reaction` | emits, stores, `Reaction::get_task`, `ReactionTask::run`, the words with run-time behaviour | extends `Sentence`; each thread has a stack of calls |
| `ChronoController` | the controller, `clock`, `Every`, `Watchdog`, `Delay` | steps cut at the mutex, at the wait and at each slot of the clock |
| `IOController` | `IOController_Posix.ipp`, what `IO`, `UDP` and `TCP` bind | handlers cut where they wake the poll thread; what `poll` saw is processed task by task, under the mutex |
| `Network` | `NUClearNetwork.cpp` | one handler, one pass of a timer or one send is a step; a thread may be overtaken inside a handler (`Look`) |
| `Delivery` | nothing: what `Network` promises | abstract; `Network` implements it |
| `Trace` | `TraceController.cpp`, `StringInterner`, `SubMessage` | the order and ids of packets, not their other fields |
| `GroupProofs` | | theorems about `Group` |
| `BlocksProofs`, `TaskQueueProofs`, `MPSCQueueProofs` | | lemmas about the producers, theorems about each queue |
| `PoolProofs`, `PowerPlantProofs`, `IOControllerProofs`, `NetworkProofs` | | theorems about these modules |
| `MC...` | | instances for TLC |

`Sentence` is composed with `Reaction` by extension, `Blocks` with the queues likewise.
`PowerPlant` composes several pools with the scheduler and a Sync group, each
reduced to what the others see of it: what a pool, a queue or a group does inside is
the business of the module about it, and what the modules assume of one another
is what those check (a bucket gives every item once; a parked task keeps its workers;
the token has one owner).

Correspondence. An action stands for the code that `PROJECT.json` maps it to, and keeps
its name where the code has one. A program counter names the next operation
that others can see; `grp`, `scan`, `entry`, `loc` are locals of the C++ functions. A
compare-exchange loop is one step where it succeeds or gives up; where a weak
compare-exchange may fail for no reason and the loop then does something else,
the failure is a step of its own (`ClaimRead`). Most modules have a variable
`scenario`, chosen from `Scenarios` in `Init` and never changed: one run then
checks several small systems, and a counterexample says which. Definitions marked
*Mutant* change one operator the way a slip in the code would; `PROJECT.json` pairs
each with the property that notices it, and no specification uses them.

Abstractions, by module:

* Memory is sequentially consistent everywhere. A reordering that the
  `memory_order` arguments allow and sequential consistency does not is out of
  sight; each violation found is one of plain interleaving.
* `Group`: every task has a pool of its own, reduced to `accept`, `live` and
  whether the task is queued; the wait buckets are FIFO. Stopping a pool and
  discarding its queue are environment steps with no fairness.
* `Blocks`: blocks are numbered in the order they are linked, so `b + 1` is the new
  block; `MaxBlocks` is as many as the items fill. Blocks are never freed while the
  queue lives.
* `Pool`: buckets are FIFO. Group locks are one token, held by the tasks of `holding`
  and wanted by those of `locking`. A task does nothing while it runs. Where a pool
  is stopped no task wants a lock, for a discarded task would release one. A forced
  stop comes from a thread that is not the pool's own worker.
* `PowerPlant`: a task's callback is a list of calls; the pending count, the queue and the
  token are atomic. A call of `get_pool` after the stop throws inside a `noexcept`
  function: `terminated` is that state, and nothing is asked of what follows. A forced stop
  that destroys a task of the Sync group would release its token, and hand a waiter over,
  inside the drain (`Pool.cpp:110-113,150`): that is not modelled, and
  `ForceAssumption` says that no scenario has both.
* `Sentence`: a word is a record of its hooks, a bind the set of parameter lists it can
  be called with, and types stand for what converts to them.
* `Reaction`: messages are numbered by type, so that `data` says which emit a task got it
  from. Pools are a list in priority order. An action that a thread does alone on
  its own memory is joined to the next one others see. The loop of an emit keeps the end its list
  had; when the list is shorter by then, the loop meets the entry that was left behind and the
  program dies (`EmitPast`, `Dead`): no step follows.
* `ChronoController`: time is in ticks and stops at `until`; a wait ends at any time
  from its alarm on. What the controller has learned of the accuracy of its waits is left out.
* `IOController`: a descriptor has a count of bytes or datagrams and may be closed by its other
  end, which `poll` tells for the descriptors in `hangups` only. What `FIONREAD` answers is 0 where nothing is
  there and where the next datagram is empty (`NoBytes`). The notifier is its flag and its pipe.
* `Network`: times are choices (an entry is due, a target silent, an assembler old,
  whenever it may be). A link is a short sequence that drops what does not fit. The numbers
  of the code (8 bits to a byte, 255 recent ids, 65,536 ids) are parameters, small in the
  runs. A node does not hear its own multicast. A packet comes to one of two sockets, the announce and the data
  socket, and each gives its packets in order, in any order with the other's. With
  `"threads"` in a scenario, `process` runs on several threads, as nothing forbids
  (`NetworkController.cpp:161-165`): one may have read a packet, and not found it in
  `recent_packets`, when others handle theirs (`Look`). What follows that search in a handler is one
  step: the entry, the ACK and the callback. A thread that still holds a target which another
  has forgotten is not modelled.
* `Trace`: a packet is its kind, its track, the ids it uses and defines and the sizes of its
  sub-messages. A handler of the pool's one thread is a step.
* History variables (`sent`, `taken`, `before`, `kept`, `got`, `outstanding`, `published`,
  `ran`, `owed` and the like) record; they guard nothing except the number of items
  a producer sends (`ItemsEach`).

## Runs that pass

| Run | Instance | Question |
| --- | --- | --- |
| `group_fast` | one Sync group, three tasks, one inline, one whose pool may stop | is the counter exact, does every task end |
| `group_mixed` | tasks of groups {1, 2}, {1, 2} and {2} | do the two paths share the counter exactly, leave nothing behind, exclude each other in group 1 |
| `taskqueue` | 2 producers of 2 items, 2 consumers, 2 blocks of 2 slots | who owns slots and blocks, is "empty" true, is what is left destroyed once |
| `mpscqueue` | 2 producers of 3 items, 3 blocks of 2 slots | order, ownership, progress, teardown |
| `pool` | 4 scenarios, up to 2 workers and 3 tasks | is a wakeup lost, do workers stay and leave, do stops return |
| `powerplant` | 10 scenarios, 3 pools, 5 threads | is the system idle only when it is, does it end, in the right order |
| `reaction` | 13 scenarios, 3 reactions, 2 types, 4 threads | which message, how many tasks, what nested emits leave behind, which arguments |
| `chrono` | 8 scenarios, 3 jobs | order, grid, travel, pause, service, torn reads, shutdown |
| `network` | 13 scenarios, 2 or 3 nodes, 2 messages of up to 3 fragments | does `Network` implement `Delivery` |
| `io` | 10 scenarios, 2 reactions on 1 or 2 descriptors | is an event lost, are two tasks made |
| `trace` | 8 scenarios, 2 threads and the tracer | is the file readable and complete |

Some properties are conjunctions of named parts, which a counterexample tells
apart. `SlowPathTidy` of `Group`: `PendingCoversQueue` (the fast path's test sees every
multi-group handle) and `Settled`. `SlotsAndBlocks` of the queues: slots are owned by one
thread, blocks are linked when they are full. `BlocksEnd` of `TaskQueue`: `RetiredOnce`, and
`TornDown` (the destructor destroys what nobody took, once). `DequeueIsRight` and `CallsEnd` of
`MPSCQueue`: order, honesty about "empty", `TornDown`; the spins of both sides end. `Accounting` of `Pool`:
`pending_tasks` is the tasks between `submit` and a worker. `IdleCounts` and `StopReachesAll` of
`PowerPlant`: `IdleIsIdle`, `WaitersCount` (external waiters are the tasks parked or just handed over); `NoPoolIsMissed`, `ShutdownIsSeen`, `PersistentServes`. `Accounting`
of `Reaction`: `ActiveCounts`, `BufferBound`, `AlwaysOne`. `RightMessages`:
`TaskCarriesItsMessage`, `LastInOrder`.
`SentencesFit`: `ArgumentsFound` and `DataFound` compare the recursive operators with a
definition by all ways to cut, over every sentence, argument list and callback
of `Bindings`. `OnTime` and `Periodic` of `ChronoController`: `HeapOrder`, `NeverOversleeps`;
`EveryOnGrid`, `OneBarkPerPeriod`. `TasksOK` of `IOController`: `OneAtATime`. `Truthful` of
`Network`: `AckedWasReceived`, `DeliveredWhole`. `Readable` and `Faithful` of `Trace`:
`DefinedBeforeUse`, `LengthsAreRead`; `SlicesNest`, `CreatedFirst`, `TraceComplete`. The
conjunct `TypeOK` of most of them is the module's type invariant.

The refinement. `Delivery` knows who knows whom, what has been sent, what is owed and
what was delivered. It promises that a message comes to a node at most once while its source
stays known, that an obligation ends only with a delivery or with the address,
and that it ends. `Network` implements it with the mapping at the end of the module: owed
is what `send_queue` has not seen acknowledged. `plan` says which promise is made
in which scenario, since the code does not keep each in all: see below. At most once
(`plan.exact`) is asked only where no packet is repeated or overtaken, one thread runs
`process`, every message is for one node and `recent_packets` has room for all ids; every other
scenario is there for the rest of `Delivery` and for `Truthful`. Nothing is settled before it is delivered
(`plan.kept`) where no assembler expires, no target falls silent on one side only and no id is given twice.
`plan.live` asks the last promise where a message is on its way alone and its
fragments do not fill the bytes of an ACK, the only case in which the fairness
below is enough.

The bounds. Two tasks make a group contended; the third releases a token while the
other two race for it. Two producers and two consumers with blocks of two
slots make every consumer meet a block that is filling, full, being linked and left
behind. Two workers, a submitter per task and a stopping thread give every pair of parties of
`Pool` a race. Three pools are the main pool, one with several workers and another; a
local and a global idle reaction need no more. Two emitters make tasks of one reaction overlap,
and a nesting of three emits has one inside, one outside and one beside. Three jobs make the heap
sift in both directions. Two fragments can be reordered and lost apart; three fill the three bits of
a byte in `Bytes`; the third node is for multicast. Two reactions can share a descriptor or not.
`MCGroupMixed` turns off the deadlock check: its tasks can really wait for each other
(see below). Where a system may come to rest, an action `Rest` that changes nothing stands for it, so
that a state in which somebody waits in vain is still reported as a deadlock.

Fairness. In `Group`, the queues and `PowerPlant` each thread is weakly fair, except for the
environment: the operating system runs a thread that can run. `TaskQueue` also defines a
`FairSpec` in which a weak compare-exchange nobody interferes with succeeds in the
end. In `Pool`, `IOController` and `ChronoController` the threads that take a mutex are strongly fair,
because a mutex that others keep taking is enabled only now and then: the code relies on
a mutex that lets every thread in sometime. Time goes on (`Tick`). In `Reaction` and `Trace` each
thread that has something to run goes on. Spurious wakeups happen
but are not relied on. In `Network` what a node owes is due again and again (`process` is called
by a timer) and the network does not lose everything that is sent to a node;
both only where `plan.live` needs them.

## A run that finds a disagreement

`group_exclusion`: two tasks of one Sync group run at once. `release_token` frees its token at
`Group.cpp:270` and drains a waiter at line 299; a submission takes the token in between.
`TokenAccounting` holds all the while: the counter goes negative and is exact, nobody compares
it with zero at the moment it matters. `PROJECT.json` quotes the documentation.

The modules show more of the kind, each with a small change to what is here:

| Change | Violates | What happens |
| --- | --- | --- |
| `MCGroupFast.cfg`: `Groups = {1, 2}`, `TaskGroups <- OneSlow`, `Priority <- NormalPriority`, `RunInline = {}`, `Stoppable = {}`, `CHECK_DEADLOCK FALSE`, only `EverySubmissionEnds` | `EverySubmissionEnds` | a notified handle whose worker failed is skipped by later releases (`Group.cpp:312`): a multi-group task sleeps for ever beside a free token |
| the same with `Tasks = {1, 2}`, `TaskGroups <- Pair` | `EverySubmissionEnds` | `get_groups_lock` queues a task's handles group by group: two tasks, each holding what the other needs |
| `INVARIANT ConcurrencyBound` in `MCGroupMixed.cfg` | `ConcurrencyBound` | `GroupLock::lock` decrements a counter that the fast path has taken below zero |
| `INVARIANT RetiredDrained` in `MCTaskQueue.cfg` or `MCMPSCQueue.cfg` | `RetiredDrained` | a stale `published` (`TaskQueue.hpp:172`) moves `head` past items nobody took |
| `INVARIANT ProducerOrder` in `MCTaskQueue.cfg` | `ProducerOrder` | items left behind a moved `head` are taken after later ones |
| `stops = {"NORMAL", "FORCE"}` in `Force` of `MCPool` | deadlock | a forced stop waits for a consumer that has left (`Pool.cpp:144`) |
| `workers = {w1}`, `holding = {t3}`, `locking = {t1}` in `Run` of `MCPool` | `PoolSettles` | one worker polls the blocked task of the higher bucket for ever |
| two workers, `parked = {t2}`, not `single_consumer` in `Force` of `MCPool`, and no exception for `"FORCE"` in `KeptTasksRun` | `KeptTasksRun` | the forced stop drops a parked task and zeroes a count that its submission has made |
| `home["u"]` left at `"main"` in `LocalIdle` of `MCPowerPlant` | `PlantSettles` | a task in a stopped pool's queue holds the Sync token: `start` never returns |
| `LateStop` in `MCScenarios` of `MCPowerPlant` | `PlantSettles` | a second shutdown's normal stop reaches a persistent pool after its final one and sets `running` again (`Pool.cpp:121`): the join never ends, `start` never returns |
| no `"reorder"` or `"duplicate"` in `Exact` of `Network` | `ImplementsDelivery` | a fragment that arrives after its own retransmission starts again: a message comes twice |
| no `"threads"` in `Exact` | `ImplementsDelivery` | two copies of a retransmission are both looked for in `recent_packets` (`NUClearNetwork.cpp:680`) before either is entered (lines 744, 860), and both are delivered |
| no conjunct about `Everyone` in `Exact` | `ImplementsDelivery` | a multicast waits on the announce socket while its retransmission is read from the data socket (`NUClearNetwork.cpp:470-484`), and is then taken for a new message |
| `kept` always `TRUE` but for the ids | `ImplementsDelivery` | fragments that were acknowledged go with an expired assembler or a target that timed out: never delivered |
| no conjunct about `ByteBits` in `Alone` | `ImplementsDelivery` | at a multiple of 8 fragments the mask of an ACK expects a byte more (`NUClearNetwork.cpp:934`): when all is acknowledged nothing more is sent (lines 520-523), and the entry stays in `send_queue` until its target goes |
| no exception for `"drain"` in `DroppedOnlyAtEof` | `DroppedOnlyAtEof` | another thread reads the descriptor between `poll` and `FIONREAD`: taken for an end of file, the reaction is erased |
| no `EmptyCame` in `DroppedOnlyAtEof` | `DroppedOnlyAtEof` | `FIONREAD` is 0 before an empty datagram (`IOController_Posix.ipp:176-181`): CLOSE is fired and the reaction erased, though nobody closed |
| no `OneReader` in `DroppedOnlyAtEof`, and a scenario of `MCIOController` with both reactions on one descriptor, listening for READ | `DroppedOnlyAtEof` | one reaction reads what `poll` saw, the other is then told of an end: the code looks only at the task's own `processing_events` (`IOController_Posix.ipp:201`), its comment (line 175) at any read in progress |
| no `waiting[r] = {}` in `NotDeaf` | `NotDeaf` | an event that `get_task` refused stays in `waiting_events` and masks the descriptor |
| `INVARIANT` with `~Dead` in `MCReaction.cfg` | that | in `Shortened` an `Once` erases itself from the list while an emit goes over it (`Inline.hpp:61`, `TypeBind.hpp:80`): the loop reads the entry past the end |
| `Priority(0)` in `Alwayses` of `MCReaction`, and no `priority` in `AlwaysOne` | `Accounting` | the idle task waits in the bucket of the others (`Priority.hpp:55-69`, `Always.hpp:115,141`): both submit a next one, and tasks are made faster than run |
| no `m.size < 16384` in `LengthsAreRead` | `Readable` | in `Long` the length of a sub-message is cut to two bytes (`protobuf.cpp:148-153`), where `protobuf.hpp:47-48` says that the vector is resized |
| no `carried` in `DefinedBeforeUse` | `Readable` | in `Twice` the second file uses ids whose packets are in the first, for `BeginTrace` truncates the file and keeps interners and tracks (`TraceController.cpp:270-288`) |
| no `SecondBegin`, or no `missed`, in `SlicesNest` or `TraceComplete` | `Faithful` | in `Twice` and `Reopened` an end told before the second `BeginTrace`, or not told while the events were not bound, leaves a slice open or closes another's |

What else was met while reading, not all of it in the models' reach:

* `Pool`: a task accepted just before a normal stop may be counted after the workers have
  left; `PoolSettles` asks of a stopped pool only that it ends.
* `PowerPlant`: a forced stop that drops a Sync task (`ForceAssumption`); forced shutdowns from two single-consumer pools at once wait for each
  other; a persistent pool stopped `FINAL` still accepts; `on<Idle<Pool>>` bound to a pool that is idle already does not
  fire before its next epoch; `get_pool` throws after the stop inside a `noexcept` `submit`.
* `Reaction`: two emits at once may both be refused by a `Buffer`; a `Once` may run twice
  (`Once.hpp`); a callback list changed under the loop of an emit is undefined behaviour, of which the model has
  what this build does where the list gets shorter (`EmitPast`), and no scenario in which it
  gets longer or another thread changes it; `LastInOrder` is for one emitter, transients are merged without a lock.
* `ChronoController`: a watchdog without a key unbinds a temporary copy (`Watchdog.hpp:192`); with
  one, unbinding one of two erases the store of both; a shutdown while the clock is paused may
  be missed; `now()` may tear when the clock is adjusted three times meanwhile; a task that emits a `Delay` to an
  inline reaction takes its own mutex.
* `IOController`: a callback that throws never says `IOFinished`, and its events stay masked (the exception
  `"throw"` in `Busy`); UDP and TCP close their descriptor before the reaction is unbound.
* `Network`: the index 255 of `recent_packets` writes past the array (`Remember` lets the index become
  anything); when ids come round, fragments of two messages mix (the exception `Fresh`); the NACK loop
  tests byte `i` for fragment `i` (`Resent`).
* `Trace`: a log from a task without statistics dereferences null. What a second `BeginTrace` and a
  sub-message of 16,384 bytes do is in the scenarios `Twice`, `Reopened` and `Long` (`Midway` stays one byte below): the
  properties name them as exceptions, and the table above says what fails without.

## Proofs

Each theorem below has the form `Spec => []P`, where a run checks `P` on a small instance and
the theorem holds for every value of the constants. The argument is the same each time: an
inductive invariant, a conjunction of named parts, that the initial states satisfy and every
action preserves (one lemma for each part, one step for each action that can disturb it), and that
implies `P`. None of the properties is inductive by itself; what had to be added is what
makes the code right.

`Group` (`GroupProofs`), for any finite set of groups and tasks, any concurrencies,
priorities and group memberships:

* `TypeCorrect`: `TypeOK`. The invariant adds who may be where: that a thread on the fast
  path belongs to a task of one group, and a thread in `lock` or in the destructor to one of
  several (`RolesNext`); that a group's mutex is held by exactly the thread inside one of its
  scopes (`MutexNext`); that `ret` is a label the caller set (`GroupNext`); that a task is in a wait
  bucket at most once and only while it is parked (`BucketsNext`), so that the entry a drain
  takes is a task, not a repetition of one (`EntriesNext`); and where a task's state can be
  while its threads are at a given label (`TakeNext`, `PayNext`, `ProgressNext`).
* `Accounting`: `TokenAccounting`. It is a sum over five sets, and each step of a thread
  moves at most one element in or out of them (`OneChange`); `TokenNext` says how the counter
  itself moves, and `Balance` puts the two together. Without the bucket and slot facts above a drain
  could pay twice for a waiter.
* `MultiGroupExclusion`: `MultiGroupBound`. In a group no single-group task uses, all
  decrements are made under the mutex between the walk that found a free token and the
  release of the mutex; `NotOverdrawnNext` shows that such a counter does not go below zero,
  and `Accounting` turns that into a bound on the locked handles.
* `SlowPathTidyHolds`: `PendingCoversQueue` and `Settled`. Submission and destruction walk
  over the groups of a task in their order. `QueueOK`, `PendingOK` and `LocksOK` say what the
  walks have done so far: a handle is in exactly the queues the first walk has passed and the second
  has not, and `slow_pending` runs one step before the one and one step behind the other.
  `HandlesOK` says that a task is in the hands of one thread. At rest, that leaves nothing, and
  `Accounting` gives the counter back.

The queues, for any producers, any number of items of each, any block size and, for `TaskQueue`,
any finite set of consumers:

* `BlocksProofs` has what both share. `ProducerInv` says that blocks are chained in order up to
  `tail` (`Chained`), what a producer knows at each label (`EnqueueOK`), and that the claimed slots of
  a block are those below `write`, each sent once by one producer and in order (`SentOK`).
  `RoomLeft` counts: a producer that still has an item finds a slot within `MaxBlocks`
  blocks, so that the bound of the model cuts nothing off. `Shapes` derives `SlotOwnedOnce` and
  `LinkedWhenFull`.
* `TaskQueueProofs`: `SlotsAndBlocksHolds`, `TakenOnceHolds`, `EmptyIsHonestHolds`, `BlocksEndHolds`.
  `CountOK` is the heart: `consumed` and the consumers that hold a slot are together what
  was claimed, so the count reaches the block size only after the last slot is let go. `LocalsOK` says
  what of a consumer's stale reads is still true, `MarksOK` who will clear or set a slot's flag, and
  `BeforeOK` that what was waiting at the call is always behind what the call has seen; that is why the
  answer "empty" is honest.
* `MPSCQueueProofs`: `SlotsAndBlocksHolds`, `DequeueIsRightHolds`. With one consumer the order of
  `taken` is that of blocks and slots (`ReadOK`), and `SentOK` gives the order within a producer.

`Pool` (`PoolProofs`), for any tasks, workers, buckets and scenarios:

* `AccountingHolds`: `pending_tasks` is exact. `BucketsOK` has each queued task once, in its
  bucket; `WorkersOK` has one worker for each running task.
* `KeptTasksRunHolds`. `ExternalOK` counts the registered tasks, and `LeavingOK` says what a worker
  on its way out has seen: under one mutex that the pool no longer runs, then that nothing is
  pending, then that nobody is registered. The order of the last two is what it rests on: a parked task is counted,
  queued and announced under the mutex before it is unregistered. The property is for pools without a forced stop (`GentleOK`), which discards.

`PowerPlant` (`PowerPlantProofs`), for any pools, threads, tasks and scenarios:

* `IdleCountsHold`. `Scripts` says what a thread may have left to do and in which order: the operations
  have ranks, a call comes to an end before what it was called from goes on, and the main thread's
  last operations stay last. `Places` says that what is queued, parked or on its way is for a pool that is made or
  being made, and that one pool at most is being made. On these `Starting` and `Counting` rest: a pool's count is its
  workers that are not idle, from the moment it starts; the count of pools is the pools made and not idle,
  and the one being made. `Working` then carries `IdleIsIdle`: who runs a task is counted in, and so is the pool of a task somebody busy submitted.
  `WaitersCount` is inductive once a thread is known to hand over one task at a time.
* `StopReachesAllHold`. `Stopping`: until the scheduler stops no pool does, and a pool made by then is stopped, persistent or has a
  stop on its way; that `stop` and `get_pool` use one mutex is what makes it so. `Gentle`: without a forced stop nothing is
  discarded and a persistent pool accepts. `Closed`: when `start` has come to its final stops, each pool is gone or still to be joined, the
  persistent ones when the others are gone. `Kept` puts them together: before each stop in a thread comes what puts the
  reactions to Shutdown in their queues (`Covered`), a task that has been accepted is queued, parked, handed over, running or has been run
  (`Safe`), what a task gives to a persistent pool is safe or on its way, and a pool that its workers have left has
  run all of these that were its own. `LastOut` is the step where the last one leaves: an empty queue, no external waiters
  and, by `WaitersCount`, nobody parked.

`IOController` (`IOControllerProofs`), for any reactions, descriptors and scenarios:

* `TasksOKHolds`: one task of a reaction at a time. `LivesOK`: a bound reaction with a task in flight
  is processing; `MutexOK`: the poll thread and the handlers exclude each other while they
  change the masks.
* `NotDeafHolds`. `HeardOK`: a reaction that reads is listened for, or has the event
  already, or the list is dirty and the poll thread will come to know. It is for a descriptor with one reader
  (`OneReader`): one that closes takes the other's events with it, and poll is not woken.
* `DroppedOnlyAtEofHolds`: a reaction is erased only when its descriptor has been closed by the other end or
  an empty datagram has come, which the code cannot tell apart. `EofOK`: who may read the descriptor
  is not polled for, so what `poll` saw is still there when `FIONREAD` is asked. With two readers, or
  another thread that reads, this is false.

`NUClearNetwork` (`NetworkProofs`), for any nodes, messages, numbers of fragments, sizes of the tables and
scenarios, whatever is lost, repeated, reordered or forgotten:

* `TruthfulHolds`. Each part of the invariant says what a table or a packet knows, relative to the
  fragments received (`got`) and the ids given (`id_of`), which only grow (`Growth`): an assembler for
  an id holds parts of messages sent under that id and received here (`PartOK`), each number once, so that as many
  parts as the message has are the message (`CompleteIsWhole`); an id is recent when its message has
  come whole (`TargetOK`), which makes the ACK of a repetition true; a packet says what its sender knew
  when it was sent (`DataOK`, `AckOK`), and that stays true however late it arrives (`StreamGrows`);
  an entry of `send_queue` is about a known target and received bits (`EntryOK`). Where two messages
  may have had one id, the parts that identify the message are said under `IsFresh` only.
* `DeliveryHolds`: `Network` starts where `Delivery` starts, and each of its steps is a step of `Delivery` or
  a stutter; this is `ImplementsDelivery` but for its liveness. It rests on `Promises` (`PromisesHold`), inductive
  with the invariant above. `Sources` and `Sendings`: who a packet is from, that only what is sent has an id, that what was
  delivered came from a node that is known. `Homes`: all packets of a message come from one address (a node that
  resets takes a new port and forgets its queue), and who delivered it remembers its id there. Two parts are for
  the two promises that the code keeps in some scenarios only:
  * At most once (`Exact`): `Orderly`. One thread reads both sockets, and what a message for one node is
    sent in all comes to the data socket (`Placed`, `OnDataSocket`), where the packet taken is the foremost (`Foremost`,
    `TakingFirst`). There first transmissions come in order, each once and before any
    retransmission (`Ordered`); what is assembled came before what comes (`Earlier`), so a message is not assembled a
    second time from first transmissions; and `recent_packets_index` is the number of messages that are done with
    (`Remembers`), so that the ring, with room for all, has overwritten no id and a retransmission is recognised. Where
    a scenario has `"threads"`, or a message to everyone, nothing is promised here: the code does not keep it.
  * Settled after delivery (`Kept`): `Numbered` and `Safe`. While ids do not come round the `c` messages of a node have
    the first `c` ids, so that they differ, and an id that is recent is that of a message that was delivered
    (`Remembered`). What a target has acknowledged of a message that is not delivered
    there, by its entry or by an ACK on its way, lies in a set `H` that is not the whole message and is
    still in the assembler, if the target is there still (`Bounded`): the last fragment cannot be acknowledged
    before the message is delivered.

The assumptions are the modules' own, each named and evaluated by TLC in every run: finite sets of natural
numbers, positive concurrency and at least one group per task (`Group`); a positive block size, enough
blocks for the items and finitely many producers and consumers (`Blocks`, `TaskQueue`); finite sets of
tasks and workers, and at least one worker (`Pool`); finite sets of pools, threads and tasks, the types of a
scenario, a worker at least in each pool, in no other, and with no calls but those of its tasks, and no forced stop beside Sync tasks (`PowerPlant`); the types of a scenario, with the reactions in the order
of their descriptors (`IOController`); the types of a scenario, at least two bits in a byte, an `Unknown`
that is not the record of a target, a `Free` that is not an entry of the queue and an `Expired` that is not a set of bits (`Network`).

What is model-checked only:

* Liveness under fairness, which is beyond the proof system.
* `Reaction` (through `Sentence`), `ChronoController` and `Trace` compute with recursive operators, which the
  provers cannot use: that these agree with their reference definitions for every input
  would need induction over data.
* That `Network` settles what it owes in the end, the liveness part of `Delivery`.

## Not modelled, and the plan

Left out, with the reason:

* `IOController_Windows.ipp`: another implementation, not built on this platform.
* The destructors of the pool and the scheduler: they run when nothing else does.
* Socket set-up, address resolution and option parsing of the UDP and TCP words and of the
  network, and malformed packets: sequential I/O.
* The timer chain that makes `NetworkController` call `process` (each link is a `Delay` that the call
  before it asked for: `Network` assumes that it does not break), the reactions that listen for a hash, and the mutexes between `process`, `send` and `shutdown`.
* `emit<Initialise>`, `install` and `log` of `PowerPlant`; scopes of several words in one sentence.
* Serialisation, hashing, demangling, interface lists: pure functions with unit tests.

Next, most important first:

1. Proofs: `ActiveCounts` and `BufferBound` of `Reaction`, once the operators of `Sentence` that its state
   does not need are in a module apart.
2. An abstract bag of items per producer that `MPSCQueue` implements, and `TaskQueue` where it does.

## Running it

    tlc -config MCGroupFast.cfg MCGroup
    tlapm GroupProofs.tla
    tlapm PowerPlantProofs.tla

`PROJECT.json` lists every run with its module and configuration.

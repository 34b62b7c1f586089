-------------------------------- MODULE Pool --------------------------------
(***************************************************************************)
(* One thread pool of the scheduler: workers that take tasks from priority *)
(* buckets and sleep on a condition variable, threads that submit tasks,   *)
(* park them at a group and drain them later, and threads that stop the    *)
(* pool.  Idle reactions are not modelled.                                 *)
(*                                                                         *)
(* Work under the pool's mutex is cut only where it meets the atomics that *)
(* submit and register_external_waiter touch without it: accept,           *)
(* pending_tasks, external_waiters and the buckets, which are FIFO here.   *)
(* Group locks are reduced to one token, held by the tasks of Holding from *)
(* before their call of submit and wanted by those of Locking when they    *)
(* are run; a stop is modelled without them, for a task that is dropped    *)
(* would release its token too.                                            *)
(***************************************************************************)
EXTENDS Integers, Sequences, FiniteSets

CONSTANTS Workers, Tasks,
          Scenarios        \* what a pool is made of and what is asked of it, see below

StopTypes == {"NORMAL", "FINAL", "FORCE"}

\* Threads are told apart, whatever they do.
ASSUME ThreadsAssumption ==
  /\ IsFiniteSet(Tasks) /\ Tasks # {}
  /\ Workers \cap (StopTypes \cup {"nobody"}) = {} /\ "none" \notin Tasks

\* A scenario names the workers that exist, one at least, the tasks that are submitted, the
\* priority bucket of each, those that wait at a group before they are
\* submitted (parked), those that hold or want the group's lock, the calls of
\* stop, and the pool's descriptor: persistent, and single_consumer for one
\* worker, whose buckets are MPSC queues.
ASSUME PoolAssumption ==
  \A s \in Scenarios :
    /\ s.workers \subseteq Workers /\ s.workers # {} /\ s.tasks \subseteq Tasks
    /\ s.bucket \in [Tasks -> Nat]
    /\ s.parked \subseteq s.tasks /\ s.holding \subseteq s.tasks
    /\ s.locking \subseteq s.tasks \ s.holding
    /\ s.stops \subseteq StopTypes /\ s.persistent \in BOOLEAN
    /\ s.stops # {} => s.locking = {}
    /\ s.single_consumer => Cardinality(s.workers) = 1

VARIABLES
  scenario,        \* chosen at the start, it never changes
  running, accept, live, pending_tasks, external_waiters, discard_queues_requested,
  consumer,        \* consumer_thread_id is set
  buckets, mutex,
  sleeping,        \* the threads waiting on the condition variable
  state,           \* where each task is
  wpc, wtask, scan,  \* the workers: counter, task, bucket being scanned
  spc,             \* the thread that submits each task
  stop,            \* the thread of each call of stop
  kept             \* history: tasks parked while the pool was running

flags == <<running, accept, live, discard_queues_requested, consumer>>
counts == <<pending_tasks, external_waiters>>
workerVars == <<wpc, wtask, scan>>
vars == <<scenario, flags, counts, buckets, mutex, sleeping, state, workerVars, spc, stop, kept>>

Bucket == scenario.bucket
Parked == scenario.parked
Holding == scenario.holding
Locking == scenario.locking
Persistent == scenario.persistent
single_consumer == scenario.single_consumer

Buckets == {Bucket[t] : t \in Tasks}
Nobody == "nobody"
NoTask == "none"
FirstBucket == CHOOSE b \in Buckets : \A c \in Buckets : b <= c
Below(b) == {c \in Buckets : c > b}
NextBucket(b) == CHOOSE c \in Below(b) : \A d \in Below(b) : c <= d

\* The group's token is with no task.
Ended(t) == state[t] \in {"done", "refused", "discarded"}
Free == (\A t \in Holding : Ended(t)) /\ (\A t \in Locking : state[t] # "running")

Init ==
  /\ scenario \in Scenarios
  /\ running = TRUE /\ accept = TRUE /\ live = TRUE
  /\ pending_tasks = 0 /\ external_waiters = 0
  /\ discard_queues_requested = FALSE
  /\ consumer = FALSE
  /\ buckets = [b \in Buckets |-> <<>>]
  /\ mutex = Nobody
  /\ sleeping = {}
  /\ state = [t \in Tasks |-> "new"]
  /\ wpc = [w \in Workers |-> IF w \in scenario.workers THEN "new" ELSE "gone"]
  /\ wtask = [w \in Workers |-> NoTask]
  /\ scan = [w \in Workers |-> FirstBucket]
  /\ spc = [t \in Tasks |-> IF t \in scenario.tasks THEN "start" ELSE "done"]
  /\ stop = [s \in StopTypes |-> IF s \in scenario.stops THEN "start" ELSE "done"]
  /\ kept = {}

\* condition.notify_one wakes one of the sleeping threads, notify_all all.
NotifyOne ==
  IF sleeping = {} THEN UNCHANGED sleeping ELSE \E x \in sleeping : sleeping' = sleeping \ {x}
NotifyAll == sleeping' = {}

-----------------------------------------------------------------------------
(* Submitting.                                                             *)

SGoto(t, l) == spc' = [spc EXCEPT ![t] = l]

\* Pool::submit: a pool that does not accept drops the task ...
SubmitAccept(t) ==
  /\ spc[t] = "start" /\ t \notin Parked
  /\ IF accept
     THEN SGoto(t, "count") /\ state' = [state EXCEPT ![t] = "accepted"]
     ELSE SGoto(t, "done") /\ state' = [state EXCEPT ![t] = "refused"]
  /\ UNCHANGED <<flags, counts, buckets, mutex, sleeping, workerVars, stop, kept>>

\* Mutant: a drained task is left to its external_waiters registration.
SubmitUncounted(t) ==
  /\ spc[t] = "count"
  /\ pending_tasks' = IF t \in Parked THEN pending_tasks ELSE pending_tasks + 1
  /\ SGoto(t, "enqueue")
  /\ UNCHANGED <<flags, external_waiters, buckets, mutex, sleeping, state, workerVars, stop, kept>>

\* ... else the task is counted ...
SubmitCount(t) ==
  /\ spc[t] = "count"
  /\ pending_tasks' = pending_tasks + 1
  /\ SGoto(t, "enqueue")
  /\ UNCHANGED <<flags, external_waiters, buckets, mutex, sleeping, state, workerVars, stop, kept>>

\* ... enqueued ...
SubmitEnqueue(t) ==
  /\ spc[t] = "enqueue"
  /\ buckets' = [buckets EXCEPT ![Bucket[t]] = Append(@, t)]
  /\ state' = [state EXCEPT ![t] = "queued"]
  /\ SGoto(t, "notify")
  /\ UNCHANGED <<flags, counts, mutex, sleeping, workerVars, stop, kept>>

\* Mutant: no worker is woken.
SubmitSilently(t) ==
  /\ spc[t] = "notify"
  /\ mutex = Nobody
  /\ live' = TRUE
  /\ SGoto(t, IF t \in Parked THEN "unregister" ELSE "done")
  /\ UNCHANGED <<running, accept, discard_queues_requested, consumer, counts, buckets, mutex,
                 sleeping, state, workerVars, stop, kept>>

\* ... and a worker woken, under the mutex.
SubmitNotify(t) ==
  /\ spc[t] = "notify"
  /\ mutex = Nobody
  /\ live' = TRUE
  /\ NotifyOne
  /\ SGoto(t, IF t \in Parked THEN "unregister" ELSE "done")
  /\ UNCHANGED <<running, accept, discard_queues_requested, consumer, counts, buckets, mutex,
                 state, workerVars, stop, kept>>

\* Mutant: a parked task is not registered with its pool.
ParkUnregistered(t) ==
  /\ spc[t] = "start" /\ t \in Parked
  /\ state' = [state EXCEPT ![t] = "parked"]
  /\ kept' = IF running THEN kept \cup {t} ELSE kept
  /\ SGoto(t, "parked")
  /\ UNCHANGED <<flags, counts, buckets, mutex, sleeping, workerVars, stop>>

\* Group::park_publish registers an external waiter; no idle reaction exists.
Park(t) ==
  /\ spc[t] = "start" /\ t \in Parked
  /\ external_waiters' = external_waiters + 1
  /\ state' = [state EXCEPT ![t] = "parked"]
  /\ kept' = IF running THEN kept \cup {t} ELSE kept
  /\ SGoto(t, "parked")
  /\ UNCHANGED <<flags, pending_tasks, buckets, mutex, sleeping, workerVars, stop>>

\* drain_one_to_pool submits it by force: accept is not asked.
Drain(t) ==
  /\ spc[t] = "parked"
  /\ state' = [state EXCEPT ![t] = "accepted"]
  /\ SGoto(t, "count")
  /\ UNCHANGED <<flags, counts, buckets, mutex, sleeping, workerVars, stop, kept>>

\* The WaitEntry goes away, and its registration with it.
Unregister(t) ==
  /\ spc[t] = "unregister"
  /\ external_waiters' = external_waiters - 1
  /\ SGoto(t, IF external_waiters = 1 THEN "last" ELSE "done")
  /\ UNCHANGED <<flags, pending_tasks, buckets, mutex, sleeping, state, workerVars, stop, kept>>

\* Mutant: the last registration goes away without a word.
UnregisterSilently(t) ==
  /\ spc[t] = "last"
  /\ SGoto(t, "done")
  /\ UNCHANGED <<flags, counts, buckets, mutex, sleeping, state, workerVars, stop, kept>>

UnregisterNotify(t) ==
  /\ spc[t] = "last"
  /\ mutex = Nobody
  /\ NotifyAll
  /\ SGoto(t, "done")
  /\ UNCHANGED <<flags, counts, buckets, mutex, state, workerVars, stop, kept>>

-----------------------------------------------------------------------------
(* The workers: Pool::run and get_task.                                    *)

WGoto(w, l) == wpc' = [wpc EXCEPT ![w] = l]

\* The thread starts and is the consumer from here on.
RunEnter(w) ==
  /\ wpc[w] = "new"
  /\ consumer' = TRUE
  /\ WGoto(w, "enter")
  /\ UNCHANGED <<running, accept, live, discard_queues_requested, counts, buckets, mutex,
                 sleeping, state, wtask, scan, spc, stop, kept>>

LockMutex(w) ==
  /\ wpc[w] = "enter"
  /\ mutex = Nobody
  /\ mutex' = w
  /\ WGoto(w, "top")
  /\ UNCHANGED <<flags, counts, buckets, sleeping, state, wtask, scan, spc, stop, kept>>

\* The condition of the loop: running, ...
Top(w) ==
  /\ wpc[w] = "top"
  /\ WGoto(w, IF running THEN "discard" ELSE "top_pending")
  /\ UNCHANGED <<flags, counts, buckets, mutex, sleeping, state, wtask, scan, spc, stop, kept>>

\* ... or pending_tasks (unsigned: below zero it is huge), ...
TopPending(w) ==
  /\ wpc[w] = "top_pending"
  /\ WGoto(w, IF pending_tasks # 0 THEN "discard" ELSE "top_external")
  /\ UNCHANGED <<flags, counts, buckets, mutex, sleeping, state, wtask, scan, spc, stop, kept>>

\* Mutant: the loop does not ask for external_waiters.
TopForgetsExternal(w) ==
  /\ wpc[w] = "top_external"
  /\ IF discard_queues_requested
     THEN WGoto(w, "discard") /\ UNCHANGED <<mutex, sleeping>>
     ELSE WGoto(w, "leaving") /\ mutex' = Nobody /\ NotifyAll
  /\ UNCHANGED <<flags, counts, buckets, state, wtask, scan, spc, stop, kept>>

\* ... or external_waiters, or a request to discard.
TopExternal(w) ==
  /\ wpc[w] = "top_external"
  /\ IF external_waiters > 0 \/ discard_queues_requested
     THEN WGoto(w, "discard") /\ UNCHANGED <<mutex, sleeping>>
     ELSE WGoto(w, "leaving") /\ mutex' = Nobody /\ NotifyAll
  /\ UNCHANGED <<flags, counts, buckets, state, wtask, scan, spc, stop, kept>>

\* Pool::run after the exception: the consumer's id is reset, with no mutex.
RunLeave(w) ==
  /\ wpc[w] = "leaving"
  /\ consumer' = FALSE
  /\ WGoto(w, "gone")
  /\ UNCHANGED <<running, accept, live, discard_queues_requested, counts, buckets, mutex,
                 sleeping, state, wtask, scan, spc, stop, kept>>

\* drain_queues: the queued tasks are discarded.
DrainQueues ==
  /\ buckets' = [b \in Buckets |-> <<>>]
  /\ state' = [t \in Tasks |-> IF \E b \in Buckets : \E i \in 1 .. Len(buckets[b]) : buckets[b][i] = t
                               THEN "discarded" ELSE state[t]]

\* A forced stop asked this worker to drain the queues, ...
DiscardDrain(w) ==
  /\ wpc[w] = "discard"
  /\ discard_queues_requested
  /\ DrainQueues
  /\ WGoto(w, "discarded")
  /\ UNCHANGED <<flags, counts, mutex, sleeping, wtask, scan, spc, stop, kept>>

\* Mutant: the request to discard is not taken back.
DiscardUnanswered(w) ==
  /\ wpc[w] = "discarded"
  /\ pending_tasks' = 0
  /\ NotifyAll
  /\ mutex' = Nobody
  /\ WGoto(w, "enter")
  /\ UNCHANGED <<flags, external_waiters, buckets, state, wtask, scan, spc, stop, kept>>

\* ... which answers, and starts over.
DiscardAnswer(w) ==
  /\ wpc[w] = "discarded"
  /\ pending_tasks' = 0
  /\ discard_queues_requested' = FALSE
  /\ NotifyAll
  /\ mutex' = Nobody
  /\ WGoto(w, "enter")
  /\ UNCHANGED <<running, accept, live, consumer, external_waiters, buckets, state, wtask, scan,
                 spc, stop, kept>>

\* Nothing to discard: poll the buckets if the pool is live.
PollOrSleep(w) ==
  /\ wpc[w] = "discard"
  /\ ~discard_queues_requested
  /\ scan' = [scan EXCEPT ![w] = FirstBucket]
  /\ WGoto(w, IF live THEN "dequeue" ELSE "sleep")
  /\ UNCHANGED <<flags, counts, buckets, mutex, sleeping, state, wtask, spc, stop, kept>>

\* try_dequeue_task, bucket by bucket: a task whose lock can be had is run; one
\* whose lock cannot is enqueued again and the worker goes to sleep ...
TakeTask(w) ==
  LET b == scan[w]
      t == Head(buckets[b]) IN
  /\ wpc[w] = "dequeue"
  /\ buckets[b] # <<>>
  /\ IF t \in Locking /\ ~Free
     THEN /\ buckets' = [buckets EXCEPT ![b] = Append(Tail(@), t)]
          /\ live' = FALSE
          /\ WGoto(w, "sleep")
          /\ UNCHANGED <<pending_tasks, state, wtask, mutex>>
     ELSE /\ buckets' = [buckets EXCEPT ![b] = Tail(@)]
          /\ pending_tasks' = pending_tasks - 1
          /\ state' = [state EXCEPT ![t] = "running"]
          /\ wtask' = [wtask EXCEPT ![w] = t]
          /\ mutex' = Nobody
          /\ WGoto(w, "run")
          /\ UNCHANGED live
  /\ UNCHANGED <<running, accept, discard_queues_requested, consumer, external_waiters,
                 sleeping, scan, spc, stop, kept>>

\* ... and so does a worker that finds every bucket empty.
SkipBucket(w) ==
  LET b == scan[w] IN
  /\ wpc[w] = "dequeue"
  /\ buckets[b] = <<>>
  /\ IF Below(b) # {}
     THEN /\ scan' = [scan EXCEPT ![w] = NextBucket(b)]
          /\ UNCHANGED <<wpc, live>>
     ELSE /\ live' = FALSE
          /\ WGoto(w, "sleep")
          /\ UNCHANGED scan
  /\ UNCHANGED <<running, accept, discard_queues_requested, consumer, counts, buckets, mutex,
                 sleeping, state, wtask, spc, stop, kept>>

\* condition.wait: the predicate, with its loads in their order, ...
Sleep(w) ==
  /\ wpc[w] = "sleep"
  /\ IF live \/ discard_queues_requested
     THEN WGoto(w, "top") /\ UNCHANGED <<mutex, sleeping>>
     ELSE IF running
     THEN WGoto(w, "waiting") /\ mutex' = Nobody /\ sleeping' = sleeping \cup {w}
     ELSE WGoto(w, "sleep_pending") /\ UNCHANGED <<mutex, sleeping>>
  /\ UNCHANGED <<flags, counts, buckets, state, wtask, scan, spc, stop, kept>>

SleepPending(w) ==
  /\ wpc[w] = "sleep_pending"
  /\ IF pending_tasks = 0
     THEN WGoto(w, "sleep_external") /\ UNCHANGED <<mutex, sleeping>>
     ELSE WGoto(w, "waiting") /\ mutex' = Nobody /\ sleeping' = sleeping \cup {w}
  /\ UNCHANGED <<flags, counts, buckets, state, wtask, scan, spc, stop, kept>>

SleepExternal(w) ==
  /\ wpc[w] = "sleep_external"
  /\ IF external_waiters = 0
     THEN WGoto(w, "top") /\ UNCHANGED <<mutex, sleeping>>
     ELSE WGoto(w, "waiting") /\ mutex' = Nobody /\ sleeping' = sleeping \cup {w}
  /\ UNCHANGED <<flags, counts, buckets, state, wtask, scan, spc, stop, kept>>

\* ... and, once notified, the mutex and the predicate again.
Awake(w) ==
  /\ wpc[w] = "waiting"
  /\ w \notin sleeping
  /\ mutex = Nobody
  /\ mutex' = w
  /\ WGoto(w, "sleep")
  /\ UNCHANGED <<flags, counts, buckets, sleeping, state, wtask, scan, spc, stop, kept>>

\* A condition variable may wake a thread for no reason.
SpuriousWakeup(w) ==
  /\ w \in sleeping
  /\ sleeping' = sleeping \ {w}
  /\ UNCHANGED <<scenario, flags, counts, buckets, mutex, state, workerVars, spc, stop, kept>>

\* The task has run and its lock is released, ...
FinishTask(w) ==
  LET t == wtask[w] IN
  /\ wpc[w] = "run"
  /\ state' = [state EXCEPT ![t] = "done"]
  /\ wtask' = [wtask EXCEPT ![w] = NoTask]
  /\ WGoto(w, IF t \in Holding \cup Locking THEN "release" ELSE "enter")
  /\ UNCHANGED <<flags, counts, buckets, mutex, sleeping, scan, spc, stop, kept>>

\* ... which notifies the pool of a task that waits for it: Pool::notify.
ReleaseNotify(w) ==
  /\ wpc[w] = "release"
  /\ mutex = Nobody
  /\ IF \E t \in Locking : state[t] \in {"accepted", "queued"}
     THEN live' = TRUE /\ NotifyOne
     ELSE UNCHANGED <<live, sleeping>>
  /\ WGoto(w, "enter")
  /\ UNCHANGED <<running, accept, discard_queues_requested, consumer, counts, buckets, mutex,
                 state, wtask, scan, spc, stop, kept>>

-----------------------------------------------------------------------------
(* Pool::stop.                                                             *)

StopGoto(s, l) == stop' = [stop EXCEPT ![s] = l]

\* A normal or final stop; Scheduler::start ends with the final ones.
StopGently(s) ==
  /\ s # "FORCE"
  /\ stop[s] = "start"
  /\ s = "FINAL" => stop["NORMAL"] = "done"
  /\ mutex = Nobody
  /\ live' = TRUE
  /\ accept' = Persistent
  /\ running' = IF s = "NORMAL" THEN Persistent ELSE FALSE
  /\ NotifyAll
  /\ StopGoto(s, "done")
  /\ UNCHANGED <<discard_queues_requested, consumer, counts, buckets, mutex, state, workerVars,
                 spc, kept>>

\* A forced stop drains the queues itself, or asks the only consumer to.
StopForce(s) ==
  /\ s = "FORCE"
  /\ stop[s] = "start"
  /\ mutex = Nobody
  /\ live' = TRUE
  /\ accept' = FALSE
  /\ running' = FALSE
  /\ IF single_consumer /\ consumer
     THEN /\ discard_queues_requested' = TRUE
          /\ sleeping' = {s}
          /\ StopGoto(s, "handshake")
          /\ UNCHANGED <<buckets, state, mutex>>
     ELSE /\ DrainQueues
          /\ mutex' = s
          /\ StopGoto(s, "zero")
          /\ UNCHANGED <<discard_queues_requested, sleeping>>
  /\ UNCHANGED <<consumer, counts, workerVars, spc, kept>>

\* It waits for the consumer's answer on the workers' condition variable.
StopHandshake(s) ==
  /\ s = "FORCE"
  /\ stop[s] = "handshake"
  /\ s \notin sleeping
  /\ mutex = Nobody
  /\ IF discard_queues_requested
     THEN sleeping' = {s} \cup sleeping /\ UNCHANGED <<stop, pending_tasks>>
     ELSE /\ pending_tasks' = 0
          /\ NotifyAll
          /\ StopGoto(s, "done")
  /\ UNCHANGED <<flags, external_waiters, buckets, mutex, state, workerVars, spc, kept>>

StopZero(s) ==
  /\ s = "FORCE"
  /\ stop[s] = "zero"
  /\ pending_tasks' = 0
  /\ NotifyAll
  /\ mutex' = Nobody
  /\ StopGoto(s, "done")
  /\ UNCHANGED <<flags, external_waiters, buckets, state, workerVars, spc, kept>>

-----------------------------------------------------------------------------
SubmitStep(t) ==
  /\ UNCHANGED scenario
  /\ \/ SubmitAccept(t) \/ SubmitCount(t) \/ SubmitEnqueue(t) \/ SubmitNotify(t)
     \/ Park(t) \/ Drain(t) \/ Unregister(t) \/ UnregisterNotify(t)
WorkerStep(w) ==
  /\ UNCHANGED scenario
  /\ \/ RunEnter(w) \/ LockMutex(w) \/ Top(w) \/ TopPending(w) \/ TopExternal(w) \/ RunLeave(w)
     \/ DiscardDrain(w) \/ DiscardAnswer(w) \/ PollOrSleep(w) \/ TakeTask(w) \/ SkipBucket(w)
     \/ Sleep(w) \/ SleepPending(w) \/ SleepExternal(w) \/ Awake(w) \/ FinishTask(w) \/ ReleaseNotify(w)
StopStep(s) ==
  /\ UNCHANGED scenario
  /\ StopGently(s) \/ StopForce(s) \/ StopHandshake(s) \/ StopZero(s)

\* Everything submitted and stopped, the workers asleep or gone.
Quiet ==
  /\ \A t \in Tasks : spc[t] = "done"
  /\ \A s \in StopTypes : stop[s] = "done"
  /\ \A w \in Workers : wpc[w] = "gone" \/ w \in sleeping
Rest == Quiet /\ UNCHANGED vars

Next ==
  \/ \E t \in Tasks : SubmitStep(t)
  \/ \E w \in Workers : WorkerStep(w) \/ SpuriousWakeup(w)
  \/ \E s \in StopTypes : StopStep(s)
  \/ Rest

Spec == Init /\ [][Next]_vars
\* Every thread that can run does, again and again; the mutex is not refused
\* for ever to a thread that finds it free again and again.
FairSpec ==
  /\ Spec
  /\ \A t \in Tasks : SF_vars(SubmitStep(t))
  /\ \A w \in Workers : SF_vars(WorkerStep(w))
  /\ \A s \in StopTypes : SF_vars(StopStep(s))
-----------------------------------------------------------------------------
TypeOK ==
  /\ {running, accept, live, discard_queues_requested, consumer} \subseteq BOOLEAN
  /\ pending_tasks \in Int /\ external_waiters \in Nat
  /\ buckets \in [Buckets -> Seq(Tasks)]
  /\ mutex \in Workers \cup StopTypes \cup {Nobody}
  /\ sleeping \subseteq Workers \cup StopTypes
  /\ state \in [Tasks -> {"new", "accepted", "parked", "queued", "running", "done", "refused", "discarded"}]
  /\ wpc \in [Workers -> {"new", "enter", "top", "top_pending", "top_external", "discard",
                          "discarded", "dequeue", "sleep", "sleep_pending", "sleep_external",
                          "waiting", "run", "release", "leaving", "gone"}]
  /\ wtask \in [Workers -> Tasks \cup {NoTask}]
  /\ scan \in [Workers -> Buckets]
  /\ spc \in [Tasks -> {"start", "parked", "count", "enqueue", "notify", "unregister", "last", "done"}]
  /\ stop \in [StopTypes -> {"start", "handshake", "zero", "done"}]
  /\ kept \subseteq Parked

AllGone == \A w \in Workers : wpc[w] = "gone"

\* pending_tasks counts the queued tasks and those about to be enqueued, so a
\* worker that reads zero leaves nothing in the buckets; a re-enqueued task is
\* never counted twice.  A forced stop zeroes it beside other submissions.
PendingAccounting ==
  "FORCE" \notin scenario.stops =>
  pending_tasks = Cardinality({t \in Tasks : state[t] = "queued"})
                  + Cardinality({t \in Tasks : spc[t] = "enqueue"})

\* The atomics of the pool keep their meaning at every cut: pending_tasks counts
\* the tasks between submit and dequeue, and nothing wraps below zero.
Accounting == TypeOK /\ PendingAccounting

\* A task parked at a group while its pool runs keeps the pool's workers until
\* one of them has taken it, whenever a stop comes; but for a forced one, which
\* discards it.
KeptTasksRun ==
  "FORCE" \notin scenario.stops /\ AllGone => \A t \in kept : state[t] = "done"

\* No lost wakeup, and join returns: what is submitted to a pool that is not
\* stopped is run, and a pool that is stopped ends every call of stop and loses
\* every worker.
Unfinished ==
  \/ scenario.stops = {} /\ \E t \in scenario.tasks : state[t] # "done"
  \/ \E s \in StopTypes : stop[s] # "done"
  \/ ~running /\ ~AllGone
PoolSettles == <>~Unfinished
=============================================================================

----------------------------- MODULE PowerPlant -----------------------------
(***************************************************************************)
(* A whole system: the main thread that installs reactors, starts the      *)
(* scheduler, serves the main pool until it stops and then joins the other *)
(* pools; the workers of those pools; and threads from outside.  Pools are *)
(* made on demand, tasks of a Sync group may be parked until the token is  *)
(* free, idle reactions run when a pool, or all of them, have nothing to   *)
(* do, and shutdown is called by anyone, once or twice, forced or not.     *)
(*                                                                         *)
(* What happens inside one pool's mutex is one action here, and a pool's   *)
(* queue, its pending count and the group's token are atomic: modules      *)
(* Pool, TaskQueue and Group are about those.  What this module is about   *)
(* is several pools: the counting locks that decide together that all of   *)
(* them are idle, and the order in which they start and stop.              *)
(*                                                                         *)
(* A thread is a sequence of operations still to be done; a call replaces  *)
(* itself by its steps.                                                    *)
(***************************************************************************)
EXTENDS Integers, FiniteSets, SequencesExt

CONSTANTS Pools, Threads, Tasks,
          Scenarios        \* what a system is made of and does, see below

\* The calls of a script: an emit, the words that bind and unbind an idle
\* reaction of a pool or of the whole system, and PowerPlant::shutdown.
Calls == {"submit", "bindall", "unbindall"} \X Tasks
         \cup {"bind", "unbind"} \X Tasks \X Pools
         \cup {"shutdown"} \X {"NORMAL", "FORCE"}
Nobody == "nobody"

\* A scenario names the workers of each pool, the pools that count for idle,
\* those that are persistent and those with a single consumer; the tasks of
\* the Sync group, those of priority IDLE, those that trigger on Shutdown; the
\* pool of each task and the calls its callback makes; the calls of the main
\* thread before start (the constructors of the reactors and the reactions to
\* Startup), and those of the threads from outside, once it has started.  A
\* pool has a worker, whose calls are all in its tasks.
ASSUME PowerPlantAssumption ==
  /\ "main" \in Pools /\ "main" \in Threads /\ Nobody \notin Pools
  /\ IsFiniteSet(Pools) /\ IsFiniteSet(Threads) /\ IsFiniteSet(Tasks)
  /\ \A s \in Scenarios :
       /\ s.workers \in [Pools -> (SUBSET Threads) \ {{}}] /\ s.workers["main"] = {"main"}
       /\ \A p, q \in Pools : p # q => s.workers[p] \cap s.workers[q] = {}
       /\ s.counts \subseteq Pools /\ s.persistent \subseteq Pools /\ s.single \subseteq Pools
       /\ s.sync \subseteq Tasks /\ s.low \subseteq Tasks /\ s.shutdown \subseteq s.low
       /\ s.home \in [Tasks -> Pools] /\ s.body \in [Tasks -> Seq(Calls)]
       /\ s.setup \in Seq(Calls) /\ s.outside \in [Threads -> Seq(Calls)]
       /\ \A p \in Pools : \A th \in s.workers[p] : s.outside[th] = <<>>
\* A forced stop destroys the tasks it drops, and one of the Sync group would give its
\* token to a task that waits: that is not modelled, and no scenario has both.
Forces(s) ==
  \E calls \in Range(s.body) \cup Range(s.outside) \cup {s.setup} : <<"shutdown", "FORCE">> \in Range(calls)
ASSUME ForceAssumption == \A s \in Scenarios : Forces(s) => s.sync = {}

VARIABLES
  scenario,
  scheduler,   \* started, running, the pool under construction, and its idle reactions
  pool,        \* the pools
  idle,        \* the counting locks: active and thread_idle, active_pools and pool_idle
  group,       \* the Sync group: whether its token is taken, and who waits for it
  todo,        \* what each thread has left to do
  sleeping,    \* the threads that wait on the condition variable of each pool
  terminated,  \* submit is noexcept and get_pool threw
  forced, ran, \* history: a forced shutdown was called; the tasks that have been run
  owed         \* history: tasks submitted by someone not idle, and not yet taken

history == <<forced, ran, owed>>
vars == <<scenario, scheduler, pool, idle, group, todo, sleeping, terminated, history>>

Workers(p) == scenario.workers[p]
Home(t) == scenario.home[t]
Counts(p) == p \in scenario.counts
Persistent(p) == p \in scenario.persistent
PoolOf(th) == IF \E p \in Pools : th \in Workers(p)
              THEN CHOOSE p \in Pools : th \in Workers(p) ELSE Nobody

Ops(op, S) == LET s == SetToSeq(S) IN [i \in DOMAIN s |-> <<op, s[i]>>]
Submits(S) == Ops("submit", S)

NoPool == [made |-> FALSE, running |-> TRUE, accept |-> TRUE, live |-> TRUE, pending_idle |-> FALSE,
           discard |-> FALSE, external_waiters |-> 0, queue |-> <<>>, idle_tasks |-> {}]

\* The scheduler's constructor makes the main pool, whose counting lock makes
\* it idle from the start.
Init ==
  /\ scenario \in Scenarios
  /\ scheduler = [started |-> FALSE, running |-> TRUE, building |-> Nobody, idle_tasks |-> {}]
  /\ pool = [p \in Pools |-> [NoPool EXCEPT !.made = (p = "main")]]
  /\ idle = [active |-> [p \in Pools |-> 0], thread |-> [th \in Threads |-> FALSE],
             active_pools |-> 0, pool |-> [p \in Pools |-> p = "main" /\ Counts("main")]]
  /\ group = [taken |-> FALSE, waiting |-> <<>>]
  /\ todo = [th \in Threads |->
               IF th = "main" THEN scenario.setup \o <<<<"start">>, <<"mainpool">>, <<"finals">>>>
               ELSE IF scenario.outside[th] # <<>> THEN <<<<"begin">>>> \o scenario.outside[th] ELSE <<>>]
  /\ sleeping = [p \in Pools |-> {}]
  /\ terminated = FALSE /\ forced = FALSE /\ ran = {} /\ owed = {}

At(th, op) == ~terminated /\ todo[th] # <<>> /\ Head(todo[th])[1] = op
Arg(th, i) == Head(todo[th])[i]
Do(th, ops) == todo' = [todo EXCEPT ![th] = ops \o Tail(@)]

NotifyOne(p) ==
  IF sleeping[p] = {} THEN UNCHANGED sleeping
  ELSE \E th \in sleeping[p] : sleeping' = [sleeping EXCEPT ![p] = @ \ {th}]
NotifyAll(p) == sleeping' = [sleeping EXCEPT ![p] = {}]

-----------------------------------------------------------------------------
(* The counting locks.  A worker that finds nothing counts itself out of   *)
(* its pool; a pool whose workers all have counts itself out of the        *)
(* scheduler; whoever brings a count to zero has the lock.                 *)

\* Mutant: a worker counts itself out each time it finds nothing.
ThreadIdleAgain(i, p, th) == [i EXCEPT !.thread[th] = TRUE, !.active[p] = @ - 1]

ThreadIdle(i, p, th) ==
  IF i.thread[th] THEN i ELSE [i EXCEPT !.thread[th] = TRUE, !.active[p] = @ - 1]
ThreadBusy(i, p, th) ==
  IF i.thread[th] THEN [i EXCEPT !.thread[th] = FALSE, !.active[p] = @ + 1] ELSE i
PoolIdle(i, p) == [i EXCEPT !.pool[p] = TRUE, !.active_pools = @ - 1]
PoolBusy(i, p) ==
  IF i.pool[p] THEN [i EXCEPT !.pool[p] = FALSE, !.active_pools = @ + 1] ELSE i

\* Pool::is_idle of the pool the thread belongs to.
CurrentIdle(th) == PoolOf(th) # Nobody /\ idle.pool[PoolOf(th)]

\* No idle reaction could fire on this pool.
IdleRelevant(p) == pool[p].idle_tasks # {} \/ scheduler.idle_tasks # {}

-----------------------------------------------------------------------------
(* Scheduler::get_pool.                                                    *)

\* Pool::start gives each worker a thread.
Started(td, ps) == [th \in Threads |-> IF PoolOf(th) \in ps /\ th # "main" THEN <<<<"poll">>>> ELSE td[th]]
Activated(i, ps) ==
  [i EXCEPT !.active = [p \in Pools |-> IF p \in ps /\ Counts(p) THEN Cardinality(Workers(p)) ELSE @[p]]]

Wanted(th) == IF Head(todo[th])[1] = "submit" THEN Home(Arg(th, 2)) ELSE Arg(th, 3)
Wants(th) == At(th, "submit") \/ At(th, "bind")
Got(th) == IF Head(todo[th])[1] = "submit" THEN <<<<"route", Arg(th, 2)>>>>
           ELSE <<<<"add", Arg(th, 2), Arg(th, 3)>>>>

GetPool(th) ==
  /\ Wants(th) /\ pool[Wanted(th)].made
  /\ Do(th, Got(th))
  /\ UNCHANGED <<scheduler, pool, idle, group, sleeping, terminated, history>>

\* Mutant: a pool is made even if the scheduler is stopping.
MakePoolAnyway(th) ==
  /\ Wants(th) /\ ~pool[Wanted(th)].made
  /\ scheduler.building = Nobody
  /\ scheduler' = [scheduler EXCEPT !.building = Wanted(th)]
  /\ idle' = IF Counts(Wanted(th)) THEN [idle EXCEPT !.active_pools = @ + 1] ELSE idle
  /\ Do(th, <<<<"build", Wanted(th)>>>> \o Got(th))
  /\ UNCHANGED <<pool, group, sleeping, terminated, history>>

\* A pool that does not exist is constructed, counted as active at first ...
MakePool(th) ==
  /\ Wants(th) /\ ~pool[Wanted(th)].made
  /\ scheduler.building = Nobody /\ scheduler.running
  /\ scheduler' = [scheduler EXCEPT !.building = Wanted(th)]
  /\ idle' = IF Counts(Wanted(th)) THEN [idle EXCEPT !.active_pools = @ + 1] ELSE idle
  /\ Do(th, <<<<"build", Wanted(th)>>>> \o Got(th))
  /\ UNCHANGED <<pool, group, sleeping, terminated, history>>

\* ... then idle, and started if the scheduler has started.
BuildPool(th) ==
  /\ At(th, "build")
  /\ LET p == Arg(th, 2)
         now == IF scheduler.started THEN {p} ELSE {}
     IN /\ scheduler' = [scheduler EXCEPT !.building = Nobody]
        /\ pool' = [pool EXCEPT ![p].made = TRUE]
        /\ idle' = Activated(IF Counts(p) THEN PoolIdle(idle, p) ELSE idle, now)
        /\ todo' = Started([todo EXCEPT ![th] = Tail(@)], now)
  /\ UNCHANGED <<group, sleeping, terminated, history>>

\* No pool is made once the scheduler stops: get_pool throws, and submit is
\* noexcept.
RefusePool(th) ==
  /\ Wants(th) /\ ~pool[Wanted(th)].made
  /\ scheduler.building = Nobody /\ ~scheduler.running
  /\ terminated' = TRUE
  /\ UNCHANGED <<scheduler, pool, idle, group, todo, sleeping, history>>

-----------------------------------------------------------------------------
(* Scheduler::submit and Pool::submit.                                     *)

\* The idleness of the submitter's own pool is read; a task of the group that
\* finds the token taken is parked, and its pool told to look whether it is
\* idle; one that does not goes to its pool.
Route(th) ==
  /\ At(th, "route")
  /\ LET t == Arg(th, 2)
         p == Home(t)
         clear == ~CurrentIdle(th)
         tell == IdleRelevant(p)
     IN IF t \in scenario.sync /\ group.taken
        THEN /\ group' = [group EXCEPT !.waiting = Append(@, <<t, clear>>)]
             /\ pool' = [pool EXCEPT ![p].external_waiters = @ + 1, ![p].pending_idle = @ \/ tell]
             /\ IF tell /\ ~pool[p].pending_idle THEN NotifyOne(p) ELSE UNCHANGED sleeping
             /\ Do(th, <<>>)
        ELSE /\ group' = [group EXCEPT !.taken = @ \/ t \in scenario.sync]
             /\ Do(th, <<<<"accept", t, clear>>>>)
             /\ UNCHANGED <<pool, sleeping>>
  /\ UNCHANGED <<scheduler, idle, terminated, history>>

\* The token goes to the first that waits, which is submitted by force and
\* then counted out of its pool's external waiters.
Handover ==
  IF group.waiting = <<>> THEN <<>>
  ELSE LET t == Head(group.waiting)[1] IN
       <<<<"enqueue", t, Head(group.waiting)[2]>>, <<"unregister", Home(t)>>>>
Handed == IF group.waiting = <<>> THEN [group EXCEPT !.taken = FALSE]
          ELSE [group EXCEPT !.waiting = Tail(@)]

\* A pool that does not accept drops the task, and the token with it.
Accept(th) ==
  /\ At(th, "accept")
  /\ LET t == Arg(th, 2) IN
     IF pool[Home(t)].accept
     THEN Do(th, <<<<"enqueue", t, Arg(th, 3)>>>>) /\ UNCHANGED group
     ELSE IF t \in scenario.sync THEN Do(th, Handover) /\ group' = Handed
     ELSE Do(th, <<>>) /\ UNCHANGED group
  /\ UNCHANGED <<scheduler, pool, idle, sleeping, terminated, history>>

\* A bucket of priority IDLE is looked at last.
Queued(q, t) ==
  IF t \in scenario.low THEN Append(q, t)
  ELSE InsertAt(q, Cardinality({i \in DOMAIN q : q[i] \notin scenario.low}) + 1, t)

Enqueue(th) ==
  /\ At(th, "enqueue")
  /\ LET t == Arg(th, 2) IN
     /\ pool' = [pool EXCEPT ![Home(t)].queue = Queued(@, t)]
     /\ Do(th, <<<<"notify", Home(t), Arg(th, 3), {t}>>>>)
  /\ UNCHANGED <<scheduler, idle, group, sleeping, terminated, history>>

\* Pool::notify, which is also the end of Pool::submit.
Notify(th) ==
  /\ At(th, "notify")
  /\ LET p == Arg(th, 2) IN
     /\ pool' = [pool EXCEPT ![p].live = TRUE]
     /\ idle' = IF Arg(th, 3) THEN PoolBusy(idle, p) ELSE idle
     /\ owed' = owed \cup (IF Arg(th, 3) THEN Arg(th, 4) \cap Range(pool[p].queue) ELSE {})
     /\ NotifyOne(p)
  /\ Do(th, <<>>)
  /\ UNCHANGED <<scheduler, group, terminated, forced, ran>>

Unregister(th) ==
  /\ At(th, "unregister")
  /\ LET p == Arg(th, 2) IN
     /\ pool' = [pool EXCEPT ![p].external_waiters = @ - 1]
     /\ IF pool[p].external_waiters = 1 THEN NotifyAll(p) ELSE UNCHANGED sleeping
  /\ Do(th, <<>>)
  /\ UNCHANGED <<scheduler, idle, group, terminated, history>>

-----------------------------------------------------------------------------
(* Pool::get_task.                                                         *)

Countable(p) == pool[p].running /\ Counts(p)
GoesOn(p) == \/ pool[p].running \/ pool[p].queue # <<>>
             \/ pool[p].external_waiters > 0 \/ pool[p].discard
Serves(th) == At(th, "poll") /\ GoesOn(PoolOf(th)) /\ ~pool[PoolOf(th)].discard

\* Mutant: the latch fires the idle reactions of the whole system too, before
\* the queue is looked at.
LatchedGlobally(th) ==
  LET p == PoolOf(th)
      i == ThreadIdle(idle, p, th)
  IN IF ~pool[p].pending_idle \/ ~Countable(p) THEN idle
     ELSE IF i.active[p] = 0 /\ ~i.pool[p] THEN PoolIdle(i, p) ELSE i

\* A worker told that a waiter was parked first counts itself out of its
\* pool: the pool's own idle reactions may fire before the queue is looked at,
\* never those of the whole system.
Latched(th) ==
  LET p == PoolOf(th) IN IF pool[p].pending_idle /\ Countable(p) THEN ThreadIdle(idle, p, th) ELSE idle
LocalFires(i, j, p) == i # j /\ j.active[p] = 0
Early(th) == LET p == PoolOf(th) IN LocalFires(idle, Latched(th), p) /\ pool[p].idle_tasks # {}

PollLatched(th) ==
  /\ Serves(th) /\ Early(th)
  /\ idle' = Latched(th)
  /\ pool' = [pool EXCEPT ![PoolOf(th)].pending_idle = FALSE]
  /\ todo' = [todo EXCEPT ![th] = Submits(pool[PoolOf(th)].idle_tasks) \o @]
  /\ UNCHANGED <<scheduler, group, sleeping, terminated, history>>

Take(th) == ~Early(th) /\ pool[PoolOf(th)].live /\ pool[PoolOf(th)].queue # <<>>

PollTake(th) ==
  /\ Serves(th) /\ Take(th)
  /\ LET p == PoolOf(th)
         t == Head(pool[p].queue)
     IN /\ pool' = [pool EXCEPT ![p].queue = Tail(@), ![p].pending_idle = FALSE]
        /\ idle' = PoolBusy(ThreadBusy(Latched(th), p, th), p)
        /\ owed' = owed \ {t}
        /\ todo' = [todo EXCEPT ![th] = scenario.body[t] \o <<<<"done", t>>>> \o @]
  /\ UNCHANGED <<scheduler, group, sleeping, terminated, forced, ran>>

\* A worker that finds nothing counts itself out; the last of its pool fires
\* the pool's idle reactions and counts the pool out; the last pool fires the
\* idle reactions of the system.  With nothing to fire it sleeps.
PollIdle(th) ==
  /\ Serves(th) /\ ~Early(th) /\ ~Take(th)
  /\ LET p == PoolOf(th)
         i == Latched(th)
         j == IF Countable(p) THEN ThreadIdle(i, p, th) ELSE i
         out == Countable(p) /\ j.active[p] = 0 /\ ~j.pool[p]
         k == IF out THEN PoolIdle(j, p) ELSE j
         fired == (IF LocalFires(i, j, p) THEN pool[p].idle_tasks ELSE {})
                  \cup (IF out /\ k.active_pools = 0 THEN scheduler.idle_tasks ELSE {})
     IN /\ idle' = k
        /\ pool' = [pool EXCEPT ![p].live = FALSE, ![p].pending_idle = FALSE]
        /\ IF fired = {}
           THEN /\ todo' = [todo EXCEPT ![th] = <<<<"wait">>>> \o @]
                /\ sleeping' = [sleeping EXCEPT ![p] = @ \cup {th}]
           ELSE /\ todo' = [todo EXCEPT ![th] = Submits(fired) \o @]
                /\ UNCHANGED sleeping
  /\ UNCHANGED <<scheduler, group, terminated, history>>

\* A thread woken looks at the predicate of its wait.
Wake(th) ==
  /\ At(th, "wait")
  /\ LET p == PoolOf(th) IN
     /\ th \notin sleeping[p]
     /\ IF \/ pool[p].live \/ pool[p].pending_idle \/ pool[p].discard
           \/ ~pool[p].running /\ pool[p].queue = <<>> /\ pool[p].external_waiters = 0
        THEN Do(th, <<>>) /\ UNCHANGED sleeping
        ELSE sleeping' = [sleeping EXCEPT ![p] = @ \cup {th}] /\ UNCHANGED todo
  /\ UNCHANGED <<scheduler, pool, idle, group, terminated, history>>

\* The single consumer drops its queue for a thread that stops the pool.
PollDiscard(th) ==
  /\ At(th, "poll") /\ pool[PoolOf(th)].discard
  /\ pool' = [pool EXCEPT ![PoolOf(th)].queue = <<>>, ![PoolOf(th)].discard = FALSE]
  /\ NotifyAll(PoolOf(th))
  /\ owed' = owed \ Range(pool[PoolOf(th)].queue)
  /\ UNCHANGED <<scheduler, idle, group, todo, terminated, forced, ran>>

\* ShutdownThreadException ends the worker; the main thread goes on in start.
PollExit(th) ==
  /\ At(th, "poll") /\ ~GoesOn(PoolOf(th))
  /\ NotifyAll(PoolOf(th))
  /\ Do(th, <<>>)
  /\ UNCHANGED <<scheduler, pool, idle, group, terminated, history>>

\* The callback has returned; the task's lock goes with it.
Done(th) ==
  /\ At(th, "done")
  /\ ran' = ran \cup {Arg(th, 2)}
  /\ IF Arg(th, 2) \in scenario.sync
     THEN Do(th, Handover) /\ group' = Handed
     ELSE Do(th, <<>>) /\ UNCHANGED group
  /\ UNCHANGED <<scheduler, pool, idle, sleeping, terminated, forced, owed>>

-----------------------------------------------------------------------------
(* Idle reactions: add_idle_task and remove_idle_task.                     *)

AddIdle(th) ==
  /\ At(th, "add")
  /\ LET p == Arg(th, 3) IN
     /\ pool' = [pool EXCEPT ![p].idle_tasks = @ \cup {Arg(th, 2)}]
     /\ IF pool[p].idle_tasks = {} THEN NotifyOne(p) ELSE UNCHANGED sleeping
  /\ Do(th, <<>>)
  /\ UNCHANGED <<scheduler, idle, group, terminated, history>>

\* Mutant: the main pool is not told of the first idle reaction.
AddIdleQuietly(th) ==
  /\ At(th, "bindall")
  /\ scheduler' = [scheduler EXCEPT !.idle_tasks = @ \cup {Arg(th, 2)}]
  /\ Do(th, <<>>)
  /\ UNCHANGED <<pool, idle, group, sleeping, terminated, history>>

\* The main pool is told, for everyone may be idle already.
AddIdleToAll(th) ==
  /\ At(th, "bindall")
  /\ scheduler' = [scheduler EXCEPT !.idle_tasks = @ \cup {Arg(th, 2)}]
  /\ Do(th, <<<<"notify", "main", TRUE, {}>>>>)
  /\ UNCHANGED <<pool, idle, group, sleeping, terminated, history>>

RemoveIdle(th) ==
  /\ At(th, "unbind")
  /\ pool' = [pool EXCEPT ![Arg(th, 3)].idle_tasks = @ \ {Arg(th, 2)}]
  /\ Do(th, <<>>)
  /\ UNCHANGED <<scheduler, idle, group, sleeping, terminated, history>>

RemoveIdleFromAll(th) ==
  /\ At(th, "unbindall")
  /\ scheduler' = [scheduler EXCEPT !.idle_tasks = @ \ {Arg(th, 2)}]
  /\ Do(th, <<>>)
  /\ UNCHANGED <<pool, idle, group, sleeping, terminated, history>>

-----------------------------------------------------------------------------
(* Starting and stopping.                                                  *)

\* Scheduler::start, under the mutex of the pools.
Start(th) ==
  /\ At(th, "start") /\ scheduler.building = Nobody
  /\ LET now == {p \in Pools \ {"main"} : pool[p].made} IN
     /\ idle' = Activated(idle, now)
     /\ todo' = Started([todo EXCEPT ![th] = Tail(@)], now)
  /\ scheduler' = [scheduler EXCEPT !.started = TRUE]
  /\ UNCHANGED <<pool, group, sleeping, terminated, history>>

\* The threads outside belong to the application, which has them once the
\* system has started.
Begin(th) ==
  /\ At(th, "begin") /\ scheduler.started
  /\ Do(th, <<>>)
  /\ UNCHANGED <<scheduler, pool, idle, group, sleeping, terminated, history>>

\* The main thread becomes the worker of the main pool.
StartMain(th) ==
  /\ At(th, "mainpool")
  /\ idle' = Activated(idle, {"main"})
  /\ Do(th, <<<<"poll">>>>)
  /\ UNCHANGED <<scheduler, pool, group, sleeping, terminated, history>>

\* Mutant: the scheduler is stopped first.
ShutdownLast(th) ==
  /\ At(th, "shutdown")
  /\ Do(th, <<<<"stop", Arg(th, 2)>>>> \o Submits(scenario.shutdown))
  /\ UNCHANGED <<scheduler, pool, idle, group, sleeping, terminated, history>>

\* PowerPlant::shutdown emits Shutdown, then stops the scheduler.
Shutdown(th) ==
  /\ At(th, "shutdown")
  /\ Do(th, Submits(scenario.shutdown) \o <<<<"stop", Arg(th, 2)>>>>)
  /\ UNCHANGED <<scheduler, pool, idle, group, sleeping, terminated, history>>

Halts(type, ps) == LET s == SetToSeq(ps) IN [i \in DOMAIN s |-> <<"halt", s[i], type>>]

\* Scheduler::stop copies the pools under their mutex.
StopScheduler(th) ==
  /\ At(th, "stop") /\ scheduler.building = Nobody
  /\ scheduler' = [scheduler EXCEPT !.running = FALSE]
  /\ forced' = (forced \/ Arg(th, 2) = "FORCE")
  /\ Do(th, Halts(Arg(th, 2), {p \in Pools : pool[p].made}))
  /\ UNCHANGED <<pool, idle, group, sleeping, terminated, ran, owed>>

\* The single consumer of the pool is another thread, and in its loop.
ConsumerAlive(p, th) ==
  p \in scenario.single /\ \E w \in Workers(p) \ {th} : \E i \in DOMAIN todo[w] : todo[w][i][1] = "poll"

\* Pool::stop.  A forced stop leaves the queue of a single consumer to it, and
\* waits.
HaltPool(th) ==
  /\ At(th, "halt")
  /\ LET p == Arg(th, 2)
         type == Arg(th, 3)
         force == type = "FORCE"
         asks == force /\ ConsumerAlive(p, th)
     IN /\ pool' = [pool EXCEPT ![p] = [pool[p] EXCEPT
                      !.live = TRUE,
                      !.accept = Persistent(p) /\ ~force,
                      !.running = Persistent(p) /\ type = "NORMAL",
                      !.discard = pool[p].discard \/ asks,
                      !.queue = IF force /\ ~asks THEN <<>> ELSE pool[p].queue]]
        /\ IF asks
           THEN Do(th, <<<<"await", p>>>>) /\ sleeping' = [sleeping EXCEPT ![p] = {th}]
           ELSE Do(th, <<>>) /\ NotifyAll(p)
        /\ owed' = IF force /\ ~asks THEN owed \ Range(pool[p].queue) ELSE owed
  /\ UNCHANGED <<scheduler, idle, group, terminated, forced, ran>>

AwaitDiscard(th) ==
  /\ At(th, "await") /\ th \notin sleeping[Arg(th, 2)]
  /\ IF pool[Arg(th, 2)].discard
     THEN sleeping' = [sleeping EXCEPT ![Arg(th, 2)] = @ \cup {th}] /\ UNCHANGED todo
     ELSE NotifyAll(Arg(th, 2)) /\ Do(th, <<>>)
  /\ UNCHANGED <<scheduler, pool, idle, group, terminated, history>>

StopAndJoin(ps) == LET s == SetToSeq(ps) IN
  [i \in 1 .. 2 * Len(s) |-> IF i % 2 = 1 THEN <<"halt", s[(i + 1) \div 2], "FINAL">>
                             ELSE <<"join", s[i \div 2]>>]

\* Mutant: the pools are stopped in the order they come in.
FinalsUnsorted(th) ==
  /\ At(th, "finals")
  /\ Do(th, StopAndJoin({p \in Pools : pool[p].made /\ Persistent(p)})
            \o StopAndJoin({p \in Pools : pool[p].made /\ ~Persistent(p)}))
  /\ UNCHANGED <<scheduler, pool, idle, group, sleeping, terminated, history>>

\* Once the main pool has stopped: every pool is stopped for good and joined,
\* those that are persistent last.
Finals(th) ==
  /\ At(th, "finals")
  /\ Do(th, StopAndJoin({p \in Pools : pool[p].made /\ ~Persistent(p)})
            \o StopAndJoin({p \in Pools : pool[p].made /\ Persistent(p)}))
  /\ UNCHANGED <<scheduler, pool, idle, group, sleeping, terminated, history>>

Join(th) ==
  /\ At(th, "join")
  /\ \A w \in Workers(Arg(th, 2)) \ {th} : todo[w] = <<>>
  /\ Do(th, <<>>)
  /\ UNCHANGED <<scheduler, pool, idle, group, sleeping, terminated, history>>

-----------------------------------------------------------------------------

Step(th) ==
  /\ \/ GetPool(th) \/ MakePool(th) \/ BuildPool(th) \/ RefusePool(th)
     \/ Route(th) \/ Accept(th) \/ Enqueue(th) \/ Notify(th) \/ Unregister(th)
     \/ PollLatched(th) \/ PollTake(th) \/ PollIdle(th) \/ PollDiscard(th) \/ PollExit(th)
     \/ Wake(th) \/ Done(th)
     \/ AddIdle(th) \/ AddIdleToAll(th) \/ RemoveIdle(th) \/ RemoveIdleFromAll(th)
     \/ Start(th) \/ Begin(th) \/ StartMain(th) \/ Shutdown(th) \/ StopScheduler(th)
     \/ HaltPool(th) \/ AwaitDiscard(th) \/ Finals(th) \/ Join(th)
  /\ UNCHANGED scenario

\* start has returned and nobody has anything left to do.
Quiet == terminated \/ \A th \in Threads : todo[th] = <<>>
Returned == ~terminated /\ todo["main"] = <<>>

Rest ==
  /\ \/ terminated
     \/ \A th \in Threads : todo[th] # <<>> => Head(todo[th])[1] \in {"wait", "await", "join"}
  /\ UNCHANGED vars

Next == (\E th \in Threads : Step(th)) \/ Rest

\* Every thread the system has scheduled goes on.
Spec == Init /\ [][Next]_vars /\ \A th \in Threads : WF_vars(Step(th))

-----------------------------------------------------------------------------

\* The shape of the state; no count leaves its range.
TypeOK ==
  /\ scenario \in Scenarios
  /\ scheduler \in [started : BOOLEAN, running : BOOLEAN, building : Pools \cup {Nobody},
                    idle_tasks : SUBSET Tasks]
  /\ \A p \in Pools :
       /\ pool[p].queue \in Seq(Tasks) /\ pool[p].external_waiters \in Nat
       /\ pool[p].idle_tasks \subseteq Tasks
       /\ idle.active[p] \in 0..Cardinality(Workers(p))
       /\ sleeping[p] \subseteq Threads
  /\ idle.thread \in [Threads -> BOOLEAN] /\ idle.pool \in [Pools -> BOOLEAN]
  /\ idle.active_pools \in 0..Cardinality(scenario.counts)
  /\ ran \subseteq Tasks /\ owed \subseteq Tasks

Runs(th, t) == \E i \in DOMAIN todo[th] : todo[th][i][1] = "done" /\ todo[th][i][2] = t

\* When the count of active pools is zero, nothing is going on: no worker of
\* a pool that counts runs a task, and no task that something busy submitted
\* still waits in the queue of such a pool (Pool.cpp:345-351, an idle epoch
\* that fires too early quiesces the system).
IdleIsIdle ==
  idle.active_pools = 0 =>
    \A p \in scenario.counts :
      /\ \A w \in Workers(p), t \in Tasks : ~Runs(w, t)
      /\ \A t \in owed : Home(t) # p

\* A pool's external waiters are the tasks of its own that wait for the group, and
\* those just handed over to it (Pool.cpp:216-255): its workers stay for them.
Parked(p) == {i \in DOMAIN group.waiting : Home(group.waiting[i][1]) = p}
HandingTo(p) == {th \in Threads : \E i \in DOMAIN todo[th] : todo[th][i] = <<"unregister", p>>}
WaitersCount ==
  \A p \in Pools : pool[p].external_waiters = Cardinality(Parked(p)) + Cardinality(HandingTo(p))

\* The counting locks count what they stand for: the workers that are not idle, and
\* the pools with such a worker or with work to do; and the external waiters theirs.
IdleCounts == TypeOK /\ IdleIsIdle /\ WaitersCount

\* Pools are made while the scheduler stops: once every call of stop is over,
\* no pool that is not persistent goes on (Scheduler.cpp:104-121, 157-179).
NoPoolIsMissed ==
  (~terminated /\ ~scheduler.running
     /\ \A th \in Threads : \A i \in DOMAIN todo[th] : todo[th][i][1] # "halt")
  => \A p \in Pools : pool[p].made => Persistent(p) \/ ~pool[p].running

\* When start returns from a shutdown that was not forced, every reaction to
\* Shutdown has been run, whoever else called shutdown meanwhile
\* (PowerPlant.cpp:105-112).
ShutdownIsSeen == Returned /\ ~forced => scenario.shutdown \subseteq ran

\* By then a persistent pool has also run whatever the tasks of the other
\* pools gave it to the last (Scheduler.cpp:83-101).
PersistentServes ==
  Returned /\ ~forced =>
    \A t \in ran : \A i \in DOMAIN scenario.body[t] :
      (~Persistent(Home(t)) /\ scenario.body[t][i][1] = "submit")
      => LET u == scenario.body[t][i][2] IN Persistent(Home(u)) => u \in ran

\* A shutdown reaches everyone, and in the right order: every pool is stopped, those
\* that react to Shutdown have run before, and persistent pools serve to the last.
StopReachesAll == NoPoolIsMissed /\ ShutdownIsSeen /\ PersistentServes

\* The system comes to an end: idle reactions fire when there is nothing left
\* to do, a shutdown reaches everyone, start returns and every thread is gone
\* (Scheduler.cpp:66-121, Pool.cpp:322-501).
PlantSettles == <>[]Quiet
=============================================================================

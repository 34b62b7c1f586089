------------------------------- MODULE Group -------------------------------
(***************************************************************************)
(* The scheduler's groups (Sync, Group): a signed token counter taken and  *)
(* given back without a lock by the tasks of one group, and a mutex-backed *)
(* queue of lock handles for the tasks of several groups.                  *)
(*                                                                         *)
(* Every step is one atomic operation of Group.cpp (an access to tokens,   *)
(* slow_pending, an arbiter slot or a wait bucket) or one part of a mutex  *)
(* scope between two of them.  Two threads touch a task: the one that      *)
(* submits it and the worker that runs it.  Each task has a pool of its    *)
(* own, of which only what a group sees is kept: whether it accepts tasks, *)
(* whether the task is queued in it, and its "live" flag.                  *)
(***************************************************************************)
EXTENDS Integers, Sequences, FiniteSets

CONSTANTS Groups,        \* group descriptors, ordered as std::set orders them
          Tasks,         \* task ids, lower ids first
          Concurrency,   \* Group descriptor's concurrency
          TaskGroups,    \* the groups of each task
          Priority,      \* the priority of each task
          RunInline,     \* tasks whose run_inline is set
          Stoppable      \* tasks whose pool may be stopped

ASSUME GroupsAssumption == Groups \subseteq Nat /\ IsFiniteSet(Groups)
ASSUME TasksAssumption == Tasks \subseteq Nat /\ IsFiniteSet(Tasks)
ASSUME ConcurrencyAssumption == Concurrency \in [Groups -> Nat \ {0}]
ASSUME TaskGroupsAssumption == TaskGroups \in [Tasks -> (SUBSET Groups) \ {{}}]
ASSUME PriorityAssumption == Priority \in [Tasks -> Int]
ASSUME FlagsAssumption == RunInline \subseteq Tasks /\ Stoppable \subseteq Tasks

VARIABLES
  \* Group
  tokens, slow_pending, wait_buckets, queue, mutex,
  \* WaitEntry::slot, LockHandle::locked and LockHandle::notified, by task
  slot, locked, notified,
  \* the pools as the groups see them, and where each task is
  accept, live, state,
  \* the threads: program counter, where release and drain return to, the
  \* group being worked on, the bucket being scanned, the entry dequeued,
  \* what a ~GroupLock freed, and the handles it is to notify
  pc, ret, grp, scan, entry, freed, to_notify

groupVars == <<tokens, slow_pending, wait_buckets, queue, mutex>>
handleVars == <<slot, locked, notified>>
poolVars == <<accept, live, state>>
localVars == <<ret, grp, scan, entry, freed, to_notify>>
vars == <<groupVars, handleVars, poolVars, pc, localVars>>

-----------------------------------------------------------------------------
\* A task of exactly one group takes the lock-free path.
Fast == {t \in Tasks : \E g \in Groups : TaskGroups[t] = {g}}
Slow == Tasks \ Fast

Submitter(t) == <<t, "submit">>
Worker(t) == <<t, "run">>
Threads == Tasks \X {"submit", "run"}
NoThread == <<>>
NoTask == -1

\* The first of a set of groups in the order of the set of descriptors.
First(S) == CHOOSE g \in S : \A h \in S : g <= h
Later(t, g) == {h \in TaskGroups[t] : h > g}

\* Priority.hpp: the buckets, highest priority first.
priority_index(p) ==
  CASE p >= 1000 -> 0
    [] p >= 750 /\ p < 1000 -> 1
    [] p >= 500 /\ p < 750 -> 2
    [] p >= 250 /\ p < 500 -> 3
    [] p < 250 -> 4
Buckets == {priority_index(Priority[t]) : t \in Tasks}
FirstBucket == First(Buckets)

\* LockHandle::operator<
Before(a, b) ==
  IF Priority[a] = Priority[b] THEN a < b ELSE Priority[a] > Priority[b]

\* Mutant: the walk does not count the handle itself.
FreeBefore(g, h, q) ==
  tokens[g] - Cardinality({k \in q : Before(k, h) /\ g \notin locked[k]})

\* The tokens left when the walk of a group's queue, holding the handles q,
\* has passed h: one fewer for every handle up to h that is not locked.
FreeAt(g, h, q) ==
  tokens[g] - Cardinality({k \in q : (k = h \/ Before(k, h)) /\ g \notin locked[k]})

\* The handles a release of g finds able to lock and not told so yet.
Notifiable(g, q) ==
  {h \in q : FreeAt(g, h, q) >= 0 /\ g \notin locked[h] /\ g \notin notified[h]}

Goto(p, l) == pc' = [pc EXCEPT ![p] = l]
\* Call release_token or drain_one_to_pool and continue at r.
Call(p, l, r) == Goto(p, l) /\ ret' = [ret EXCEPT ![p] = r]
Return(p) == Goto(p, ret[p])

Init ==
  /\ tokens = Concurrency
  /\ slow_pending = [g \in Groups |-> 0]
  /\ wait_buckets = [g \in Groups |-> [b \in Buckets |-> <<>>]]
  /\ queue = [g \in Groups |-> {}]
  /\ mutex = [g \in Groups |-> NoThread]
  /\ slot = [t \in Tasks |-> FALSE]
  /\ locked = [t \in Tasks |-> {}]
  /\ notified = [t \in Tasks |-> {}]
  /\ accept = [t \in Tasks |-> TRUE]
  /\ live = [t \in Tasks |-> TRUE]
  /\ state = [t \in Tasks |-> "new"]
  /\ pc = [p \in Threads |-> IF p[2] = "submit" THEN "start" ELSE "wait"]
  /\ ret = [p \in Threads |-> "done"]
  /\ grp = [p \in Threads |-> First(TaskGroups[p[1]])]
  /\ scan = [p \in Threads |-> FirstBucket]
  /\ entry = [p \in Threads |-> NoTask]
  /\ freed = [p \in Threads |-> "none"]
  /\ to_notify = [p \in Threads |-> {}]

-----------------------------------------------------------------------------
\* Scheduler::submit: one group goes to the fast path, several to the slow one.
Submit(t) ==
  LET p == Submitter(t) IN
  /\ pc[p] = "start"
  /\ state' = [state EXCEPT ![t] = "submitting"]
  /\ Goto(p, IF t \in Slow THEN "slow_add"
             ELSE IF t \in RunInline THEN "ta_check" ELSE "ts_check")
  /\ UNCHANGED <<groupVars, handleVars, accept, live, localVars>>

\* Pool::stop of the task's pool: no more tasks are accepted.
StopPool(t) ==
  /\ t \in Stoppable
  /\ accept[t]
  /\ accept' = [accept EXCEPT ![t] = FALSE]
  /\ UNCHANGED <<groupVars, handleVars, live, state, pc, localVars>>

\* Group::try_acquire_running_lock
TryAcquireCheck(p) ==
  /\ pc[p] = "ta_check"
  /\ Goto(p, IF slow_pending[grp[p]] > 0 THEN "ts_check" ELSE "ta_take")
  /\ UNCHANGED <<groupVars, handleVars, poolVars, localVars>>

\* The compare-exchange loop takes effect where it succeeds, or where it
\* loads a counter that is not positive.
TryAcquireTake(p) ==
  /\ pc[p] = "ta_take"
  /\ IF tokens[grp[p]] > 0
     THEN /\ tokens' = [tokens EXCEPT ![grp[p]] = @ - 1]
          /\ Goto(p, "ta_recheck")
     ELSE /\ Goto(p, "ts_check")
          /\ UNCHANGED tokens
  /\ UNCHANGED <<slow_pending, wait_buckets, queue, mutex, handleVars, poolVars, localVars>>

TryAcquireRecheck(p) ==
  /\ pc[p] = "ta_recheck"
  /\ IF slow_pending[grp[p]] > 0
     THEN /\ Call(p, "rel_add", "ts_check")
          /\ UNCHANGED state
     ELSE /\ state' = [state EXCEPT ![p[1]] = "running"]
          /\ Goto(p, "run")
          /\ UNCHANGED ret
  /\ UNCHANGED <<groupVars, handleVars, accept, live, grp, scan, entry, freed, to_notify>>

\* Group::try_submit
TrySubmitCheck(p) ==
  /\ pc[p] = "ts_check"
  /\ Goto(p, IF slow_pending[grp[p]] = 0 THEN "ts_take" ELSE "publish")
  /\ UNCHANGED <<groupVars, handleVars, poolVars, localVars>>

TrySubmitTake(p) ==
  /\ pc[p] = "ts_take"
  /\ IF tokens[grp[p]] > 0
     THEN /\ tokens' = [tokens EXCEPT ![grp[p]] = @ - 1]
          /\ Goto(p, "ts_recheck")
     ELSE /\ Goto(p, "publish")
          /\ UNCHANGED tokens
  /\ UNCHANGED <<slow_pending, wait_buckets, queue, mutex, handleVars, poolVars, localVars>>

TrySubmitRecheck(p) ==
  /\ pc[p] = "ts_recheck"
  /\ IF slow_pending[grp[p]] > 0
     THEN Call(p, "rel_add", "publish")
     ELSE Goto(p, "hand") /\ UNCHANGED ret
  /\ UNCHANGED <<groupVars, handleVars, poolVars, grp, scan, entry, freed, to_notify>>

\* Pool::submit of a task with its lock; a pool that no longer accepts drops
\* both, and dropping the lock releases it.
HandToPool(p) ==
  LET t == p[1] IN
  /\ pc[p] = "hand"
  /\ IF accept[t]
     THEN /\ state' = [state EXCEPT ![t] = "pooled"]
          /\ live' = [live EXCEPT ![t] = TRUE]
          /\ Goto(p, "done")
          /\ UNCHANGED <<ret, grp>>
     ELSE /\ state' = [state EXCEPT ![t] = "rejected"]
          /\ Call(p, IF t \in Fast THEN "rel_add" ELSE "dtor", "done")
          /\ grp' = [grp EXCEPT ![p] = First(TaskGroups[t])]
          /\ UNCHANGED live
  /\ UNCHANGED <<groupVars, handleVars, accept, scan, entry, freed, to_notify>>

\* Group::park_publish
ParkPublish(p) ==
  LET t == p[1] IN
  /\ pc[p] = "publish"
  /\ wait_buckets' = [wait_buckets EXCEPT ![grp[p]][priority_index(Priority[t])] = Append(@, t)]
  /\ state' = [state EXCEPT ![t] = "parked"]
  /\ Goto(p, "rc_sub")
  /\ UNCHANGED <<tokens, slow_pending, queue, mutex, handleVars, accept, live, localVars>>

\* Group::park_reconcile: reserve a slot in the signed counter ...
ReconcileReserve(p) ==
  /\ pc[p] = "rc_sub"
  /\ tokens' = [tokens EXCEPT ![grp[p]] = @ - 1]
  /\ Goto(p, IF tokens[grp[p]] > 0 THEN "rc_slow" ELSE "rc_slot")
  /\ UNCHANGED <<slow_pending, wait_buckets, queue, mutex, handleVars, poolVars, localVars>>

\* ... give a free token back to a pending multi-group task ...
ReconcileYield(p) ==
  /\ pc[p] = "rc_slow"
  /\ IF slow_pending[grp[p]] > 0
     THEN Call(p, "rel_add", "done")
     ELSE Goto(p, "rc_slot_free") /\ UNCHANGED ret
  /\ UNCHANGED <<groupVars, handleVars, poolVars, grp, scan, entry, freed, to_notify>>

\* Mutant: a waiter that lost its slot keeps its reservation.
ClaimWithoutUndo(p) ==
  LET t == p[1] IN
  /\ pc[p] \in {"rc_slot", "rc_slot_free"}
  /\ slot' = [slot EXCEPT ![t] = TRUE]
  /\ IF ~slot[t] /\ pc[p] = "rc_slot_free"
     THEN Call(p, "drain", "done")
     ELSE Goto(p, "done") /\ UNCHANGED ret
  /\ UNCHANGED <<groupVars, locked, notified, poolVars, grp, scan, entry, freed, to_notify>>

\* Mutant: a waiter that found a free token keeps it while it waits.
ClaimWithoutHandover(p) ==
  LET t == p[1] IN
  /\ pc[p] \in {"rc_slot", "rc_slot_free"}
  /\ slot' = [slot EXCEPT ![t] = TRUE]
  /\ IF slot[t] THEN Call(p, "rel_add", "done") ELSE Goto(p, "done") /\ UNCHANGED ret
  /\ UNCHANGED <<groupVars, locked, notified, poolVars, grp, scan, entry, freed, to_notify>>

\* ... and claim the arbiter slot, or undo the reservation if a drain has it.
\* A waiter that found a free token hands it to one parked waiter.
ReconcileClaim(p) ==
  LET t == p[1] IN
  /\ pc[p] \in {"rc_slot", "rc_slot_free"}
  /\ slot' = [slot EXCEPT ![t] = TRUE]
  /\ \/ slot[t] /\ Call(p, "rel_add", "done")
     \/ ~slot[t] /\ pc[p] = "rc_slot_free" /\ Call(p, "drain", "done")
     \/ ~slot[t] /\ pc[p] = "rc_slot" /\ Goto(p, "done") /\ UNCHANGED ret
  /\ UNCHANGED <<groupVars, locked, notified, poolVars, grp, scan, entry, freed, to_notify>>

-----------------------------------------------------------------------------
\* Group::release_token
ReleaseAdd(p) ==
  /\ pc[p] = "rel_add"
  /\ tokens' = [tokens EXCEPT ![grp[p]] = @ + 1]
  /\ Goto(p, IF tokens[grp[p]] < 0 THEN "drain" ELSE "rel_slow")
  /\ UNCHANGED <<slow_pending, wait_buckets, queue, mutex, handleVars, poolVars, localVars>>

ReleaseChoose(p) ==
  /\ pc[p] = "rel_slow"
  /\ Goto(p, IF slow_pending[grp[p]] > 0 THEN "notify_slow" ELSE "drain")
  /\ UNCHANGED <<groupVars, handleVars, poolVars, localVars>>

\* Group::notify_slow_path, the mutex scope
NotifySlowPath(p) ==
  LET g == grp[p]
      H == Notifiable(g, queue[g]) IN
  /\ pc[p] = "notify_slow"
  /\ mutex[g] = NoThread
  /\ notified' = [t \in Tasks |-> IF t \in H THEN notified[t] \cup {g} ELSE notified[t]]
  /\ to_notify' = [to_notify EXCEPT ![p] = H]
  /\ Goto(p, "notify")
  /\ UNCHANGED <<groupVars, slot, locked, poolVars, ret, grp, scan, entry, freed>>

\* Mutant: the loop over the buckets goes one too far.
DrainScanTooFar(p) ==
  LET g == grp[p]
      b == scan[p] IN
  /\ pc[p] = "drain"
  /\ IF wait_buckets[g][b] # <<>>
     THEN /\ entry' = [entry EXCEPT ![p] = Head(wait_buckets[g][b])]
          /\ state' = [state EXCEPT ![Head(wait_buckets[g][b])] = "drained"]
          /\ wait_buckets' = [wait_buckets EXCEPT ![g][b] = Tail(@)]
          /\ scan' = [scan EXCEPT ![p] = FirstBucket]
          /\ Goto(p, "claim")
     ELSE /\ scan' = [scan EXCEPT ![p] = b + 1]
          /\ UNCHANGED <<entry, state, wait_buckets, pc>>
  /\ UNCHANGED <<tokens, slow_pending, queue, mutex, handleVars, accept, live,
                 ret, grp, freed, to_notify>>

\* Group::drain_one_to_pool: take the first waiter of the highest bucket ...
DrainScan(p) ==
  LET g == grp[p]
      b == scan[p]
      rest == {c \in Buckets : c > b} IN
  /\ pc[p] = "drain"
  /\ \/ /\ wait_buckets[g][b] # <<>>
        /\ entry' = [entry EXCEPT ![p] = Head(wait_buckets[g][b])]
        /\ state' = [state EXCEPT ![Head(wait_buckets[g][b])] = "drained"]
        /\ wait_buckets' = [wait_buckets EXCEPT ![g][b] = Tail(@)]
        /\ scan' = [scan EXCEPT ![p] = FirstBucket]
        /\ Goto(p, "claim")
     \/ /\ wait_buckets[g][b] = <<>>
        /\ rest # {}
        /\ scan' = [scan EXCEPT ![p] = First(rest)]
        /\ UNCHANGED <<entry, state, wait_buckets, pc>>
     \/ /\ wait_buckets[g][b] = <<>>
        /\ rest = {}
        /\ scan' = [scan EXCEPT ![p] = FirstBucket]
        /\ Return(p)
        /\ UNCHANGED <<entry, state, wait_buckets>>
  /\ UNCHANGED <<tokens, slow_pending, queue, mutex, handleVars, accept, live,
                 ret, grp, freed, to_notify>>

\* Mutant: the decrement is paid for counted waiters too.
DrainAlwaysPays(p) ==
  LET t == entry[p] IN
  /\ pc[p] = "claim"
  /\ slot' = [slot EXCEPT ![t] = TRUE]
  /\ state' = [state EXCEPT ![t] = "pooled"]
  /\ live' = [live EXCEPT ![t] = TRUE]
  /\ entry' = [entry EXCEPT ![p] = NoTask]
  /\ Goto(p, "pay")
  /\ UNCHANGED <<groupVars, locked, notified, accept, ret, grp, scan, freed, to_notify>>

\* ... claim its arbiter slot and force it into its pool with a RunningLock.
DrainClaim(p) ==
  LET t == entry[p] IN
  /\ pc[p] = "claim"
  /\ slot' = [slot EXCEPT ![t] = TRUE]
  /\ state' = [state EXCEPT ![t] = "pooled"]
  /\ live' = [live EXCEPT ![t] = TRUE]
  /\ entry' = [entry EXCEPT ![p] = NoTask]
  /\ IF slot[t] THEN Return(p) ELSE Goto(p, "pay")
  /\ UNCHANGED <<groupVars, locked, notified, accept, ret, grp, scan, freed, to_notify>>

\* The decrement owed for a waiter that had not counted itself.
DrainPay(p) ==
  /\ pc[p] = "pay"
  /\ tokens' = [tokens EXCEPT ![grp[p]] = @ - 1]
  /\ Return(p)
  /\ UNCHANGED <<slow_pending, wait_buckets, queue, mutex, handleVars, poolVars, localVars>>

-----------------------------------------------------------------------------
\* Mutant: a handle is inserted without being announced first.
LockUnannounced(p) ==
  /\ pc[p] = "slow_add"
  /\ Goto(p, "slow_insert")
  /\ UNCHANGED <<groupVars, handleVars, poolVars, localVars>>

\* Group::lock, for each group of a multi-group task in turn.
LockAnnounce(p) ==
  /\ pc[p] = "slow_add"
  /\ slow_pending' = [slow_pending EXCEPT ![grp[p]] = @ + 1]
  /\ Goto(p, "slow_insert")
  /\ UNCHANGED <<tokens, wait_buckets, queue, mutex, handleVars, poolVars, localVars>>

LockInsert(p) ==
  LET t == p[1]
      g == grp[p]
      q == queue[g] \cup {t} IN
  /\ pc[p] = "slow_insert"
  /\ mutex[g] = NoThread
  /\ queue' = [queue EXCEPT ![g] = q]
  /\ notified' = [h \in Tasks |-> IF h \in q /\ FreeAt(g, h, q) < 0
                                  THEN notified[h] \ {g} ELSE notified[h]]
  /\ IF Later(t, g) # {}
     THEN /\ grp' = [grp EXCEPT ![p] = First(Later(t, g))]
          /\ Goto(p, "slow_add")
     ELSE /\ grp' = [grp EXCEPT ![p] = First(TaskGroups[t])]
          /\ Goto(p, IF t \in RunInline THEN "lock" ELSE "hand")
  /\ UNCHANGED <<tokens, slow_pending, wait_buckets, mutex, slot, locked, poolVars,
                 ret, scan, entry, freed, to_notify>>

\* The worker of the task's pool finds it queued: a RunningLock is locked
\* already, a CombinedLock locks its groups in turn.
WorkerDequeue(p) ==
  LET t == p[1] IN
  /\ pc[p] = "wait"
  /\ state[t] = "pooled"
  /\ live[t]
  /\ IF t \in Fast
     THEN state' = [state EXCEPT ![t] = "running"] /\ Goto(p, "run")
     ELSE Goto(p, "lock") /\ UNCHANGED state
  /\ UNCHANGED <<groupVars, handleVars, accept, live, localVars>>

\* All of a CombinedLock is locked from group g of task t on, when g is done.
LockNext(p) ==
  LET t == p[1] IN
  IF Later(t, grp[p]) # {}
  THEN /\ grp' = [grp EXCEPT ![p] = First(Later(t, grp[p]))]
       /\ Goto(p, "lock")
       /\ UNCHANGED state
  ELSE /\ grp' = [grp EXCEPT ![p] = First(TaskGroups[t])]
       /\ state' = [state EXCEPT ![t] = "running"]
       /\ Goto(p, "run")

\* Group::GroupLock::lock: locked already, or the mutex and the walk; a
\* failure ends CombinedLock::lock, and the worker re-enqueues the task and
\* clears live, the submitter hands the task to the pool.
GroupLockTry(p) ==
  LET t == p[1]
      g == grp[p] IN
  /\ pc[p] = "lock"
  /\ \/ /\ g \in locked[t]
        /\ LockNext(p)
        /\ UNCHANGED <<mutex, live>>
     \/ /\ g \notin locked[t]
        /\ mutex[g] = NoThread
        /\ t \in queue[g] /\ FreeAt(g, t, queue[g]) >= 0
        /\ mutex' = [mutex EXCEPT ![g] = p]
        /\ Goto(p, "lock_take")
        /\ UNCHANGED <<grp, live, state>>
     \/ /\ g \notin locked[t]
        /\ mutex[g] = NoThread
        /\ ~(t \in queue[g] /\ FreeAt(g, t, queue[g]) >= 0)
        /\ grp' = [grp EXCEPT ![p] = First(TaskGroups[t])]
        /\ IF p = Worker(t)
           THEN live' = [live EXCEPT ![t] = FALSE] /\ Goto(p, "wait")
           ELSE Goto(p, "hand") /\ UNCHANGED live
        /\ UNCHANGED <<mutex, state>>
  /\ UNCHANGED <<tokens, slow_pending, wait_buckets, queue, handleVars, accept,
                 ret, scan, entry, freed, to_notify>>

\* Mutant: a GroupLock is locked without taking its token.
GroupLockUnpaid(p) ==
  LET t == p[1]
      g == grp[p] IN
  /\ pc[p] = "lock_take"
  /\ locked' = [locked EXCEPT ![t] = @ \cup {g}]
  /\ mutex' = [mutex EXCEPT ![g] = NoThread]
  /\ LockNext(p)
  /\ UNCHANGED <<tokens, slow_pending, wait_buckets, queue, slot, notified, accept, live,
                 ret, scan, entry, freed, to_notify>>

\* The token was seen free under the mutex; the decrement is unconditional.
GroupLockTake(p) ==
  LET t == p[1]
      g == grp[p] IN
  /\ pc[p] = "lock_take"
  /\ locked' = [locked EXCEPT ![t] = @ \cup {g}]
  /\ tokens' = [tokens EXCEPT ![g] = @ - 1]
  /\ mutex' = [mutex EXCEPT ![g] = NoThread]
  /\ LockNext(p)
  /\ UNCHANGED <<slow_pending, wait_buckets, queue, slot, notified, accept, live,
                 ret, scan, entry, freed, to_notify>>

\* The task has run; its lock is destroyed by the thread that ran it.
Finish(p) ==
  LET t == p[1] IN
  /\ pc[p] = "run"
  /\ state' = [state EXCEPT ![t] = "finished"]
  /\ Call(p, IF t \in Fast THEN "rel_add" ELSE "dtor", "done")
  /\ UNCHANGED <<groupVars, handleVars, accept, live, grp, scan, entry, freed, to_notify>>

\* A forced Pool::stop discards the queued task and its lock unrun.
Discard(p) ==
  LET t == p[1] IN
  /\ p = Worker(t)
  /\ pc[p] = "wait"
  /\ state[t] = "pooled"
  /\ t \in Stoppable
  /\ accept' = [accept EXCEPT ![t] = FALSE]
  /\ state' = [state EXCEPT ![t] = "discarded"]
  /\ Call(p, IF t \in Fast THEN "rel_add" ELSE "dtor", "done")
  /\ UNCHANGED <<groupVars, handleVars, live, grp, scan, entry, freed, to_notify>>

\* Group::GroupLock::~GroupLock, under the mutex: give the token back ...
DestroyUnlock(p) ==
  LET t == p[1]
      g == grp[p] IN
  /\ pc[p] = "dtor"
  /\ mutex[g] = NoThread
  /\ mutex' = [mutex EXCEPT ![g] = p]
  /\ IF g \in locked[t]
     THEN /\ locked' = [locked EXCEPT ![t] = @ \ {g}]
          /\ tokens' = [tokens EXCEPT ![g] = @ + 1]
          /\ freed' = [freed EXCEPT ![p] = IF tokens[g] < 0 THEN "owed" ELSE "spare"]
     ELSE UNCHANGED <<locked, tokens, freed>>
  /\ Goto(p, "dtor_walk")
  /\ UNCHANGED <<slow_pending, wait_buckets, queue, slot, notified, poolVars,
                 ret, grp, scan, entry, to_notify>>

\* ... leave the queue and mark the handles that can lock now.
DestroyWalk(p) ==
  LET t == p[1]
      g == grp[p]
      q == queue[g] \ {t}
      H == Notifiable(g, q) IN
  /\ pc[p] = "dtor_walk"
  /\ queue' = [queue EXCEPT ![g] = q]
  /\ mutex' = [mutex EXCEPT ![g] = NoThread]
  /\ notified' = [h \in Tasks |-> IF h \in H THEN notified[h] \cup {g} ELSE notified[h]]
  /\ to_notify' = [to_notify EXCEPT ![p] = H]
  /\ Goto(p, "dtor_pending")
  /\ UNCHANGED <<tokens, slow_pending, wait_buckets, slot, locked, poolVars,
                 ret, grp, scan, entry, freed>>

\* Mutant: ~GroupLock forgets slow_pending.
DestroyStaysPending(p) ==
  /\ pc[p] = "dtor_pending"
  /\ Goto(p, "notify")
  /\ UNCHANGED <<groupVars, handleVars, poolVars, localVars>>

DestroyPending(p) ==
  /\ pc[p] = "dtor_pending"
  /\ slow_pending' = [slow_pending EXCEPT ![grp[p]] = @ - 1]
  /\ Goto(p, "notify")
  /\ UNCHANGED <<tokens, wait_buckets, queue, mutex, handleVars, poolVars, localVars>>

\* LockHandle::notify: Pool::notify takes the pool's mutex, which its worker
\* holds for as long as it tries a lock.
Notify(p) ==
  /\ pc[p] = "notify"
  /\ \E h \in to_notify[p] :
       /\ pc[Worker(h)] \notin {"lock", "lock_take"}
       /\ live' = [live EXCEPT ![h] = TRUE]
       /\ to_notify' = [to_notify EXCEPT ![p] = @ \ {h}]
  /\ UNCHANGED <<groupVars, handleVars, accept, state, pc, ret, grp, scan, entry, freed>>

\* When all are notified release_token returns; ~GroupLock hands the freed
\* token on: at once if a waiter had reserved it, else if no multi-group task
\* is pending.
NotifyDone(p) ==
  /\ pc[p] = "notify"
  /\ to_notify[p] = {}
  /\ \/ p[1] \in Fast /\ Return(p) /\ UNCHANGED ret
     \/ p[1] \in Slow /\ freed[p] = "owed" /\ Call(p, "drain", "dtor_next")
     \/ p[1] \in Slow /\ freed[p] = "spare" /\ Goto(p, "dtor_spare") /\ UNCHANGED ret
     \/ p[1] \in Slow /\ freed[p] = "none" /\ Goto(p, "dtor_next") /\ UNCHANGED ret
  /\ freed' = [freed EXCEPT ![p] = "none"]
  /\ UNCHANGED <<groupVars, handleVars, poolVars, grp, scan, entry, to_notify>>

DestroySpare(p) ==
  /\ pc[p] = "dtor_spare"
  /\ IF slow_pending[grp[p]] = 0
     THEN Call(p, "drain", "dtor_next")
     ELSE Goto(p, "dtor_next") /\ UNCHANGED ret
  /\ UNCHANGED <<groupVars, handleVars, poolVars, grp, scan, entry, freed, to_notify>>

\* The next GroupLock of the CombinedLock being destroyed.
DestroyNext(p) ==
  LET t == p[1] IN
  /\ pc[p] = "dtor_next"
  /\ IF Later(t, grp[p]) # {}
     THEN Goto(p, "dtor") /\ grp' = [grp EXCEPT ![p] = First(Later(t, grp[p]))]
     ELSE Goto(p, "done") /\ grp' = [grp EXCEPT ![p] = First(TaskGroups[t])]
  /\ UNCHANGED <<groupVars, handleVars, poolVars, ret, scan, entry, freed, to_notify>>

-----------------------------------------------------------------------------
\* A step of a thread inside the scheduler; submitting, stopping a pool and
\* discarding its queue are the environment's.
Step(p) ==
  \/ TryAcquireCheck(p) \/ TryAcquireTake(p) \/ TryAcquireRecheck(p)
  \/ TrySubmitCheck(p) \/ TrySubmitTake(p) \/ TrySubmitRecheck(p)
  \/ HandToPool(p) \/ ParkPublish(p)
  \/ ReconcileReserve(p) \/ ReconcileYield(p) \/ ReconcileClaim(p)
  \/ ReleaseAdd(p) \/ ReleaseChoose(p) \/ NotifySlowPath(p)
  \/ DrainScan(p) \/ DrainClaim(p) \/ DrainPay(p)
  \/ LockAnnounce(p) \/ LockInsert(p)
  \/ WorkerDequeue(p) \/ GroupLockTry(p) \/ GroupLockTake(p) \/ Finish(p)
  \/ DestroyUnlock(p) \/ DestroyWalk(p) \/ DestroyPending(p)
  \/ Notify(p) \/ NotifyDone(p) \/ DestroySpare(p) \/ DestroyNext(p)

\* Every task has ended and its threads are out of the scheduler.
Quiescent ==
  /\ \A t \in Tasks : state[t] \in {"finished", "rejected", "discarded"}
  /\ \A p \in Threads : pc[p] \in {"done", "wait"}

\* A powerplant with nothing left to do: not a deadlock.
Rest == Quiescent /\ UNCHANGED vars

Next ==
  \/ \E t \in Tasks : Submit(t) \/ StopPool(t) \/ Discard(Worker(t))
  \/ \E p \in Threads : Step(p)
  \/ Rest

Spec == Init /\ [][Next]_vars
\* The operating system runs every thread that can run.
FairSpec == Spec /\ \A p \in Threads : WF_vars(Step(p))
-----------------------------------------------------------------------------
Labels == {"start", "wait", "done", "run", "ta_check", "ta_take", "ta_recheck",
           "ts_check", "ts_take", "ts_recheck", "hand", "publish", "rc_sub",
           "rc_slow", "rc_slot", "rc_slot_free", "rel_add", "rel_slow",
           "notify_slow", "notify", "drain", "claim", "pay", "slow_add",
           "slow_insert", "lock", "lock_take", "dtor", "dtor_walk",
           "dtor_pending", "dtor_spare", "dtor_next"}
States == {"new", "submitting", "parked", "drained", "pooled", "running",
           "finished", "rejected", "discarded"}

\* Every variable has the type its declaration in Group.hpp gives it; the
\* token counter is signed.
TypeOK ==
  /\ tokens \in [Groups -> Int]
  /\ slow_pending \in [Groups -> Int]
  /\ wait_buckets \in [Groups -> [Buckets -> Seq(Tasks)]]
  /\ queue \in [Groups -> SUBSET Tasks]
  /\ mutex \in [Groups -> Threads \cup {NoThread}]
  /\ slot \in [Tasks -> BOOLEAN]
  /\ locked \in [Tasks -> SUBSET Groups]
  /\ notified \in [Tasks -> SUBSET Groups]
  /\ accept \in [Tasks -> BOOLEAN]
  /\ live \in [Tasks -> BOOLEAN]
  /\ state \in [Tasks -> States]
  /\ pc \in [Threads -> Labels]
  /\ ret \in [Threads -> {"done", "ts_check", "publish", "dtor_next"}]
  /\ grp \in [Threads -> Groups]
  /\ scan \in [Threads -> Buckets]
  /\ entry \in [Threads -> Tasks \cup {NoTask}]
  /\ freed \in [Threads -> {"none", "owed", "spare"}]
  /\ to_notify \in [Threads -> SUBSET Tasks]

\* Who stands behind the decrements of g's counter: threads between taking a
\* token and settling it, RunningLocks, waiters that counted themselves and
\* locked handles.  A drain that has not paid yet stands on the other side.
Claiming(g) ==
  {p \in Threads : grp[p] = g /\ p[1] \in Fast
     /\ pc[p] \in {"ta_recheck", "ts_recheck", "hand", "rc_slow", "rc_slot",
                   "rc_slot_free", "rel_add"}}
RunningLocks(g) == {t \in Fast : TaskGroups[t] = {g} /\ state[t] \in {"pooled", "running"}}
Counted(g) == {t \in Fast : TaskGroups[t] = {g} /\ state[t] \in {"parked", "drained"} /\ slot[t]}
LockedHandles(g) == {t \in Slow : g \in locked[t]}
Owing(g) == {p \in Threads : grp[p] = g /\ pc[p] = "pay"}

\* The counter is exact in every state: each decrement of tokens has exactly
\* one owner that will give it back, whichever of a waiter's own
\* park_reconcile and a drain wins its arbiter slot.
TokenAccounting ==
  \A g \in Groups :
    tokens[g] = Concurrency[g] - Cardinality(Claiming(g)) - Cardinality(RunningLocks(g))
                - Cardinality(Counted(g)) - Cardinality(LockedHandles(g))
                + Cardinality(Owing(g))

Running(g) == {t \in Tasks : state[t] = "running" /\ g \in TaskGroups[t]}

\* What Sync and Group promise: at most Concurrency tasks of a group run at a
\* time, whichever path each of them took.
ConcurrencyBound == \A g \in Groups : Cardinality(Running(g)) <= Concurrency[g]

\* The same for the groups that only multi-group tasks use, whose tokens are
\* only taken under the group's mutex: GroupLock::lock's decrement is not
\* conditional, yet it never takes a token that is not there.
MultiGroupBound ==
  \A g \in Groups : (\A t \in Fast : TaskGroups[t] # {g}) =>
    Cardinality(LockedHandles(g)) <= Concurrency[g]

\* When everything has ended nothing is left behind in a group: all tokens
\* are back, nobody waits in a bucket or in the queue, no task is announced.
Settled ==
  Quiescent => /\ tokens = Concurrency
               /\ \A g \in Groups : /\ slow_pending[g] = 0
                                     /\ queue[g] = {}
                                     /\ \A b \in Buckets : wait_buckets[g][b] = <<>>

\* slow_pending covers the queue in every state, also inside lock() and
\* ~GroupLock: a fast submit that reads zero has no multi-group handle in
\* the queue to overtake.
PendingCoversQueue ==
  \A g \in Groups : slow_pending[g] >= Cardinality(queue[g])

\* What the slow path registers is there as long as it must be, and no longer
\* (slow_pending, the queue of handles and the wait buckets).
SlowPathTidy == PendingCoversQueue /\ Settled

Ended(t) == state[t] \in {"finished", "rejected", "discarded"}

\* No lost wakeup: every submitted task is run, refused by a stopped pool or
\* discarded by one.
EverySubmissionEnds == \A t \in Tasks : (state[t] = "submitting") ~> Ended(t)
=============================================================================

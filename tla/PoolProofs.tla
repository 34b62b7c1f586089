----------------------------- MODULE PoolProofs -----------------------------
(***************************************************************************)
(* Proofs about Pool, for any workers, tasks and scenarios: what its       *)
(* counters count, and that its workers do not leave a parked task behind. *)
(***************************************************************************)
EXTENDS Pool, FiniteSetTheorems, WellFoundedInduction, TLAPS

-----------------------------------------------------------------------------
(* The inductive invariant, in named parts.                                *)

NoForce == "FORCE" \notin scenario.stops

\* A task has come to the buckets.
Placed == {"queued", "running", "done", "discarded"}

\* Where the thread that submits a task is says where the task is; a task is
\* kept from when it is parked.
SubmitOK ==
  \A t \in Tasks :
    /\ spc[t] = "start" => state[t] = "new"
    /\ spc[t] = "parked" => state[t] = "parked"
    /\ spc[t] \in {"count", "enqueue"} => state[t] = "accepted"
    /\ spc[t] \in {"notify", "unregister", "last"} => state[t] \in Placed
    /\ spc[t] \in {"parked", "unregister", "last"} => t \in Parked
    /\ t \in kept => spc[t] # "start" /\ (spc[t] = "done" => state[t] \in Placed)

\* The buckets hold queued tasks, each once and in its own bucket.
BucketsOK ==
  \A b \in Buckets : \A i \in 1 .. Len(buckets[b]) :
    /\ state[buckets[b][i]] = "queued" /\ Bucket[buckets[b][i]] = b
    /\ \A j \in 1 .. Len(buckets[b]) : buckets[b][j] = buckets[b][i] => i = j

\* A running task has one worker that runs it.
WorkersOK ==
  /\ \A w \in Workers : wpc[w] = "run" => wtask[w] \in Tasks /\ state[wtask[w]] = "running"
  /\ \A v, w \in Workers :
       wpc[v] = "run" /\ wpc[w] = "run" /\ wtask[v] = wtask[w] => v = w
  /\ \A t \in Tasks : state[t] = "running" =>
       \E w \in Workers : wpc[w] = "run" /\ wtask[w] = t

\* The labels of get_task under the mutex, and the one of a forced stop.
Inside == {"top", "top_pending", "top_external", "discard", "discarded", "dequeue",
           "sleep", "sleep_pending", "sleep_external"}
MutexOK ==
  /\ \A w \in Workers : wpc[w] \in Inside => mutex = w
  /\ stop["FORCE"] = "zero" => mutex = "FORCE"
  /\ \A s \in StopTypes : stop[s] \in {"handshake", "zero"} => s = "FORCE"

\* external_waiters counts the parked tasks that are registered.
Registered ==
  {t \in Parked : spc[t] \in {"parked", "count", "enqueue", "notify", "unregister"}}
ExternalOK == external_waiters = Cardinality(Registered)

\* Without a forced stop nothing is discarded, and a pool that stops running has
\* stopped for good.
GentleOK ==
  NoForce => /\ ~discard_queues_requested /\ stop["FORCE"] = "done"
             /\ \A w \in Workers : wpc[w] # "discarded"
             /\ \A t \in Tasks : state[t] # "discarded"
             /\ ~running => stop["NORMAL"] = "done"

\* A worker that is about to leave has seen, under one mutex, that the pool does
\* not run, that no task is queued for it by a thread that is through with
\* submit, and that none is registered.
LeavingOK ==
  NoForce => \A w \in scenario.workers :
    /\ wpc[w] \in {"top_pending", "top_external", "leaving", "gone"} => ~running
    /\ wpc[w] = "top_external" =>
         \A t \in Tasks : spc[t] \in {"unregister", "last", "done"} => state[t] # "queued"
    /\ wpc[w] \in {"leaving", "gone"} => \A t \in kept : state[t] \in {"running", "done"}

Inv ==
  /\ scenario \in Scenarios /\ TypeOK
  /\ SubmitOK /\ BucketsOK /\ WorkersOK /\ MutexOK /\ ExternalOK
  /\ PendingAccounting /\ GentleOK /\ LeavingOK

-----------------------------------------------------------------------------
(* Scenarios and buckets.                                                  *)

\* A set of numbers has a least one.
LEMMA LeastIn ==
  ASSUME NEW S, S \subseteq Nat, S # {}
  PROVE  \E x \in S : \A y \in S : x <= y
<1> DEFINE R == {ss \in Nat \X Nat : ss[1] < ss[2]}
<1>1. IsWellFoundedOn(R, Nat)
  BY NatLessThanWellFounded DEF OpToRel
<1>2. \E x \in S : \A y \in S : <<y, x>> \notin R
  <2> HIDE DEF R
  <2> QED BY <1>1, WFMin
<1>3. \A x, y \in Nat : y < x => <<y, x>> \in R
  OBVIOUS
<1>4. PICK x \in S : \A y \in S : ~(y < x)
  <2> HIDE DEF R
  <2> QED BY <1>2, <1>3
<1> QED BY <1>4

\* What PoolAssumption says of the scenario of a run.
LEMMA Scenery ==
  ASSUME scenario \in Scenarios
  PROVE  /\ scenario.workers \subseteq Workers /\ scenario.workers # {}
         /\ scenario.tasks \subseteq Tasks /\ scenario.stops \subseteq StopTypes
         /\ Bucket \in [Tasks -> Nat] /\ Persistent \in BOOLEAN
         /\ Parked \subseteq Tasks /\ Buckets \subseteq Nat
         /\ \A t \in Tasks : Bucket[t] \in Buckets
<1>1. /\ scenario.workers \subseteq Workers /\ scenario.workers # {}
      /\ scenario.tasks \subseteq Tasks /\ scenario.stops \subseteq StopTypes
      /\ scenario.bucket \in [Tasks -> Nat] /\ scenario.persistent \in BOOLEAN
      /\ scenario.parked \subseteq scenario.tasks
  BY PoolAssumption
<1> QED BY <1>1 DEF Bucket, Persistent, Parked, Buckets

\* The scan of the buckets starts and goes on at one.
LEMMA BucketsIn ==
  ASSUME scenario \in Scenarios
  PROVE  /\ FirstBucket \in Buckets
         /\ \A b \in Buckets : Below(b) # {} => NextBucket(b) \in Buckets
<1>1. Buckets \subseteq Nat /\ Buckets # {}
  BY Scenery, ThreadsAssumption DEF Buckets
<1>2. FirstBucket \in Buckets
  <2>1. \E x \in Buckets : \A y \in Buckets : x <= y
    BY <1>1, LeastIn
  <2> QED BY <2>1 DEF FirstBucket
<1>3. ASSUME NEW b \in Buckets, Below(b) # {} PROVE NextBucket(b) \in Buckets
  <2>1. Below(b) \subseteq Buckets
    BY DEF Below
  <2>2. \E x \in Below(b) : \A y \in Below(b) : x <= y
    BY <1>1, <1>3, <2>1, LeastIn
  <2> QED BY <2>1, <2>2 DEF NextBucket
<1> QED BY <1>2, <1>3

\* The head of a bucket is a task.
LEMMA HeadIn ==
  ASSUME TypeOK, NEW b \in Buckets, buckets[b] # <<>>
  PROVE  /\ Head(buckets[b]) \in Tasks /\ Head(buckets[b]) = buckets[b][1]
         /\ 1 \in 1 .. Len(buckets[b])
         /\ Tail(buckets[b]) \in Seq(Tasks)
<1>1. buckets[b] \in Seq(Tasks)
  BY DEF TypeOK
<1> QED BY <1>1

-----------------------------------------------------------------------------
(* What a step touches.                                                    *)

LEMMA SubmitFrame ==
  ASSUME TypeOK, NEW t \in Tasks, SubmitStep(t)
  PROVE  /\ UNCHANGED <<scenario, running, accept, discard_queues_requested, consumer>>
         /\ UNCHANGED <<mutex, wpc, wtask, scan, stop>>
         /\ UNCHANGED buckets \/ SubmitEnqueue(t)
         /\ UNCHANGED pending_tasks \/ SubmitCount(t)
         /\ UNCHANGED external_waiters \/ Park(t) \/ Unregister(t)
         /\ UNCHANGED kept \/ Park(t)
         /\ \A u \in Tasks : u # t => spc'[u] = spc[u] /\ state'[u] = state[u]
<1> USE DEF TypeOK, SGoto, flags, counts, workerVars
<1>0. scenario' = scenario
  BY DEF SubmitStep
<1>1. CASE SubmitAccept(t) BY <1>0, <1>1 DEF SubmitAccept
<1>2. CASE SubmitCount(t) BY <1>0, <1>2 DEF SubmitCount
<1>3. CASE SubmitEnqueue(t) BY <1>0, <1>3 DEF SubmitEnqueue
<1>4. CASE SubmitNotify(t) BY <1>0, <1>4 DEF SubmitNotify
<1>5. CASE Park(t) BY <1>0, <1>5 DEF Park
<1>6. CASE Drain(t) BY <1>0, <1>6 DEF Drain
<1>7. CASE Unregister(t) BY <1>0, <1>7 DEF Unregister
<1>8. CASE UnregisterNotify(t) BY <1>0, <1>8 DEF UnregisterNotify
<1> QED BY <1>1, <1>2, <1>3, <1>4, <1>5, <1>6, <1>7, <1>8 DEF SubmitStep

LEMMA WorkerFrame ==
  ASSUME TypeOK, NEW w \in Workers, WorkerStep(w)
  PROVE  /\ UNCHANGED <<scenario, running, accept, external_waiters, spc, stop, kept>>
         /\ UNCHANGED discard_queues_requested \/ DiscardAnswer(w)
         /\ UNCHANGED buckets \/ DiscardDrain(w) \/ TakeTask(w)
         /\ UNCHANGED pending_tasks \/ DiscardAnswer(w) \/ TakeTask(w)
         /\ UNCHANGED state \/ DiscardDrain(w) \/ TakeTask(w) \/ FinishTask(w)
         /\ \A v \in Workers : v # w => wpc'[v] = wpc[v] /\ wtask'[v] = wtask[v] /\ scan'[v] = scan[v]
<1> USE DEF TypeOK, WGoto, flags, counts
<1>0. scenario' = scenario
  BY DEF WorkerStep
<1>1. CASE RunEnter(w) BY <1>0, <1>1 DEF RunEnter
<1>2. CASE LockMutex(w) BY <1>0, <1>2 DEF LockMutex
<1>3. CASE Top(w) BY <1>0, <1>3 DEF Top
<1>4. CASE TopPending(w) BY <1>0, <1>4 DEF TopPending
<1>5. CASE TopExternal(w) BY <1>0, <1>5 DEF TopExternal
<1>6. CASE RunLeave(w) BY <1>0, <1>6 DEF RunLeave
<1>7. CASE DiscardDrain(w) BY <1>0, <1>7 DEF DiscardDrain
<1>8. CASE DiscardAnswer(w) BY <1>0, <1>8 DEF DiscardAnswer
<1>9. CASE PollOrSleep(w) BY <1>0, <1>9 DEF PollOrSleep
<1>10. CASE TakeTask(w) BY <1>0, <1>10 DEF TakeTask
<1>11. CASE SkipBucket(w) BY <1>0, <1>11 DEF SkipBucket
<1>12. CASE Sleep(w) BY <1>0, <1>12 DEF Sleep
<1>13. CASE SleepPending(w) BY <1>0, <1>13 DEF SleepPending
<1>14. CASE SleepExternal(w) BY <1>0, <1>14 DEF SleepExternal
<1>15. CASE Awake(w) BY <1>0, <1>15 DEF Awake
<1>16. CASE FinishTask(w) BY <1>0, <1>16 DEF FinishTask
<1>17. CASE ReleaseNotify(w) BY <1>0, <1>17 DEF ReleaseNotify
<1> QED BY <1>1, <1>2, <1>3, <1>4, <1>5, <1>6, <1>7, <1>8, <1>9, <1>10, <1>11, <1>12, <1>13,
           <1>14, <1>15, <1>16, <1>17 DEF WorkerStep

LEMMA StopFrame ==
  ASSUME TypeOK, NEW s \in StopTypes, StopStep(s)
  PROVE  /\ UNCHANGED <<scenario, external_waiters, wpc, wtask, scan, spc, kept>>
         /\ UNCHANGED <<running, accept, discard_queues_requested>> \/ StopGently(s) \/ StopForce(s)
         /\ UNCHANGED <<buckets, state>> \/ (StopForce(s) /\ DrainQueues)
         /\ UNCHANGED <<pending_tasks, discard_queues_requested>> \/ s = "FORCE"
         /\ \A u \in StopTypes : u # s => stop'[u] = stop[u]
<1> USE DEF TypeOK, StopGoto, flags, counts, workerVars
<1>0. scenario' = scenario
  BY DEF StopStep
<1>1. CASE StopGently(s) BY <1>0, <1>1 DEF StopGently
<1>2. CASE StopForce(s) BY <1>0, <1>2 DEF StopForce
<1>3. CASE StopHandshake(s) BY <1>0, <1>3 DEF StopHandshake
<1>4. CASE StopZero(s) BY <1>0, <1>4 DEF StopZero
<1> QED BY <1>1, <1>2, <1>3, <1>4 DEF StopStep

\* The steps, and the ones that change nothing the invariant speaks of.
LEMMA Steps ==
  ASSUME [Next]_vars
  PROVE  \/ \E t \in Tasks : SubmitStep(t)
         \/ \E w \in Workers : WorkerStep(w)
         \/ \E s \in StopTypes : StopStep(s)
         \/ /\ UNCHANGED <<scenario, running, accept, live, discard_queues_requested, consumer>>
            /\ UNCHANGED <<pending_tasks, external_waiters, buckets, mutex, state>>
            /\ UNCHANGED <<wpc, wtask, scan, spc, stop, kept>>
            /\ sleeping' \subseteq sleeping
<1>1. ASSUME NEW w \in Workers, SpuriousWakeup(w)
      PROVE  /\ UNCHANGED <<scenario, flags, counts, buckets, mutex, state, workerVars, spc, stop, kept>>
             /\ sleeping' \subseteq sleeping
  BY <1>1 DEF SpuriousWakeup
<1> QED BY <1>1 DEF Next, Rest, vars, flags, counts, workerVars

-----------------------------------------------------------------------------
(* The tasks and the buckets.                                              *)

\* draining the queues discards what is in the buckets.
LEMMA DrainMoves ==
  ASSUME TypeOK, BucketsOK, DrainQueues, NEW u \in Tasks
  PROVE  state'[u] = state[u] \/ (state[u] = "queued" /\ state'[u] = "discarded")
<1>1. state'[u] = IF \E b \in Buckets : \E i \in 1 .. Len(buckets[b]) : buckets[b][i] = u
                  THEN "discarded" ELSE state[u]
  BY DEF DrainQueues
<1> QED BY <1>1 DEF BucketsOK

\* The task that a worker takes.
LEMMA TakeMoves ==
  ASSUME TypeOK, BucketsOK, WorkersOK, NEW w \in Workers, TakeTask(w)
  PROVE  /\ wpc[w] = "dequeue" /\ scan[w] \in Buckets
         /\ \/ /\ UNCHANGED <<state, wtask, pending_tasks, mutex>> /\ wpc' = [wpc EXCEPT ![w] = "sleep"]
               /\ buckets' = [buckets EXCEPT ![scan[w]] =
                                Append(Tail(buckets[scan[w]]), Head(buckets[scan[w]]))]
            \/ \E t \in Tasks :
                 /\ t = buckets[scan[w]][1] /\ state[t] = "queued"
                 /\ state' = [state EXCEPT ![t] = "running"] /\ wtask' = [wtask EXCEPT ![w] = t]
                 /\ wpc' = [wpc EXCEPT ![w] = "run"] /\ mutex' = Nobody
                 /\ pending_tasks' = pending_tasks - 1
                 /\ buckets' = [buckets EXCEPT ![scan[w]] = Tail(buckets[scan[w]])]
<1>1. scan[w] \in Buckets /\ buckets[scan[w]] # <<>> /\ wpc[w] = "dequeue"
  BY DEF TypeOK, TakeTask
<1>2. PICK b \in Buckets : b = scan[w]
  BY <1>1
<1>3. PICK t \in Tasks : t = Head(buckets[b]) /\ t = buckets[b][1] /\ state[t] = "queued"
  BY <1>1, <1>2, HeadIn DEF BucketsOK
<1> QED BY <1>1, <1>2, <1>3 DEF TakeTask, WGoto

\* A worker's step, or a stop, moves on tasks that are queued or running.
LEMMA LaterMoves ==
  ASSUME TypeOK, BucketsOK, WorkersOK, NEW u \in Tasks,
         (\E w \in Workers : WorkerStep(w)) \/ (\E s \in StopTypes : StopStep(s))
  PROVE  \/ state'[u] = state[u]
         \/ state[u] = "queued" /\ state'[u] \in {"running", "discarded"}
         \/ state[u] = "running" /\ state'[u] = "done"
<1>1. ASSUME NEW w \in Workers, WorkerStep(w)
      PROVE  \/ state'[u] = state[u]
             \/ state[u] = "queued" /\ state'[u] \in {"running", "discarded"}
             \/ state[u] = "running" /\ state'[u] = "done"
  <2>1. CASE UNCHANGED state
    BY <2>1
  <2>2. CASE DiscardDrain(w)
    BY <2>2, DrainMoves DEF DiscardDrain
  <2>3. CASE TakeTask(w)
    BY <2>3, TakeMoves, SMTT(30) DEF TypeOK
  <2>4. CASE FinishTask(w)
    BY <2>4 DEF FinishTask, TypeOK, WorkersOK
  <2> QED BY <1>1, <2>1, <2>2, <2>3, <2>4, WorkerFrame
<1>2. ASSUME NEW s \in StopTypes, StopStep(s)
      PROVE  state'[u] = state[u] \/ (state[u] = "queued" /\ state'[u] = "discarded")
  BY <1>2, StopFrame, DrainMoves
<1> QED BY <1>1, <1>2

LEMMA SubmitNext == Inv /\ [Next]_vars => SubmitOK'
<1> SUFFICES ASSUME Inv, [Next]_vars PROVE SubmitOK'
  OBVIOUS
<1>0. TypeOK /\ SubmitOK /\ BucketsOK /\ WorkersOK /\ scenario' = scenario
  BY Steps, SubmitFrame, WorkerFrame, StopFrame DEF Inv
<1>1. ASSUME NEW t \in Tasks, SubmitStep(t) PROVE SubmitOK'
  <2> USE DEF TypeOK, SGoto, Placed, Parked
  <2>1. CASE SubmitAccept(t)
    <3>1. /\ UNCHANGED <<kept, scenario>> /\ t \notin kept
          /\ \/ spc' = [spc EXCEPT ![t] = "count"] /\ state' = [state EXCEPT ![t] = "accepted"]
             \/ spc' = [spc EXCEPT ![t] = "done"] /\ state' = [state EXCEPT ![t] = "refused"]
      BY <1>0, <2>1 DEF SubmitAccept, SubmitOK
    <3>2. CASE spc' = [spc EXCEPT ![t] = "count"] /\ state' = [state EXCEPT ![t] = "accepted"]
      BY <1>0, <3>1, <3>2 DEF SubmitOK
    <3>3. CASE spc' = [spc EXCEPT ![t] = "done"] /\ state' = [state EXCEPT ![t] = "refused"]
      BY <1>0, <3>1, <3>3 DEF SubmitOK
    <3> QED BY <3>1, <3>2, <3>3
  <2>2. CASE SubmitCount(t) BY <1>0, <2>2 DEF SubmitCount, SubmitOK
  <2>3. CASE SubmitEnqueue(t) BY <1>0, <2>3 DEF SubmitEnqueue, SubmitOK
  <2>4. CASE SubmitNotify(t) BY <1>0, <2>4 DEF SubmitNotify, SubmitOK
  <2>5. CASE Park(t) BY <1>0, <2>5 DEF Park, SubmitOK
  <2>6. CASE Drain(t) BY <1>0, <2>6 DEF Drain, SubmitOK
  <2>7. CASE Unregister(t) BY <1>0, <2>7 DEF Unregister, SubmitOK
  <2>8. CASE UnregisterNotify(t) BY <1>0, <2>8 DEF UnregisterNotify, SubmitOK
  <2> QED BY <1>1, <2>1, <2>2, <2>3, <2>4, <2>5, <2>6, <2>7, <2>8 DEF SubmitStep
<1>2. CASE (\E w \in Workers : WorkerStep(w)) \/ (\E s \in StopTypes : StopStep(s))
  <2>1. UNCHANGED <<scenario, spc, kept>>
    BY <1>0, <1>2, WorkerFrame, StopFrame
  <2>2. \A u \in Tasks : \/ state'[u] = state[u]
                         \/ state[u] = "queued" /\ state'[u] \in {"running", "discarded"}
                         \/ state[u] = "running" /\ state'[u] = "done"
    BY <1>0, <1>2, LaterMoves
  <2> QED BY <1>0, <2>1, <2>2 DEF SubmitOK, Placed, Parked
<1>3. CASE UNCHANGED <<scenario, spc, kept, state>>
  BY <1>0, <1>3 DEF SubmitOK, Parked
<1> QED BY <1>1, <1>2, <1>3, Steps

LEMMA AppendOnce ==
  ASSUME NEW S, NEW s \in Seq(S), NEW x \in S,
         \A i \in 1 .. Len(s) : s[i] # x,
         \A i \in 1 .. Len(s) : \A j \in 1 .. Len(s) : s[j] = s[i] => i = j
  PROVE  \A i \in 1 .. Len(Append(s, x)) :
           /\ Append(s, x)[i] = x \/ \E k \in 1 .. Len(s) : Append(s, x)[i] = s[k]
           /\ \A j \in 1 .. Len(Append(s, x)) : Append(s, x)[j] = Append(s, x)[i] => i = j
<1>1. /\ Len(s) \in Nat /\ Len(Append(s, x)) = Len(s) + 1
      /\ Append(s, x)[Len(s) + 1] = x
      /\ \A k \in 1 .. Len(s) : Append(s, x)[k] = s[k]
  OBVIOUS
<1>2. \A i \in 1 .. Len(Append(s, x)) : i \in 1 .. Len(s) \/ i = Len(s) + 1
  BY <1>1
<1> QED BY <1>1, <1>2

LEMMA TailOnce ==
  ASSUME NEW S, NEW s \in Seq(S), s # <<>>,
         \A i \in 1 .. Len(s) : \A j \in 1 .. Len(s) : s[j] = s[i] => i = j
  PROVE  /\ Tail(s) \in Seq(S) /\ Head(s) \in S /\ 1 \in 1 .. Len(s) /\ Head(s) = s[1]
         /\ \A i \in 1 .. Len(Tail(s)) :
              /\ i + 1 \in 1 .. Len(s) /\ Tail(s)[i] = s[i + 1]
              /\ Tail(s)[i] # s[1]
              /\ \A j \in 1 .. Len(Tail(s)) : Tail(s)[j] = Tail(s)[i] => i = j
<1>1. /\ Len(s) \in Nat /\ Len(s) > 0 /\ Len(Tail(s)) = Len(s) - 1 /\ Head(s) = s[1]
      /\ \A k \in 1 .. Len(Tail(s)) : k + 1 \in 1 .. Len(s) /\ Tail(s)[k] = s[k + 1]
      /\ Tail(s) \in Seq(S) /\ Head(s) \in S /\ 1 \in 1 .. Len(s)
  OBVIOUS
<1>2. ASSUME NEW i \in 1 .. Len(Tail(s)) PROVE s[i + 1] # s[1]
  <2>1. i \in Nat /\ i >= 1 /\ i + 1 \in 1 .. Len(s)
    BY <1>1
  <2>2. s[i + 1] = s[1] => 1 = i + 1
    BY <1>1, <2>1
  <2> QED BY <2>1, <2>2
<1>3. ASSUME NEW i \in 1 .. Len(Tail(s)), NEW j \in 1 .. Len(Tail(s)), Tail(s)[j] = Tail(s)[i]
      PROVE  i = j
  <2>1. /\ i \in Nat /\ i + 1 \in 1 .. Len(s) /\ j \in Nat /\ j + 1 \in 1 .. Len(s)
        /\ s[j + 1] = s[i + 1]
    BY <1>1, <1>3
  <2>2. i + 1 = j + 1
    BY <2>1
  <2> QED BY <2>1, <2>2
<1> QED BY <1>1, <1>2, <1>3

\* One bucket at a time: a bucket that is as it was, of tasks that are.
LEMMA BucketsNext == Inv /\ [Next]_vars => BucketsOK'
<1> SUFFICES ASSUME Inv, [Next]_vars PROVE BucketsOK'
  OBVIOUS
<1>0. TypeOK /\ SubmitOK /\ BucketsOK /\ WorkersOK /\ scenario \in Scenarios
  BY DEF Inv
<1>a. scenario' = scenario /\ Buckets' = Buckets /\ Bucket' = Bucket
  BY <1>0, Steps, SubmitFrame, WorkerFrame, StopFrame DEF Buckets, Bucket
<1>b. /\ \A b \in Buckets : buckets[b] \in Seq(Tasks)
      /\ \A b \in Buckets : \A i \in 1 .. Len(buckets[b]) : buckets[b][i] \in Tasks
      /\ DOMAIN buckets = Buckets
  <2>1. \A b \in Buckets : buckets[b] \in Seq(Tasks)
    BY <1>0 DEF TypeOK
  <2>2. \A q \in Seq(Tasks) : \A i \in 1 .. Len(q) : q[i] \in Tasks
    OBVIOUS
  <2> QED BY <1>0, <2>1, <2>2 DEF TypeOK
<1>c. ASSUME buckets' = buckets,
             \A u \in Tasks : state[u] = "queued" => state'[u] = "queued"
      PROVE  BucketsOK'
  BY <1>0, <1>a, <1>b, <1>c DEF BucketsOK
<1>d. ASSUME DrainQueues PROVE BucketsOK'
  <2>1. \A b \in Buckets : buckets'[b] = <<>>
    BY <1>d DEF DrainQueues
  <2>2. \A b \in Buckets : 1 .. Len(buckets'[b]) = {}
    BY <2>1
  <2> QED BY <2>2, <1>a DEF BucketsOK
<1>1. ASSUME NEW t \in Tasks, SubmitStep(t) PROVE BucketsOK'
  <2>1. CASE UNCHANGED buckets
    <3>1. state[t] # "queued" \/ state'[t] = state[t]
      BY <1>0, <1>1, <2>1 DEF SubmitStep, SubmitAccept, SubmitCount, SubmitEnqueue, SubmitNotify,
         Park, Drain, Unregister, UnregisterNotify, SubmitOK
    <3> QED BY <1>0, <1>1, <1>c, <2>1, <3>1, SubmitFrame
  <2>2. CASE SubmitEnqueue(t)
    <3>1. /\ Bucket[t] \in Buckets /\ state[t] = "accepted"
          /\ buckets' = [buckets EXCEPT ![Bucket[t]] = Append(buckets[Bucket[t]], t)]
          /\ state' = [state EXCEPT ![t] = "queued"]
      BY <1>0, <2>2, Scenery DEF SubmitEnqueue, SubmitOK
    <3>2. PICK c \in Buckets : c = Bucket[t]
      BY <3>1
    <3>3. \A i \in 1 .. Len(buckets[c]) : buckets[c][i] # t
      BY <1>0, <3>1 DEF BucketsOK
    <3>4. \A i \in 1 .. Len(buckets'[c]) :
             /\ buckets'[c][i] = t \/ \E k \in 1 .. Len(buckets[c]) : buckets'[c][i] = buckets[c][k]
             /\ \A j \in 1 .. Len(buckets'[c]) : buckets'[c][j] = buckets'[c][i] => i = j
      <4>1. buckets'[c] = Append(buckets[c], t) /\ buckets[c] \in Seq(Tasks)
        BY <1>b, <3>1, <3>2
      <4>2. \A i, j \in 1 .. Len(buckets[c]) : buckets[c][j] = buckets[c][i] => i = j
        BY <1>0 DEF BucketsOK
      <4> QED BY <4>1, <4>2, <3>3, AppendOnce
    <3>5. state'[t] = "queued" /\ \A u \in Tasks : state[u] = "queued" => state'[u] = "queued"
      BY <1>0, <3>1 DEF TypeOK
    <3>6. \A i \in 1 .. Len(buckets'[c]) : /\ state'[buckets'[c][i]] = "queued"
                                           /\ Bucket[buckets'[c][i]] = c
      BY <1>0, <1>b, <3>2, <3>4, <3>5 DEF BucketsOK
    <3>7. \A b \in Buckets : b # c => buckets'[b] = buckets[b]
      BY <1>b, <3>1, <3>2
    <3>8. \A b \in Buckets : b # c => \A i \in 1 .. Len(buckets[b]) : state'[buckets[b][i]] = "queued"
      BY <1>0, <1>b, <3>5 DEF BucketsOK
    <3> QED BY <1>0, <1>a, <3>4, <3>6, <3>7, <3>8 DEF BucketsOK
  <2> QED BY <1>0, <1>1, <2>1, <2>2, SubmitFrame
<1>2. ASSUME NEW w \in Workers, WorkerStep(w) PROVE BucketsOK'
  <2>1. CASE UNCHANGED buckets /\ ~TakeTask(w) /\ ~DiscardDrain(w)
    <3>1. UNCHANGED state \/ FinishTask(w)
      BY <1>0, <1>2, <2>1, WorkerFrame
    <3>2. ASSUME NEW u \in Tasks, state[u] = "queued" PROVE state'[u] = "queued"
      BY <1>0, <3>1, <3>2 DEF FinishTask, WorkersOK, TypeOK
    <3> QED BY <1>c, <2>1, <3>2
  <2>2. CASE DiscardDrain(w)
    BY <1>d, <2>2 DEF DiscardDrain
  <2>3. CASE TakeTask(w)
    <3>0. PICK c \in Buckets : c = scan[w]
      BY <1>0, <2>3, TakeMoves
    <3>1. buckets[c] # <<>> /\ buckets[c] \in Seq(Tasks)
      BY <1>b, <2>3, <3>0 DEF TakeTask
    <3>2. \A i \in 1 .. Len(buckets[c]) : \A j \in 1 .. Len(buckets[c]) :
            buckets[c][j] = buckets[c][i] => i = j
      BY <1>0 DEF BucketsOK
    <3>3. /\ Tail(buckets[c]) \in Seq(Tasks) /\ Head(buckets[c]) \in Tasks
          /\ 1 \in 1 .. Len(buckets[c]) /\ Head(buckets[c]) = buckets[c][1]
          /\ \A i \in 1 .. Len(Tail(buckets[c])) :
               /\ \E k \in 1 .. Len(buckets[c]) : Tail(buckets[c])[i] = buckets[c][k]
               /\ Tail(buckets[c])[i] # buckets[c][1]
               /\ \A j \in 1 .. Len(Tail(buckets[c])) : Tail(buckets[c])[j] = Tail(buckets[c])[i] => i = j
      BY <3>1, <3>2, TailOnce
    <3>4. CASE /\ UNCHANGED state
               /\ buckets' = [buckets EXCEPT ![c] = Append(Tail(buckets[c]), Head(buckets[c]))]
      <4>1. /\ buckets'[c] = Append(Tail(buckets[c]), Head(buckets[c]))
            /\ \A b \in Buckets : b # c => buckets'[b] = buckets[b]
        BY <1>b, <3>4
      <4>2. \A i \in 1 .. Len(buckets'[c]) :
              /\ buckets'[c][i] = Head(buckets[c])
                   \/ \E k \in 1 .. Len(Tail(buckets[c])) : buckets'[c][i] = Tail(buckets[c])[k]
              /\ \A j \in 1 .. Len(buckets'[c]) : buckets'[c][j] = buckets'[c][i] => i = j
        <5>1. \A i \in 1 .. Len(Tail(buckets[c])) : Tail(buckets[c])[i] # Head(buckets[c])
          BY <3>3
        <5> QED BY <3>3, <4>1, <5>1, AppendOnce, SMTT(30)
      <4>3. \A i \in 1 .. Len(buckets'[c]) : \E k \in 1 .. Len(buckets[c]) : buckets'[c][i] = buckets[c][k]
        BY <3>3, <4>2
      <4> QED BY <1>0, <1>a, <3>4, <4>1, <4>2, <4>3 DEF BucketsOK
    <3>5. ASSUME NEW t \in Tasks, t = buckets[c][1], state' = [state EXCEPT ![t] = "running"],
                 buckets' = [buckets EXCEPT ![c] = Tail(buckets[c])]
          PROVE  BucketsOK'
      <4>1. /\ buckets'[c] = Tail(buckets[c])
            /\ \A b \in Buckets : b # c => buckets'[b] = buckets[b]
        BY <1>b, <3>5
      <4>2. \A u \in Tasks : u # t => state'[u] = state[u]
        BY <1>0, <3>5 DEF TypeOK
      <4>3. Bucket[t] = c
        BY <1>0, <3>3, <3>5 DEF BucketsOK
      <4>4. ASSUME NEW b \in Buckets, b # c, NEW i \in 1 .. Len(buckets[b])
            PROVE  buckets[b][i] # t /\ buckets[b][i] \in Tasks
        BY <1>0, <1>b, <4>3, <4>4 DEF BucketsOK
      <4>5. ASSUME NEW i \in 1 .. Len(Tail(buckets[c]))
            PROVE  /\ Tail(buckets[c])[i] # t /\ Tail(buckets[c])[i] \in Tasks
                   /\ state[Tail(buckets[c])[i]] = "queued" /\ Bucket[Tail(buckets[c])[i]] = c
        BY <1>0, <1>b, <3>3, <3>5 DEF BucketsOK
      <4>6. ASSUME NEW b \in Buckets, NEW i \in 1 .. Len(buckets'[b])
            PROVE  /\ state'[buckets'[b][i]] = "queued" /\ Bucket[buckets'[b][i]] = b
                   /\ \A j \in 1 .. Len(buckets'[b]) : buckets'[b][j] = buckets'[b][i] => i = j
        <5>1. CASE b = c
          <6>1. i \in 1 .. Len(Tail(buckets[c])) /\ buckets'[b] = Tail(buckets[c])
            BY <4>1, <4>6, <5>1
          <6>2. state'[Tail(buckets[c])[i]] = "queued" /\ Bucket[Tail(buckets[c])[i]] = c
            BY <4>2, <4>5, <6>1
          <6>3. \A j \in 1 .. Len(Tail(buckets[c])) : Tail(buckets[c])[j] = Tail(buckets[c])[i] => i = j
            BY <3>3, <6>1
          <6> QED BY <5>1, <6>1, <6>2, <6>3
        <5>2. CASE b # c
          BY <1>0, <4>1, <4>2, <4>4, <4>6, <5>2 DEF BucketsOK
        <5> QED BY <5>1, <5>2
      <4> QED BY <1>a, <4>6 DEF BucketsOK
    <3> QED BY <1>0, <2>3, <3>0, <3>4, <3>5, TakeMoves
  <2> QED BY <1>0, <1>2, <2>1, <2>2, <2>3, WorkerFrame
<1>3. ASSUME NEW s \in StopTypes, StopStep(s) PROVE BucketsOK'
  BY <1>0, <1>3, <1>c, <1>d, StopFrame
<1>4. CASE UNCHANGED <<buckets, state>>
  BY <1>c, <1>4
<1> QED BY <1>1, <1>2, <1>3, <1>4, Steps

-----------------------------------------------------------------------------
(* The workers and the mutex.                                              *)

\* Only one step puts a worker on "run", and one takes it off.
LEMMA RunMoves ==
  ASSUME TypeOK, NEW w \in Workers, WorkerStep(w)
  PROVE  \/ TakeTask(w) \/ FinishTask(w)
         \/ wpc[w] # "run" /\ wpc'[w] # "run" /\ UNCHANGED wtask
<1> USE DEF TypeOK, WGoto
<1>1. CASE RunEnter(w) BY <1>1 DEF RunEnter
<1>2. CASE LockMutex(w) BY <1>2 DEF LockMutex
<1>3. CASE Top(w) BY <1>3 DEF Top
<1>4. CASE TopPending(w) BY <1>4 DEF TopPending
<1>5. CASE TopExternal(w) BY <1>5 DEF TopExternal
<1>6. CASE RunLeave(w) BY <1>6 DEF RunLeave
<1>7. CASE DiscardDrain(w) BY <1>7 DEF DiscardDrain
<1>8. CASE DiscardAnswer(w) BY <1>8 DEF DiscardAnswer
<1>9. CASE PollOrSleep(w) BY <1>9 DEF PollOrSleep
<1>11. CASE SkipBucket(w) BY <1>11 DEF SkipBucket
<1>12. CASE Sleep(w) BY <1>12 DEF Sleep
<1>13. CASE SleepPending(w) BY <1>13 DEF SleepPending
<1>14. CASE SleepExternal(w) BY <1>14 DEF SleepExternal
<1>15. CASE Awake(w) BY <1>15 DEF Awake
<1>17. CASE ReleaseNotify(w) BY <1>17 DEF ReleaseNotify
<1> QED BY <1>1, <1>2, <1>3, <1>4, <1>5, <1>6, <1>7, <1>8, <1>9, <1>11, <1>12, <1>13,
           <1>14, <1>15, <1>17 DEF WorkerStep

LEMMA WorkersNext == Inv /\ [Next]_vars => WorkersOK'
<1> SUFFICES ASSUME Inv, [Next]_vars PROVE WorkersOK'
  OBVIOUS
<1>0. TypeOK /\ SubmitOK /\ BucketsOK /\ WorkersOK
  BY DEF Inv
<1>a. ASSUME UNCHANGED <<wpc, wtask>>,
             \A u \in Tasks : state[u] = "running" <=> state'[u] = "running"
      PROVE  WorkersOK'
  BY <1>0, <1>a DEF WorkersOK
<1>1. ASSUME NEW t \in Tasks, SubmitStep(t) PROVE WorkersOK'
  <2>1. state'[t] = "running" <=> state[t] = "running"
    BY <1>0, <1>1 DEF SubmitStep, SubmitAccept, SubmitCount, SubmitEnqueue, SubmitNotify,
       Park, Drain, Unregister, UnregisterNotify, SubmitOK, TypeOK
  <2> QED BY <1>0, <1>1, <1>a, <2>1, SubmitFrame
<1>2. ASSUME NEW w \in Workers, WorkerStep(w) PROVE WorkersOK'
  <2>1. CASE TakeTask(w)
    <3>1. CASE UNCHANGED <<state, wtask>> /\ wpc[w] = "dequeue" /\ wpc' = [wpc EXCEPT ![w] = "sleep"]
      BY <1>0, <3>1 DEF WorkersOK, TypeOK
    <3>2. ASSUME NEW t \in Tasks, state[t] = "queued", wpc[w] = "dequeue",
                 state' = [state EXCEPT ![t] = "running"], wtask' = [wtask EXCEPT ![w] = t],
                 wpc' = [wpc EXCEPT ![w] = "run"]
          PROVE  WorkersOK'
      <4>1. \A v \in Workers : wpc[v] = "run" => wtask[v] # t
        BY <1>0, <3>2 DEF WorkersOK
      <4>2. /\ wpc'[w] = "run" /\ wtask'[w] = t /\ state'[t] = "running"
            /\ \A v \in Workers : v # w => wpc'[v] = wpc[v] /\ wtask'[v] = wtask[v]
            /\ \A u \in Tasks : u # t => state'[u] = state[u]
        BY <1>0, <3>2 DEF TypeOK
      <4> QED BY <1>0, <3>2, <4>1, <4>2 DEF WorkersOK
    <3> QED BY <1>0, <2>1, <3>1, <3>2, TakeMoves
  <2>2. CASE FinishTask(w)
    <3>1. PICK t \in Tasks : t = wtask[w] /\ state[t] = "running"
      BY <1>0, <2>2 DEF FinishTask, WorkersOK
    <3>2. /\ wpc[w] = "run" /\ wpc'[w] # "run" /\ state'[t] = "done"
          /\ \A v \in Workers : v # w => wpc'[v] = wpc[v] /\ wtask'[v] = wtask[v]
          /\ \A u \in Tasks : u # t => state'[u] = state[u]
      BY <1>0, <2>2, <3>1 DEF FinishTask, WGoto, TypeOK
    <3> QED BY <1>0, <3>1, <3>2 DEF WorkersOK
  <2>3. CASE wpc[w] # "run" /\ wpc'[w] # "run" /\ UNCHANGED wtask /\ ~TakeTask(w) /\ ~FinishTask(w)
    <3>1. \A u \in Tasks : state[u] = "running" <=> state'[u] = "running"
      <4>1. CASE UNCHANGED state
        BY <4>1
      <4>2. CASE DiscardDrain(w)
        BY <1>0, <4>2, DrainMoves DEF DiscardDrain
      <4> QED BY <1>0, <1>2, <2>3, <4>1, <4>2, WorkerFrame
    <3>2. \A v \in Workers : v # w => wpc'[v] = wpc[v]
      BY <1>0, <1>2, WorkerFrame
    <3> QED BY <1>0, <2>3, <3>1, <3>2 DEF WorkersOK
  <2> QED BY <1>0, <1>2, <2>1, <2>2, <2>3, RunMoves
<1>3. ASSUME NEW s \in StopTypes, StopStep(s) PROVE WorkersOK'
  <2>1. \A u \in Tasks : state[u] = "running" <=> state'[u] = "running"
    BY <1>0, <1>3, StopFrame, DrainMoves
  <2> QED BY <1>0, <1>3, <1>a, <2>1, StopFrame
<1>4. CASE UNCHANGED <<wpc, wtask, state>>
  BY <1>a, <1>4
<1> QED BY <1>1, <1>2, <1>3, <1>4, Steps

LEMMA MutexNext == Inv /\ [Next]_vars => MutexOK'
<1> SUFFICES ASSUME Inv, [Next]_vars PROVE MutexOK'
  OBVIOUS
<1>0. TypeOK /\ MutexOK /\ Nobody \notin Workers /\ "FORCE" \in StopTypes
      /\ Workers \cap StopTypes = {} /\ Nobody \notin StopTypes
  BY ThreadsAssumption DEF Inv, Nobody, StopTypes
<1>1. ASSUME NEW t \in Tasks, SubmitStep(t) PROVE MutexOK'
  BY <1>0, <1>1, SubmitFrame DEF MutexOK
<1>2. ASSUME NEW w \in Workers, WorkerStep(w) PROVE MutexOK'
  <2>1. \A v \in Workers : v # w => wpc'[v] = wpc[v]
    BY <1>0, <1>2, WorkerFrame
  <2>2. stop' = stop
    BY <1>0, <1>2, WorkerFrame
  <2>3. \/ wpc'[w] \notin Inside /\ (mutex' = mutex \/ (mutex = w /\ mutex' = Nobody))
        \/ wpc'[w] \in Inside /\ mutex' = w /\ (mutex = w \/ mutex = Nobody)
    <3> USE <1>0 DEF TypeOK, WGoto, MutexOK, Inside
    <3>1. CASE RunEnter(w) BY <3>1 DEF RunEnter
    <3>2. CASE LockMutex(w) BY <3>2 DEF LockMutex
    <3>3. CASE Top(w) BY <3>3 DEF Top
    <3>4. CASE TopPending(w) BY <3>4 DEF TopPending
    <3>5. CASE TopExternal(w) BY <3>5 DEF TopExternal
    <3>6. CASE RunLeave(w) BY <3>6 DEF RunLeave
    <3>7. CASE DiscardDrain(w) BY <3>7 DEF DiscardDrain
    <3>8. CASE DiscardAnswer(w) BY <3>8 DEF DiscardAnswer
    <3>9. CASE PollOrSleep(w) BY <3>9 DEF PollOrSleep
    <3>10. CASE TakeTask(w) BY <3>10 DEF TakeTask
    <3>11. CASE SkipBucket(w) BY <3>11 DEF SkipBucket
    <3>12. CASE Sleep(w) BY <3>12 DEF Sleep
    <3>13. CASE SleepPending(w) BY <3>13 DEF SleepPending
    <3>14. CASE SleepExternal(w) BY <3>14 DEF SleepExternal
    <3>15. CASE Awake(w) BY <3>15 DEF Awake
    <3>16. CASE FinishTask(w) BY <3>16 DEF FinishTask
    <3>17. CASE ReleaseNotify(w) BY <3>17 DEF ReleaseNotify
    <3> QED BY <1>2, <3>1, <3>2, <3>3, <3>4, <3>5, <3>6, <3>7, <3>8, <3>9, <3>10, <3>11, <3>12,
               <3>13, <3>14, <3>15, <3>16, <3>17 DEF WorkerStep
  <2> QED BY <1>0, <2>1, <2>2, <2>3 DEF MutexOK
<1>3. ASSUME NEW s \in StopTypes, StopStep(s) PROVE MutexOK'
  <2>1. wpc' = wpc
    BY <1>0, <1>3, StopFrame
  <2> USE <1>0 DEF TypeOK, StopGoto, MutexOK
  <2>2. CASE StopGently(s) BY <2>1, <2>2 DEF StopGently
  <2>3. CASE StopForce(s) BY <2>1, <2>3 DEF StopForce
  <2>4. CASE StopHandshake(s) BY <2>1, <2>4 DEF StopHandshake
  <2>5. CASE StopZero(s) BY <2>1, <2>5 DEF StopZero
  <2> QED BY <1>3, <2>2, <2>3, <2>4, <2>5 DEF StopStep
<1>4. CASE UNCHANGED <<wpc, mutex, stop>>
  BY <1>0, <1>4 DEF MutexOK
<1> QED BY <1>1, <1>2, <1>3, <1>4, Steps

-----------------------------------------------------------------------------
(* The counters.                                                           *)

\* A set that gains or loses a member.
LEMMA Counts ==
  ASSUME NEW S, NEW T, S \subseteq Tasks, T \subseteq Tasks, NEW x \in Tasks,
         \A y \in Tasks : y # x => (y \in S <=> y \in T)
  PROVE  /\ Cardinality(S) \in Nat /\ Cardinality(T) \in Nat
         /\ (x \in S <=> x \in T) => Cardinality(T) = Cardinality(S)
         /\ x \in T /\ x \notin S => Cardinality(T) = Cardinality(S) + 1
         /\ x \in S /\ x \notin T => Cardinality(T) = Cardinality(S) - 1
<1>1. IsFiniteSet(S) /\ IsFiniteSet(T)
  BY ThreadsAssumption, FS_Subset
<1>2. Cardinality(S) \in Nat /\ Cardinality(T) \in Nat
  BY <1>1, FS_CardinalityType
<1>3. ASSUME x \in S <=> x \in T PROVE S = T
  BY <1>3
<1>4. ASSUME x \in T, x \notin S PROVE Cardinality(T) = Cardinality(S) + 1
  <2>1. T = S \cup {x}
    BY <1>4
  <2> QED BY <1>1, <1>4, <2>1, FS_AddElement
<1>5. ASSUME x \in S, x \notin T PROVE Cardinality(T) = Cardinality(S) - 1
  <2>1. T = S \ {x}
    BY <1>5
  <2> QED BY <1>1, <1>5, <2>1, FS_RemoveElement
<1> QED BY <1>2, <1>3, <1>4, <1>5

LEMMA ExternalNext == Inv /\ [Next]_vars => ExternalOK' /\ external_waiters' \in Nat
<1> SUFFICES ASSUME Inv, [Next]_vars PROVE ExternalOK' /\ external_waiters' \in Nat
  OBVIOUS
<1>0. TypeOK /\ SubmitOK /\ ExternalOK /\ scenario \in Scenarios /\ external_waiters \in Nat
  BY DEF Inv, TypeOK
<1>1. ASSUME NEW t \in Tasks, SubmitStep(t) PROVE ExternalOK' /\ external_waiters' \in Nat
  <2>1. scenario' = scenario /\ Parked' = Parked /\ Parked \subseteq Tasks
    BY <1>0, <1>1, SubmitFrame, Scenery DEF Parked
  <2>2. \A u \in Tasks : u # t => spc'[u] = spc[u]
    BY <1>0, <1>1, SubmitFrame
  <2>3. \/ UNCHANGED external_waiters /\ (t \in Registered <=> t \in Registered')
        \/ external_waiters' = external_waiters + 1 /\ t \notin Registered /\ t \in Registered'
        \/ external_waiters' = external_waiters - 1 /\ t \in Registered /\ t \notin Registered'
    <3> USE <1>0, <2>1 DEF TypeOK, SGoto, Registered, counts
    <3>1. CASE SubmitAccept(t) BY <3>1 DEF SubmitAccept
    <3>2. CASE SubmitCount(t) BY <3>2 DEF SubmitCount
    <3>3. CASE SubmitEnqueue(t) BY <3>3 DEF SubmitEnqueue
    <3>4. CASE SubmitNotify(t) BY <3>4 DEF SubmitNotify
    <3>5. CASE Park(t) BY <3>5 DEF Park
    <3>6. CASE Drain(t) BY <3>6 DEF Drain
    <3>7. CASE Unregister(t) BY <3>7 DEF Unregister, SubmitOK
    <3>8. CASE UnregisterNotify(t) BY <3>8 DEF UnregisterNotify
    <3> QED BY <1>1, <3>1, <3>2, <3>3, <3>4, <3>5, <3>6, <3>7, <3>8 DEF SubmitStep
  <2>4. /\ Registered \subseteq Tasks /\ Registered' \subseteq Tasks
        /\ \A u \in Tasks : u # t => (u \in Registered <=> u \in Registered')
    BY <2>1, <2>2 DEF Registered
  <2>5. /\ Cardinality(Registered) \in Nat /\ Cardinality(Registered') \in Nat
        /\ (t \in Registered <=> t \in Registered') => Cardinality(Registered') = Cardinality(Registered)
        /\ t \in Registered' /\ t \notin Registered => Cardinality(Registered') = Cardinality(Registered) + 1
        /\ t \in Registered /\ t \notin Registered' => Cardinality(Registered') = Cardinality(Registered) - 1
    BY <2>4, Counts
  <2>6. external_waiters' = Cardinality(Registered')
    BY <1>0, <2>3, <2>5 DEF ExternalOK
  <2> QED BY <2>5, <2>6 DEF ExternalOK
<1>2. CASE UNCHANGED <<scenario, external_waiters, spc>>
  BY <1>0, <1>2 DEF ExternalOK, Registered, Parked
<1> QED BY <1>0, <1>1, <1>2, Steps, WorkerFrame, StopFrame

\* Without a forced stop.
LEMMA GentleNext == Inv /\ [Next]_vars => GentleOK'
<1> SUFFICES ASSUME Inv, [Next]_vars, NoForce' PROVE GentleOK'
  BY DEF GentleOK
<1>0. TypeOK /\ SubmitOK /\ BucketsOK /\ WorkersOK /\ GentleOK /\ scenario' = scenario
  BY Steps, SubmitFrame, WorkerFrame, StopFrame DEF Inv
<1>a. /\ NoForce /\ discard_queues_requested = FALSE /\ stop["FORCE"] = "done"
      /\ \A w \in Workers : wpc[w] # "discarded"
      /\ \A t \in Tasks : state[t] # "discarded"
      /\ ~running => stop["NORMAL"] = "done"
  BY <1>0 DEF NoForce, GentleOK, TypeOK
<1>1. ASSUME NEW t \in Tasks, SubmitStep(t) PROVE GentleOK'
  <2>1. state'[t] # "discarded"
    BY <1>0, <1>1, <1>a DEF SubmitStep, SubmitAccept, SubmitCount, SubmitEnqueue, SubmitNotify,
       Park, Drain, Unregister, UnregisterNotify, TypeOK
  <2> QED BY <1>0, <1>1, <1>a, <2>1, SubmitFrame DEF GentleOK
<1>2. ASSUME NEW w \in Workers, WorkerStep(w) PROVE GentleOK'
  <2>1. ~DiscardDrain(w) /\ ~DiscardAnswer(w)
    BY <1>a DEF DiscardDrain, DiscardAnswer
  <2>2. wpc'[w] # "discarded"
    BY <1>0, <1>2, <1>a, <2>1 DEF WorkerStep, RunEnter, LockMutex, Top, TopPending, TopExternal,
       RunLeave, PollOrSleep, TakeTask, SkipBucket, Sleep, SleepPending, SleepExternal, Awake,
       FinishTask, ReleaseNotify, WGoto, TypeOK
  <2>3. \A u \in Tasks : state'[u] # "discarded"
    BY <1>0, <1>2, <1>a, <2>1, WorkerFrame, TakeMoves DEF FinishTask, TypeOK
  <2>4. UNCHANGED <<running, stop, discard_queues_requested>>
    BY <1>0, <1>2, <2>1, WorkerFrame
  <2>5. \A v \in Workers : v # w => wpc'[v] = wpc[v]
    BY <1>0, <1>2, WorkerFrame
  <2> QED BY <1>a, <2>2, <2>3, <2>4, <2>5 DEF GentleOK
<1>3. ASSUME NEW s \in StopTypes, StopStep(s) PROVE GentleOK'
  <2>1. StopGently(s)
    BY <1>3, <1>a DEF StopStep, StopForce, StopHandshake, StopZero
  <2>2. /\ UNCHANGED <<discard_queues_requested, wpc, state>>
        /\ stop' = [stop EXCEPT ![s] = "done"] /\ s # "FORCE"
        /\ s = "FINAL" => stop["NORMAL"] = "done"
    BY <2>1 DEF StopGently, StopGoto, workerVars
  <2>3. s \in {"NORMAL", "FINAL"} /\ stop'["NORMAL"] = "done" /\ stop'["FORCE"] = "done"
    BY <1>0, <1>a, <2>2 DEF StopTypes, TypeOK
  <2> QED BY <1>a, <2>2, <2>3 DEF GentleOK
<1>4. CASE UNCHANGED <<discard_queues_requested, stop, wpc, state, running>>
  BY <1>4, <1>a DEF GentleOK
<1> QED BY <1>1, <1>2, <1>3, <1>4, Steps

\* The tasks that pending_tasks counts.
Queued == {t \in Tasks : state[t] = "queued"}
Entering == {t \in Tasks : spc[t] = "enqueue"}

LEMMA PendingNext == Inv /\ [Next]_vars => PendingAccounting'
<1> SUFFICES ASSUME Inv, [Next]_vars, NoForce' PROVE PendingAccounting'
  BY DEF PendingAccounting, NoForce
<1>0. /\ TypeOK /\ SubmitOK /\ BucketsOK /\ WorkersOK /\ GentleOK /\ GentleOK' /\ scenario' = scenario
      /\ NoForce /\ pending_tasks \in Int
  BY GentleNext, Steps, SubmitFrame, WorkerFrame, StopFrame DEF Inv, NoForce, TypeOK
<1>a. pending_tasks = Cardinality(Queued) + Cardinality(Entering)
  BY <1>0 DEF Inv, PendingAccounting, NoForce, Queued, Entering
<1>b. /\ Queued \subseteq Tasks /\ Queued' \subseteq Tasks
      /\ Entering \subseteq Tasks /\ Entering' \subseteq Tasks
  BY DEF Queued, Entering
<1>c. SUFFICES pending_tasks' = Cardinality(Queued') + Cardinality(Entering')
  BY DEF PendingAccounting, Queued, Entering
<1>1. ASSUME NEW t \in Tasks, SubmitStep(t)
      PROVE  pending_tasks' = Cardinality(Queued') + Cardinality(Entering')
  <2>1. \A u \in Tasks : u # t => (u \in Queued <=> u \in Queued') /\ (u \in Entering <=> u \in Entering')
    BY <1>0, <1>1, SubmitFrame DEF Queued, Entering
  <2>2. /\ Cardinality(Queued) \in Nat /\ Cardinality(Queued') \in Nat
        /\ (t \in Queued <=> t \in Queued') => Cardinality(Queued') = Cardinality(Queued)
        /\ t \in Queued' /\ t \notin Queued => Cardinality(Queued') = Cardinality(Queued) + 1
    BY <1>b, <2>1, Counts
  <2>3. /\ Cardinality(Entering) \in Nat /\ Cardinality(Entering') \in Nat
        /\ (t \in Entering <=> t \in Entering') => Cardinality(Entering') = Cardinality(Entering)
        /\ t \in Entering' /\ t \notin Entering => Cardinality(Entering') = Cardinality(Entering) + 1
        /\ t \in Entering /\ t \notin Entering' => Cardinality(Entering') = Cardinality(Entering) - 1
    BY <1>b, <2>1, Counts
  <2>4. \/ /\ UNCHANGED pending_tasks /\ (t \in Queued <=> t \in Queued')
           /\ (t \in Entering <=> t \in Entering')
        \/ /\ pending_tasks' = pending_tasks + 1 /\ (t \in Queued <=> t \in Queued')
           /\ t \notin Entering /\ t \in Entering'
        \/ /\ UNCHANGED pending_tasks /\ t \notin Queued /\ t \in Queued'
           /\ t \in Entering /\ t \notin Entering'
    <3> USE <1>0 DEF TypeOK, SGoto, Queued, Entering, counts, SubmitOK
    <3>1. CASE SubmitAccept(t) BY <3>1 DEF SubmitAccept
    <3>2. CASE SubmitCount(t) BY <3>2 DEF SubmitCount
    <3>3. CASE SubmitEnqueue(t) BY <3>3 DEF SubmitEnqueue
    <3>4. CASE SubmitNotify(t) BY <3>4 DEF SubmitNotify
    <3>5. CASE Park(t) BY <3>5 DEF Park
    <3>6. CASE Drain(t) BY <3>6 DEF Drain
    <3>7. CASE Unregister(t) BY <3>7 DEF Unregister
    <3>8. CASE UnregisterNotify(t) BY <3>8 DEF UnregisterNotify
    <3> QED BY <1>1, <3>1, <3>2, <3>3, <3>4, <3>5, <3>6, <3>7, <3>8 DEF SubmitStep
  <2> QED BY <1>0, <1>a, <2>2, <2>3, <2>4
<1>2. CASE /\ UNCHANGED <<spc, pending_tasks>>
           /\ \A u \in Tasks : state[u] = "queued" <=> state'[u] = "queued"
  <2>1. Queued' = Queued /\ Entering' = Entering
    BY <1>2 DEF Queued, Entering
  <2> QED BY <1>2, <1>a, <2>1
<1>3. ASSUME NEW w \in Workers, WorkerStep(w)
      PROVE  pending_tasks' = Cardinality(Queued') + Cardinality(Entering')
  <2>1. ~DiscardDrain(w) /\ ~DiscardAnswer(w)
    BY <1>0 DEF DiscardDrain, DiscardAnswer, GentleOK
  <2>2. spc' = spc /\ Entering' = Entering
    BY <1>0, <1>3, WorkerFrame DEF Entering
  <2>3. CASE TakeTask(w)
    <3>1. CASE UNCHANGED <<state, pending_tasks>>
      BY <1>2, <2>2, <3>1
    <3>2. ASSUME NEW t \in Tasks, state[t] = "queued", state' = [state EXCEPT ![t] = "running"],
                 pending_tasks' = pending_tasks - 1
          PROVE  pending_tasks' = Cardinality(Queued') + Cardinality(Entering')
      <4>1. /\ t \in Queued /\ t \notin Queued'
            /\ \A u \in Tasks : u # t => (u \in Queued <=> u \in Queued')
        BY <1>0, <3>2 DEF Queued, TypeOK
      <4>2. /\ Cardinality(Queued) \in Nat /\ Cardinality(Queued') \in Nat
            /\ Cardinality(Queued') = Cardinality(Queued) - 1
        BY <1>b, <4>1, Counts
      <4>3. Cardinality(Entering) \in Nat
        BY <1>b, ThreadsAssumption, FS_Subset, FS_CardinalityType
      <4> QED BY <1>a, <2>2, <3>2, <4>2, <4>3
    <3> QED BY <1>0, <2>3, <3>1, <3>2, TakeMoves
  <2>4. CASE FinishTask(w)
    <3>1. \A u \in Tasks : state[u] = "queued" <=> state'[u] = "queued"
      BY <1>0, <2>4 DEF FinishTask, WorkersOK, TypeOK
    <3>2. UNCHANGED pending_tasks
      BY <2>4 DEF FinishTask, counts
    <3> QED BY <1>2, <2>2, <3>1, <3>2
  <2>5. CASE UNCHANGED <<state, pending_tasks>>
    BY <1>2, <2>2, <2>5
  <2> QED BY <1>0, <1>3, <2>1, <2>3, <2>4, <2>5, WorkerFrame DEF FinishTask, counts
<1>4. ASSUME NEW s \in StopTypes, StopStep(s)
      PROVE  UNCHANGED <<spc, pending_tasks, state>>
  <2>1. StopGently(s)
    BY <1>0, <1>4 DEF StopStep, StopForce, StopHandshake, StopZero, GentleOK
  <2> QED BY <2>1 DEF StopGently, counts
<1>5. CASE UNCHANGED <<spc, pending_tasks, state>>
  BY <1>2, <1>5
<1> QED BY <1>1, <1>3, <1>4, <1>5, Steps

-----------------------------------------------------------------------------
(* The workers that leave.                                                 *)

\* What a worker that is about to read external_waiters knows.
LEMMA NothingQueued ==
  ASSUME PendingAccounting, NoForce, pending_tasks = 0
  PROVE  \A t \in Tasks : state[t] # "queued"
<1>1. Cardinality(Queued) + Cardinality(Entering) = 0
  BY DEF PendingAccounting, NoForce, Queued, Entering
<1>2. IsFiniteSet(Queued) /\ IsFiniteSet(Entering)
  <2>1. Queued \subseteq Tasks /\ Entering \subseteq Tasks
    BY DEF Queued, Entering
  <2> QED BY <2>1, ThreadsAssumption, FS_Subset
<1>3. Cardinality(Queued) \in Nat /\ Cardinality(Entering) \in Nat
  BY <1>2, FS_CardinalityType
<1>4. Cardinality(Queued) = 0
  BY <1>1, <1>3
<1>5. Queued = {}
  BY <1>2, <1>4, FS_EmptySet
<1> QED BY <1>5 DEF Queued

LEMMA NothingRegistered ==
  ASSUME ExternalOK, scenario \in Scenarios, external_waiters = 0
  PROVE  Registered = {}
<1>1. IsFiniteSet(Registered)
  <2>1. Registered \subseteq Tasks
    BY Scenery DEF Registered
  <2> QED BY <2>1, ThreadsAssumption, FS_Subset
<1> QED BY <1>1, FS_EmptySet DEF ExternalOK

LEMMA LeavingNext == Inv /\ [Next]_vars => LeavingOK'
<1> SUFFICES ASSUME Inv, [Next]_vars, NoForce' PROVE LeavingOK'
  BY DEF LeavingOK
<1>0. /\ TypeOK /\ SubmitOK /\ BucketsOK /\ WorkersOK /\ MutexOK /\ GentleOK /\ GentleOK' /\ LeavingOK
      /\ scenario' = scenario /\ NoForce /\ scenario \in Scenarios
      /\ scenario.workers \subseteq Workers /\ Parked \subseteq Tasks
  BY GentleNext, Steps, SubmitFrame, WorkerFrame, StopFrame, Scenery DEF Inv, NoForce
<1>a. \A v \in scenario.workers :
        /\ wpc[v] \in {"top_pending", "top_external", "leaving", "gone"} => ~running
        /\ wpc[v] = "top_external" => /\ mutex = v /\ mutex # Nobody
                                      /\ \A t \in Tasks : spc[t] \in {"unregister", "last", "done"} => state[t] # "queued"
        /\ wpc[v] \in {"leaving", "gone"} => \A t \in kept : state[t] \in {"running", "done"}
  <2>1. \A v \in Workers : wpc[v] = "top_external" => mutex = v /\ mutex # Nobody
    BY <1>0, ThreadsAssumption DEF MutexOK, Inside, Nobody
  <2> QED BY <1>0, <2>1 DEF LeavingOK
<1>b. kept \subseteq Tasks /\ \A t \in Tasks : state[t] # "discarded" /\ state'[t] # "discarded"
  BY <1>0 DEF TypeOK, GentleOK
<1>1. ASSUME NEW t \in Tasks, SubmitStep(t) PROVE LeavingOK'
  <2>1. UNCHANGED <<wpc, running>> /\ \A u \in Tasks : u # t => spc'[u] = spc[u] /\ state'[u] = state[u]
    BY <1>0, <1>1, SubmitFrame
  <2>2. mutex # Nobody /\ spc'[t] \in {"unregister", "last", "done"} /\ state'[t] = "queued" =>
          state[t] = "queued" /\ spc[t] \in {"unregister", "last", "done"}
    <3> USE <1>0 DEF TypeOK, SGoto, SubmitOK
    <3>1. CASE SubmitAccept(t) BY <3>1 DEF SubmitAccept
    <3>2. CASE SubmitCount(t) BY <3>2 DEF SubmitCount
    <3>3. CASE SubmitEnqueue(t) BY <3>3 DEF SubmitEnqueue
    <3>4. CASE SubmitNotify(t) BY <3>4 DEF SubmitNotify
    <3>5. CASE Park(t) BY <3>5 DEF Park
    <3>6. CASE Drain(t) BY <3>6 DEF Drain
    <3>7. CASE Unregister(t) BY <3>7 DEF Unregister
    <3>8. CASE UnregisterNotify(t) BY <3>8 DEF UnregisterNotify
    <3> QED BY <1>1, <3>1, <3>2, <3>3, <3>4, <3>5, <3>6, <3>7, <3>8 DEF SubmitStep
  <2>3. state[t] \in {"running", "done"} => state'[t] = state[t]
    BY <1>0, <1>1 DEF SubmitStep, SubmitAccept, SubmitCount, SubmitEnqueue, SubmitNotify,
       Park, Drain, Unregister, UnregisterNotify, SubmitOK
  <2>4. ~running => kept' = kept
    BY <1>0, <1>1, SubmitFrame DEF Park
  <2>5. ASSUME NEW v \in scenario.workers
        PROVE  /\ wpc[v] = "top_external" => \A u \in Tasks :
                    spc'[u] \in {"unregister", "last", "done"} => state'[u] # "queued"
               /\ wpc[v] \in {"leaving", "gone"} => \A u \in kept' : state'[u] \in {"running", "done"}
    BY <1>a, <1>b, <2>1, <2>2, <2>3, <2>4
  <2> QED BY <1>0, <1>a, <2>1, <2>5 DEF LeavingOK
<1>2. ASSUME NEW w \in Workers, WorkerStep(w) PROVE LeavingOK'
  <2>1. /\ UNCHANGED <<running, spc, kept>>
        /\ \A v \in Workers : v # w => wpc'[v] = wpc[v]
    BY <1>0, <1>2, WorkerFrame
  <2>2. \A u \in Tasks : /\ state'[u] = "queued" => state[u] = "queued"
                         /\ state[u] \in {"running", "done"} => state'[u] \in {"running", "done"}
    BY <1>0, <1>2, LaterMoves
  <2>3. /\ wpc'[w] \in {"top_pending", "top_external", "leaving", "gone"} =>
             wpc[w] \in {"top_pending", "top_external", "leaving"} \/ ~running
        /\ wpc'[w] = "top_external" => TopPending(w) /\ pending_tasks = 0
        /\ wpc'[w] \in {"leaving", "gone"} =>
             (wpc[w] = "top_external" /\ external_waiters = 0) \/ wpc[w] = "leaving"
    <3> USE <1>0 DEF TypeOK, WGoto
    <3>1. CASE RunEnter(w) BY <3>1 DEF RunEnter
    <3>2. CASE LockMutex(w) BY <3>2 DEF LockMutex
    <3>3. CASE Top(w) BY <3>3 DEF Top
    <3>4. CASE TopPending(w) BY <3>4 DEF TopPending
    <3>5. CASE TopExternal(w) BY <3>5 DEF TopExternal
    <3>6. CASE RunLeave(w) BY <3>6 DEF RunLeave
    <3>7. CASE DiscardDrain(w) BY <3>7 DEF DiscardDrain
    <3>8. CASE DiscardAnswer(w) BY <3>8 DEF DiscardAnswer
    <3>9. CASE PollOrSleep(w) BY <3>9 DEF PollOrSleep
    <3>10. CASE TakeTask(w) BY <3>10 DEF TakeTask
    <3>11. CASE SkipBucket(w) BY <3>11 DEF SkipBucket
    <3>12. CASE Sleep(w) BY <3>12 DEF Sleep
    <3>13. CASE SleepPending(w) BY <3>13 DEF SleepPending
    <3>14. CASE SleepExternal(w) BY <3>14 DEF SleepExternal
    <3>15. CASE Awake(w) BY <3>15 DEF Awake
    <3>16. CASE FinishTask(w) BY <3>16 DEF FinishTask
    <3>17. CASE ReleaseNotify(w) BY <3>17 DEF ReleaseNotify
    <3> QED BY <1>2, <3>1, <3>2, <3>3, <3>4, <3>5, <3>6, <3>7, <3>8, <3>9, <3>10, <3>11, <3>12,
               <3>13, <3>14, <3>15, <3>16, <3>17 DEF WorkerStep
  <2>4. ASSUME pending_tasks = 0 PROVE \A t \in Tasks : state[t] # "queued"
    BY <1>0, <2>4, NothingQueued DEF Inv
  <2>5. ASSUME w \in scenario.workers, wpc[w] = "top_external", external_waiters = 0, NEW t \in kept
        PROVE  state[t] \in {"running", "done"}
    <3>1. Registered = {}
      BY <1>0, <2>5, NothingRegistered DEF Inv
    <3>2. t \in Parked /\ t \in Tasks
      BY <1>0 DEF TypeOK
    <3>3. spc[t] \notin {"start", "parked", "count", "enqueue", "notify", "unregister"}
      BY <1>0, <3>1, <3>2 DEF Registered, SubmitOK
    <3>4. spc[t] \in {"last", "done"}
      BY <1>0, <3>2, <3>3 DEF TypeOK
    <3>5. state[t] \in Placed
      BY <1>0, <3>2, <3>4 DEF SubmitOK
    <3> QED BY <1>a, <1>b, <2>5, <3>2, <3>4, <3>5 DEF Placed
  <2>6. ASSUME NEW v \in scenario.workers
        PROVE  /\ wpc'[v] \in {"top_pending", "top_external", "leaving", "gone"} => ~running
               /\ wpc'[v] = "top_external" => \A u \in Tasks :
                    spc[u] \in {"unregister", "last", "done"} => state'[u] # "queued"
               /\ wpc'[v] \in {"leaving", "gone"} => \A u \in kept : state'[u] \in {"running", "done"}
    <3>1. CASE v = w
      BY <1>a, <1>b, <2>2, <2>3, <2>4, <2>5, <3>1
    <3>2. CASE v # w
      BY <1>0, <1>a, <1>b, <2>1, <2>2, <3>2
    <3> QED BY <3>1, <3>2
  <2> QED BY <1>0, <2>1, <2>6 DEF LeavingOK
<1>3. ASSUME NEW s \in StopTypes, StopStep(s) PROVE LeavingOK'
  <2>1. StopGently(s)
    BY <1>0, <1>3 DEF StopStep, StopForce, StopHandshake, StopZero, GentleOK
  <2>2. UNCHANGED <<wpc, spc, kept, state>>
    BY <2>1 DEF StopGently, workerVars
  <2>3. ~running => ~running'
    BY <1>0, <2>1 DEF StopGently, GentleOK
  <2> QED BY <1>0, <1>a, <2>2, <2>3 DEF LeavingOK
<1>4. CASE UNCHANGED <<wpc, spc, kept, state, running>>
  BY <1>0, <1>a, <1>4 DEF LeavingOK
<1> QED BY <1>1, <1>2, <1>3, <1>4, Steps

-----------------------------------------------------------------------------
(* Types.                                                                  *)

LEMMA TypeNext == Inv /\ [Next]_vars => TypeOK'
<1> SUFFICES ASSUME Inv, [Next]_vars PROVE TypeOK'
  OBVIOUS
<1>0. /\ TypeOK /\ SubmitOK /\ BucketsOK /\ WorkersOK /\ scenario \in Scenarios
      /\ scenario' = scenario /\ external_waiters' \in Nat
      /\ Buckets' = Buckets /\ Parked' = Parked
  BY ExternalNext, Steps, SubmitFrame, WorkerFrame, StopFrame DEF Inv, Buckets, Bucket, Parked
<1>a. /\ Persistent \in BOOLEAN /\ Parked \subseteq Tasks /\ "FORCE" \in StopTypes
      /\ \A t \in Tasks : Bucket[t] \in Buckets
      /\ FirstBucket \in Buckets /\ \A b \in Buckets : Below(b) # {} => NextBucket(b) \in Buckets
  BY <1>0, Scenery, BucketsIn DEF StopTypes
<1>b. /\ running \in BOOLEAN /\ accept \in BOOLEAN /\ live \in BOOLEAN
      /\ discard_queues_requested \in BOOLEAN /\ consumer \in BOOLEAN
      /\ pending_tasks \in Int
      /\ buckets \in [Buckets -> Seq(Tasks)]
      /\ mutex \in Workers \cup StopTypes \cup {Nobody}
      /\ sleeping \subseteq Workers \cup StopTypes
      /\ scan \in [Workers -> Buckets] /\ kept \subseteq Parked
      /\ wtask \in [Workers -> Tasks \cup {NoTask}]
  BY <1>0 DEF TypeOK
<1>c. ASSUME TypeOK' \/ /\ running' \in BOOLEAN /\ accept' \in BOOLEAN /\ live' \in BOOLEAN
                        /\ discard_queues_requested' \in BOOLEAN /\ consumer' \in BOOLEAN
                        /\ pending_tasks' \in Int
                        /\ buckets' \in [Buckets -> Seq(Tasks)]
                        /\ mutex' \in Workers \cup StopTypes \cup {Nobody}
                        /\ sleeping' \subseteq Workers \cup StopTypes
                        /\ scan' \in [Workers -> Buckets] /\ kept' \subseteq Parked
                        /\ wtask' \in [Workers -> Tasks \cup {NoTask}],
             state' \in [Tasks -> {"new", "accepted", "parked", "queued", "running", "done",
                                   "refused", "discarded"}],
             wpc' \in [Workers -> {"new", "enter", "top", "top_pending", "top_external", "discard",
                                   "discarded", "dequeue", "sleep", "sleep_pending", "sleep_external",
                                   "waiting", "run", "release", "leaving", "gone"}],
             spc' \in [Tasks -> {"start", "parked", "count", "enqueue", "notify", "unregister",
                                 "last", "done"}],
             stop' \in [StopTypes -> {"start", "handshake", "zero", "done"}]
      PROVE  TypeOK'
  BY <1>0, <1>c DEF TypeOK
<1>d. DrainQueues => /\ buckets' \in [Buckets -> Seq(Tasks)]
                     /\ state' \in [Tasks -> {"new", "accepted", "parked", "queued", "running", "done",
                                              "refused", "discarded"}]
  BY <1>0 DEF DrainQueues, TypeOK
<1>1. ASSUME NEW t \in Tasks, SubmitStep(t) PROVE TypeOK'
  <2>1. UNCHANGED <<running, accept, discard_queues_requested, consumer, mutex, wpc, wtask, scan, stop>>
    BY <1>0, <1>1, SubmitFrame
  <2>2. pending_tasks' \in Int /\ buckets' \in [Buckets -> Seq(Tasks)] /\ kept' \subseteq Parked
    <3>1. Append(buckets[Bucket[t]], t) \in Seq(Tasks)
      BY <1>a, <1>b
    <3>2. pending_tasks' \in Int
      <4>1. CASE UNCHANGED pending_tasks
        BY <1>b, <4>1
      <4>2. CASE SubmitCount(t)
        BY <1>b, <4>2 DEF SubmitCount
      <4> QED BY <1>0, <1>1, <4>1, <4>2, SubmitFrame
    <3>3. buckets' \in [Buckets -> Seq(Tasks)]
      <4>1. CASE UNCHANGED buckets
        BY <1>b, <4>1
      <4>2. CASE SubmitEnqueue(t)
        <5>1. PICK b \in Buckets : b = Bucket[t]
          BY <1>a
        <5>2. buckets' = [buckets EXCEPT ![b] = Append(buckets[b], t)]
          BY <4>2, <5>1 DEF SubmitEnqueue
        <5> QED BY <1>b, <3>1, <5>1, <5>2
      <4> QED BY <1>0, <1>1, <4>1, <4>2, SubmitFrame
    <3>4. kept' \subseteq Parked
      BY <1>0, <1>1, <1>b, SubmitFrame DEF Park
    <3> QED BY <3>2, <3>3, <3>4
  <2> USE DEF SubmitStep, SubmitAccept, SubmitCount, SubmitEnqueue, SubmitNotify, Park, Drain,
              Unregister, UnregisterNotify
  <2>3. spc' \in [Tasks -> {"start", "parked", "count", "enqueue", "notify", "unregister",
                            "last", "done"}]
    <3>1. UNCHANGED spc \/ \E l \in {"parked", "count", "enqueue", "notify", "unregister", "last", "done"} :
                               spc' = [spc EXCEPT ![t] = l]
      BY <1>1 DEF SGoto
    <3> QED BY <1>0, <3>1 DEF TypeOK
  <2>4. state' \in [Tasks -> {"new", "accepted", "parked", "queued", "running", "done",
                              "refused", "discarded"}]
    BY <1>0, <1>1 DEF TypeOK
  <2>5. live' \in BOOLEAN
    BY <1>1, <1>b DEF flags
  <2>6. sleeping' \subseteq Workers \cup StopTypes
    BY <1>1, <1>b DEF NotifyOne, NotifyAll
  <2> QED BY <1>0, <1>b, <1>c, <2>1, <2>2, <2>3, <2>4, <2>5, <2>6 DEF TypeOK
<1>2. ASSUME NEW w \in Workers, WorkerStep(w) PROVE TypeOK'
  <2>1. UNCHANGED <<running, accept, spc, stop, kept>>
    BY <1>0, <1>2, WorkerFrame
  <2>2. /\ pending_tasks' \in Int
        /\ buckets' \in [Buckets -> Seq(Tasks)]
        /\ wtask' \in [Workers -> Tasks \cup {NoTask}]
        /\ state' \in [Tasks -> {"new", "accepted", "parked", "queued", "running", "done",
                                 "refused", "discarded"}]
    <3>1. CASE TakeTask(w)
      <4>1. PICK b \in Buckets : b = scan[w]
        BY <1>b
      <4>2. /\ Tail(buckets[b]) \in Seq(Tasks)
            /\ Append(Tail(buckets[b]), Head(buckets[b])) \in Seq(Tasks)
        <5>1. buckets[b] # <<>>
          BY <3>1, <4>1 DEF TakeTask
        <5> QED BY <1>0, <5>1, HeadIn
      <4>3. CASE /\ UNCHANGED <<state, wtask, pending_tasks>>
                 /\ buckets' = [buckets EXCEPT ![b] = Append(Tail(buckets[b]), Head(buckets[b]))]
        <5>1. buckets' \in [Buckets -> Seq(Tasks)]
          BY <1>b, <4>2, <4>3
        <5> QED BY <1>0, <1>b, <4>3, <5>1 DEF TypeOK
      <4>4. ASSUME NEW t \in Tasks,
                   state' = [state EXCEPT ![t] = "running"], wtask' = [wtask EXCEPT ![w] = t],
                   pending_tasks' = pending_tasks - 1,
                   buckets' = [buckets EXCEPT ![b] = Tail(buckets[b])]
            PROVE  /\ pending_tasks' \in Int
                   /\ buckets' \in [Buckets -> Seq(Tasks)]
                   /\ wtask' \in [Workers -> Tasks \cup {NoTask}]
                   /\ state' \in [Tasks -> {"new", "accepted", "parked", "queued", "running",
                                            "done", "refused", "discarded"}]
        <5>1. buckets' \in [Buckets -> Seq(Tasks)]
          BY <1>b, <4>2, <4>4
        <5>2. pending_tasks' \in Int /\ wtask' \in [Workers -> Tasks \cup {NoTask}]
          BY <1>b, <4>4
        <5>3. state' \in [Tasks -> {"new", "accepted", "parked", "queued", "running", "done",
                                    "refused", "discarded"}]
          BY <1>0, <4>4 DEF TypeOK
        <5> QED BY <5>1, <5>2, <5>3
      <4> QED BY <1>0, <3>1, <4>1, <4>3, <4>4, TakeMoves
    <3>2. CASE DiscardDrain(w)
      BY <1>b, <1>d, <3>2 DEF DiscardDrain, counts
    <3>3. CASE DiscardAnswer(w)
      BY <1>0, <1>b, <3>3 DEF DiscardAnswer, TypeOK
    <3>4. CASE FinishTask(w)
      BY <1>0, <1>b, <3>4 DEF FinishTask, counts, TypeOK
    <3>5. CASE ~TakeTask(w) /\ ~DiscardDrain(w) /\ ~DiscardAnswer(w) /\ ~FinishTask(w)
      BY <1>0, <1>2, <1>b, <3>5, WorkerFrame, RunMoves DEF TypeOK
    <3> QED BY <3>1, <3>2, <3>3, <3>4, <3>5
  <2> USE DEF WorkerStep, RunEnter, LockMutex, Top, TopPending, TopExternal, RunLeave, DiscardDrain,
              DiscardAnswer, PollOrSleep, TakeTask, SkipBucket, Sleep, SleepPending, SleepExternal,
              Awake, FinishTask, ReleaseNotify
  <2>3. wpc' \in [Workers -> {"new", "enter", "top", "top_pending", "top_external", "discard",
                              "discarded", "dequeue", "sleep", "sleep_pending", "sleep_external",
                              "waiting", "run", "release", "leaving", "gone"}]
    <3>1. UNCHANGED wpc \/ \E l \in {"enter", "top", "top_pending", "top_external", "discard", "discarded",
                                    "dequeue", "sleep", "sleep_pending", "sleep_external", "waiting",
                                    "run", "release", "leaving", "gone"} :
                               wpc' = [wpc EXCEPT ![w] = l]
      BY <1>2 DEF WGoto
    <3> QED BY <1>0, <3>1 DEF TypeOK
  <2>4. live' \in BOOLEAN /\ discard_queues_requested' \in BOOLEAN /\ consumer' \in BOOLEAN
    BY <1>2, <1>b DEF flags
  <2>5. sleeping' \subseteq Workers \cup StopTypes
    BY <1>2, <1>b DEF NotifyOne, NotifyAll
  <2>6. mutex' \in Workers \cup StopTypes \cup {Nobody}
    BY <1>2, <1>b
  <2>7. scan' \in [Workers -> Buckets]
    BY <1>2, <1>a, <1>b
  <2> QED BY <1>0, <1>b, <1>c, <2>1, <2>2, <2>3, <2>4, <2>5, <2>6, <2>7 DEF TypeOK
<1>3. ASSUME NEW s \in StopTypes, StopStep(s) PROVE TypeOK'
  <2>1. UNCHANGED <<wpc, wtask, scan, spc, kept>>
    BY <1>0, <1>3, StopFrame
  <2>2. buckets' \in [Buckets -> Seq(Tasks)]
        /\ state' \in [Tasks -> {"new", "accepted", "parked", "queued", "running", "done",
                                 "refused", "discarded"}]
    BY <1>0, <1>3, <1>d, StopFrame DEF TypeOK
  <2> USE DEF StopStep, StopGently, StopForce, StopHandshake, StopZero
  <2>3. /\ running' \in BOOLEAN /\ accept' \in BOOLEAN /\ live' \in BOOLEAN
        /\ discard_queues_requested' \in BOOLEAN /\ consumer' \in BOOLEAN
    BY <1>3, <1>a, <1>b DEF flags
  <2>4. pending_tasks' \in Int
    <3>1. CASE StopGently(s) BY <1>b, <3>1 DEF counts
    <3>2. CASE StopForce(s) BY <1>b, <3>2 DEF counts
    <3>3. CASE StopHandshake(s) BY <1>b, <3>3 DEF counts
    <3>4. CASE StopZero(s) BY <1>b, <3>4 DEF counts
    <3> QED BY <1>3, <3>1, <3>2, <3>3, <3>4
  <2>5. mutex' \in Workers \cup StopTypes \cup {Nobody} /\ sleeping' \subseteq Workers \cup StopTypes
    BY <1>3, <1>a, <1>b DEF NotifyAll
  <2>6. stop' \in [StopTypes -> {"start", "handshake", "zero", "done"}]
    BY <1>0, <1>3 DEF StopGoto, TypeOK
  <2> QED BY <1>0, <1>b, <1>c, <2>1, <2>2, <2>3, <2>4, <2>5, <2>6 DEF TypeOK
<1>4. CASE /\ UNCHANGED <<scenario, running, accept, live, discard_queues_requested, consumer>>
           /\ UNCHANGED <<pending_tasks, external_waiters, buckets, mutex, state>>
           /\ UNCHANGED <<wpc, wtask, scan, spc, stop, kept>>
           /\ sleeping' \subseteq sleeping
  BY <1>0, <1>b, <1>c, <1>4 DEF TypeOK
<1> QED BY <1>1, <1>2, <1>3, <1>4, Steps

-----------------------------------------------------------------------------
(* The theorems.                                                           *)

LEMMA InitInv == Init => Inv
<1> SUFFICES ASSUME Init PROVE Inv
  OBVIOUS
<1>1. /\ scenario \in Scenarios /\ Buckets \subseteq Nat /\ FirstBucket \in Buckets
      /\ Parked \subseteq Tasks /\ scenario.workers \subseteq Workers
  BY Scenery, BucketsIn DEF Init
<1>2. TypeOK
  <2> USE <1>1 DEF Init
  <2>1. {running, accept, live, discard_queues_requested, consumer} \subseteq BOOLEAN
    OBVIOUS
  <2>9. /\ pending_tasks \in Int /\ external_waiters \in Nat
        /\ mutex \in Workers \cup StopTypes \cup {Nobody}
        /\ sleeping \subseteq Workers \cup StopTypes /\ kept \subseteq Parked
    OBVIOUS
  <2>2. <<>> \in Seq(Tasks)
    OBVIOUS
  <2>3. buckets \in [Buckets -> Seq(Tasks)] /\ scan \in [Workers -> Buckets]
    BY <2>2
  <2>4. wtask \in [Workers -> Tasks \cup {NoTask}]
    OBVIOUS
  <2>5. state \in [Tasks -> {"new", "accepted", "parked", "queued", "running", "done",
                             "refused", "discarded"}]
    OBVIOUS
  <2>6. wpc \in [Workers -> {"new", "enter", "top", "top_pending", "top_external", "discard",
                             "discarded", "dequeue", "sleep", "sleep_pending", "sleep_external",
                             "waiting", "run", "release", "leaving", "gone"}]
    OBVIOUS
  <2>7. spc \in [Tasks -> {"start", "parked", "count", "enqueue", "notify", "unregister",
                           "last", "done"}]
    OBVIOUS
  <2>8. stop \in [StopTypes -> {"start", "handshake", "zero", "done"}]
    OBVIOUS
  <2> QED BY <2>1, <2>3, <2>4, <2>5, <2>6, <2>7, <2>8, <2>9 DEF TypeOK
<1>3. SubmitOK /\ WorkersOK /\ MutexOK /\ GentleOK
  BY <1>1 DEF Init, SubmitOK, WorkersOK, MutexOK, Inside, GentleOK, NoForce, StopTypes
<1>4. BucketsOK
  <2>1. \A b \in Buckets : 1 .. Len(buckets[b]) = {}
    BY DEF Init
  <2> QED BY <2>1 DEF BucketsOK
<1>5. Cardinality({}) = 0
  BY FS_EmptySet
<1>6. ExternalOK
  <2>1. Registered = {}
    BY <1>1 DEF Init, Registered
  <2> QED BY <1>5, <2>1 DEF Init, ExternalOK
<1>7. PendingAccounting
  <2>1. {t \in Tasks : state[t] = "queued"} = {} /\ {t \in Tasks : spc[t] = "enqueue"} = {}
    BY DEF Init
  <2>2. pending_tasks = 0
    BY DEF Init
  <2> QED BY <1>5, <2>1, <2>2 DEF PendingAccounting
<1>8. LeavingOK
  BY <1>1 DEF Init, LeavingOK
<1> QED BY <1>1, <1>2, <1>3, <1>4, <1>6, <1>7, <1>8 DEF Inv

\* The invariant holds of every behaviour of a pool.
THEOREM Invariance == Spec => []Inv
<1>1. Inv /\ [Next]_vars => Inv'
  <2> SUFFICES ASSUME Inv, [Next]_vars PROVE Inv'
    OBVIOUS
  <2>1. scenario' \in Scenarios
    BY Steps, SubmitFrame, WorkerFrame, StopFrame DEF Inv
  <2> QED BY <2>1, TypeNext, SubmitNext, BucketsNext, WorkersNext, MutexNext, ExternalNext,
             PendingNext, GentleNext, LeavingNext DEF Inv
<1> QED BY <1>1, InitInv, PTL DEF Spec

\* Whatever the workers, submitters and stops of a pool do between one another's
\* atomics, pending_tasks is the number of tasks between submit and dequeue.
THEOREM AccountingHolds == Spec => []Accounting
<1>1. Inv => Accounting
  BY DEF Inv, Accounting
<1> QED BY <1>1, Invariance, PTL

\* No worker of a pool leaves get_task for good before the tasks that were parked
\* while the pool was running have been run.
THEOREM KeptTasksRunHolds == Spec => []KeptTasksRun
<1>1. ASSUME Inv PROVE KeptTasksRun
  <2> SUFFICES ASSUME NoForce, AllGone, NEW t \in kept PROVE state[t] = "done"
    BY DEF KeptTasksRun, NoForce
  <2>1. PICK w \in scenario.workers : w \in Workers
    BY <1>1, Scenery DEF Inv
  <2>2. t \in Tasks
    BY <1>1, Scenery DEF Inv, TypeOK
  <2>3. state[t] \in {"running", "done"}
    BY <1>1, <2>1 DEF Inv, LeavingOK, AllGone
  <2>4. state[t] # "running"
    BY <1>1, <2>2 DEF Inv, WorkersOK, AllGone
  <2> QED BY <2>3, <2>4
<1> QED BY <1>1, Invariance, PTL
=============================================================================

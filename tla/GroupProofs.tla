---------------------------- MODULE GroupProofs ----------------------------
(***************************************************************************)
(* Proofs about Group, for any groups, tasks, priorities and concurrency.  *)
(***************************************************************************)
EXTENDS Group, FiniteSetTheorems, WellFoundedInduction, TLAPS

-----------------------------------------------------------------------------
(* The operators the actions are built from.                               *)

\* The walk over a task's groups (CombinedLock) starts and continues at a
\* group of the set it walks.
LEMMA FirstIn ==
  ASSUME NEW S, S \subseteq Nat, S # {}
  PROVE  First(S) \in S
<1> DEFINE R == {ss \in Nat \X Nat : ss[1] < ss[2]}
<1>1. IsWellFoundedOn(R, Nat)
  BY NatLessThanWellFounded DEF OpToRel
<1>2. \E x \in S : \A y \in S : <<y, x>> \notin R
  <2> HIDE DEF R
  <2> QED BY <1>1, WFMin
<1>3. \A x, y \in Nat : y < x => <<y, x>> \in R
  OBVIOUS
<1>4. PICK x \in S : \A y \in S : ~(y < x)
  <2> HIDE DEF R
  <2> QED BY <1>2, <1>3
<1>5. \A y \in S : x <= y
  BY <1>4
<1> QED
  BY <1>5 DEF First

\* The buckets of the waiters' priorities are numbered.
LEMMA BucketsNat == Buckets \subseteq Nat
  BY PriorityAssumption DEF Buckets, priority_index

-----------------------------------------------------------------------------
(* The inductive invariant, in named parts.                                *)

\* Labels only the submitting thread of a task reaches, only a single-group
\* task, and only a multi-group one.
SubmitLabels == {"start", "ta_check", "ta_take", "ta_recheck", "ts_check", "ts_take",
                 "ts_recheck", "hand", "publish", "rc_sub", "rc_slow", "rc_slot",
                 "rc_slot_free", "slow_add", "slow_insert"}
FastLabels == {"ta_check", "ta_take", "ta_recheck", "ts_check", "ts_take",
               "ts_recheck", "publish", "rc_sub", "rc_slow", "rc_slot",
               "rc_slot_free", "rel_add", "rel_slow", "notify_slow"}
SlowLabels == {"slow_add", "slow_insert", "lock", "lock_take", "dtor", "dtor_walk",
               "dtor_pending", "dtor_spare", "dtor_next"}

\* Each thread is at a label of its role and of its task's path, and returns
\* to one.
RolesOK ==
  \A p \in Threads :
    /\ pc[p] \in SubmitLabels => p[2] = "submit"
    /\ pc[p] = "wait" => p[2] = "run"
    /\ ret[p] \in {"ts_check", "publish"} => p[2] = "submit"
    /\ pc[p] \in FastLabels => p[1] \in Fast
    /\ pc[p] \in SlowLabels => p[1] \in Slow
    /\ ret[p] \in {"ts_check", "publish"} => p[1] \in Fast
    /\ ret[p] = "dtor_next" => p[1] \in Slow

\* A thread works on a group of its task.
GroupOK == \A p \in Threads : grp[p] \in TaskGroups[p[1]]

\* The submitter of a single-group task has not let go of it: it is taking a
\* token, parking it, or restoring a token to do so afterwards.
BeforeParking(t) ==
  LET p == Submitter(t) IN
  \/ pc[p] \in {"ta_check", "ta_take", "ta_recheck", "ts_check", "ts_take",
                "ts_recheck", "hand", "publish"}
  \/ /\ pc[p] \in {"rel_add", "rel_slow", "notify_slow", "notify", "drain", "claim", "pay"}
     /\ ret[p] \in {"ts_check", "publish"}

\* Where a single-group task is, by where its threads are.
ProgressOK ==
  \A t \in Fast :
    /\ pc[Submitter(t)] = "start" => state[t] = "new" /\ ~slot[t]
    /\ BeforeParking(t) => state[t] = "submitting" /\ ~slot[t]
    /\ pc[Submitter(t)] \in {"rc_sub", "rc_slow", "rc_slot", "rc_slot_free"} /\ ~slot[t]
         => state[t] \in {"parked", "drained"}
    /\ pc[Submitter(t)] = "run" => state[t] = "running"
    /\ pc[Worker(t)] = "run" => state[t] = "running"
    /\ ~(pc[Submitter(t)] = "run" /\ pc[Worker(t)] = "run")

\* A bucket holds parked single-group tasks of its group and priority, once.
WaitsIn(t, g, b) ==
  /\ t \in Fast
  /\ TaskGroups[t] = {g}
  /\ priority_index(Priority[t]) = b
  /\ state[t] = "parked"
BucketsOK ==
  \A g \in Groups, b \in Buckets : \A i \in 1 .. Len(wait_buckets[g][b]) :
    /\ WaitsIn(wait_buckets[g][b][i], g, b)
    /\ \A j \in 1 .. Len(wait_buckets[g][b]) :
         wait_buckets[g][b][j] = wait_buckets[g][b][i] => i = j

\* An entry dequeued and not claimed yet belongs to one drain.
EntriesOK ==
  \A p \in Threads : pc[p] = "claim" =>
    /\ entry[p] \in Fast
    /\ TaskGroups[entry[p]] = {grp[p]}
    /\ state[entry[p]] = "drained"
    /\ \A q \in Threads : pc[q] = "claim" /\ entry[q] = entry[p] => p = q

\* Only a drained single-group task leaves a decrement owing.
PayOK ==
  \A p \in Threads : pc[p] = "pay" => \E t \in Fast : TaskGroups[t] = {grp[p]}

\* The threads inside a mutex scope hold the mutex.
MutexOK ==
  \A p \in Threads : pc[p] \in {"lock_take", "dtor_walk"} => mutex[grp[p]] = p

\* GroupLock::lock takes a lock it does not have ...
TakeOK ==
  \A p \in Threads : pc[p] = "lock_take" => grp[p] \notin locked[p[1]]

\* ... and, where no single-group task uses the group, a token that is there.
MultiGroupOnly(g) == \A t \in Fast : TaskGroups[t] # {g}
TokenThere ==
  \A p \in Threads : pc[p] = "lock_take" /\ MultiGroupOnly(grp[p]) => tokens[grp[p]] > 0

Shape ==
  /\ RolesOK /\ GroupOK /\ ProgressOK /\ BucketsOK /\ EntriesOK /\ PayOK
  /\ MutexOK /\ TakeOK /\ TokenThere

-----------------------------------------------------------------------------
(* Type correctness.                                                       *)

\* First, where the code takes it: of a task's groups, of those after a
\* group, of the buckets.
LEMMA FirstGroups ==
  ASSUME NEW t \in Tasks
  PROVE  /\ First(TaskGroups[t]) \in TaskGroups[t]
         /\ TaskGroups[t] \subseteq Groups
         /\ \A g \in Groups : Later(t, g) # {} => First(Later(t, g)) \in TaskGroups[t]
<1>1. TaskGroups[t] \subseteq Nat /\ TaskGroups[t] # {} /\ TaskGroups[t] \subseteq Groups
  BY TaskGroupsAssumption, GroupsAssumption
<1>2. First(TaskGroups[t]) \in TaskGroups[t]
  BY <1>1, FirstIn
<1>3. ASSUME NEW g \in Groups, Later(t, g) # {}
      PROVE  First(Later(t, g)) \in TaskGroups[t]
  <2>1. Later(t, g) \subseteq TaskGroups[t] BY DEF Later
  <2> QED BY <1>1, <1>3, <2>1, FirstIn
<1> QED BY <1>1, <1>2, <1>3

LEMMA FirstBuckets ==
  /\ Tasks # {} => FirstBucket \in Buckets
  /\ \A b \in Buckets : LET rest == {c \in Buckets : c > b} IN
       rest # {} => First(rest) \in rest
<1>1. Tasks # {} => FirstBucket \in Buckets
  <2>1. Tasks # {} => Buckets # {} BY DEF Buckets
  <2> QED BY <2>1, BucketsNat, FirstIn DEF FirstBucket
<1>2. ASSUME NEW b \in Buckets, {c \in Buckets : c > b} # {}
      PROVE  First({c \in Buckets : c > b}) \in {c \in Buckets : c > b}
  BY <1>2, BucketsNat, FirstIn
<1> QED BY <1>1, <1>2

LEMMA ThreadsOf ==
  /\ \A p \in Threads : p[1] \in Tasks /\ p[2] \in {"submit", "run"}
  /\ \A t \in Tasks : Submitter(t) \in Threads /\ Worker(t) \in Threads
  BY DEF Threads, Submitter, Worker

\* The program counters, one by one: the proofs below need no more of the set.
LEMMA LabelsIn ==
  /\ "start" \in Labels /\ "wait" \in Labels /\ "done" \in Labels /\ "run" \in Labels
  /\ "ta_check" \in Labels /\ "ta_take" \in Labels /\ "ta_recheck" \in Labels /\ "ts_check" \in Labels
  /\ "ts_take" \in Labels /\ "ts_recheck" \in Labels /\ "hand" \in Labels /\ "publish" \in Labels
  /\ "rc_sub" \in Labels /\ "rc_slow" \in Labels /\ "rc_slot" \in Labels /\ "rc_slot_free" \in Labels
  /\ "rel_add" \in Labels /\ "rel_slow" \in Labels /\ "notify_slow" \in Labels /\ "notify" \in Labels
  /\ "drain" \in Labels /\ "claim" \in Labels /\ "pay" \in Labels /\ "slow_add" \in Labels
  /\ "slow_insert" \in Labels /\ "lock" \in Labels /\ "lock_take" \in Labels /\ "dtor" \in Labels
  /\ "dtor_walk" \in Labels /\ "dtor_pending" \in Labels /\ "dtor_spare" \in Labels /\ "dtor_next" \in Labels
  BY DEF Labels

LEMMA TypeInit == Init => TypeOK
<1> SUFFICES ASSUME Init PROVE TypeOK OBVIOUS
<1>1. grp \in [Threads -> Groups]
  BY FirstGroups, ThreadsOf DEF Init
<1>2. scan \in [Threads -> Buckets]
  BY FirstBuckets, ThreadsOf DEF Init
<1> QED
  BY <1>1, <1>2, ConcurrencyAssumption, LabelsIn DEF Init, TypeOK, States

LEMMA TaskOf == \A p \in Threads : p[1] \in Tasks
  BY DEF Threads

\* A thread works on a group, and goes on to one.
LEMMA GroupsOf ==
  ASSUME TypeOK, NEW p \in Threads
  PROVE  /\ p[1] \in Tasks
         /\ grp[p] \in Groups
         /\ First(TaskGroups[p[1]]) \in Groups
         /\ Later(p[1], grp[p]) # {} => First(Later(p[1], grp[p])) \in Groups
<1>1. p[1] \in Tasks /\ grp[p] \in Groups
  BY TaskOf DEF TypeOK
<1> QED BY <1>1, FirstGroups

\* What release and drain return to is a label.
LEMMA ReturnIn ==
  ASSUME TypeOK, NEW p \in Threads
  PROVE  ret[p] \in Labels
  BY LabelsIn DEF TypeOK

LEMMA BucketType ==
  ASSUME TypeOK, NEW g \in Groups, NEW b \in Buckets
  PROVE  /\ wait_buckets[g][b] \in Seq(Tasks)
         /\ wait_buckets[g][b] # <<>> => /\ Head(wait_buckets[g][b]) \in Tasks
                                         /\ Tail(wait_buckets[g][b]) \in Seq(Tasks)
<1>1. wait_buckets[g][b] \in Seq(Tasks) BY DEF TypeOK
<1> QED BY <1>1

\* A drain scans buckets, in order.
LEMMA ScanIn ==
  ASSUME TypeOK, NEW p \in Threads
  PROVE  /\ scan[p] \in Buckets
         /\ FirstBucket \in Buckets
         /\ {c \in Buckets : c > scan[p]} # {}
              => First({c \in Buckets : c > scan[p]}) \in Buckets
<1>1. scan[p] \in Buckets /\ Tasks # {}
  BY TaskOf DEF TypeOK
<1> QED BY <1>1, FirstBuckets

\* Every step preserves the types.
LEMMA TypeNext == TypeOK /\ [Next]_vars => TypeOK'
<1> SUFFICES ASSUME TypeOK, [Next]_vars PROVE TypeOK' OBVIOUS
<1>0. /\ pc \in [Threads -> Labels] /\ grp \in [Threads -> Groups]
      /\ ret \in [Threads -> {"done", "ts_check", "publish", "dtor_next"}]
  BY DEF TypeOK
<1>1. ASSUME NEW t \in Tasks, Submit(t) PROVE TypeOK'
  <2>1. state' \in [Tasks -> States]
    BY <1>1, TaskOf DEF Submit, TypeOK, States
  <2>2. pc' \in [Threads -> Labels]
    BY <1>0, <1>1, LabelsIn DEF Submit, Goto
  <2> QED BY <1>1, <2>1, <2>2 DEF Submit, TypeOK, handleVars, groupVars, localVars
<1>2. ASSUME NEW t \in Tasks, StopPool(t) PROVE TypeOK'
  <2>1. accept' \in [Tasks -> BOOLEAN]
    BY <1>2 DEF StopPool, TypeOK
  <2> QED BY <1>2, <2>1 DEF StopPool, TypeOK, handleVars, groupVars, localVars
<1>3. ASSUME NEW p \in Threads, Discard(p) PROVE TypeOK'
  <2>1. accept' \in [Tasks -> BOOLEAN]
    BY <1>3 DEF Discard, TypeOK
  <2>2. state' \in [Tasks -> States]
    BY <1>3, TaskOf DEF Discard, TypeOK, States
  <2>3. pc' \in [Threads -> Labels]
    BY <1>0, <1>3, LabelsIn DEF Discard, Goto, Call
  <2>4. ret' \in [Threads -> {"done", "ts_check", "publish", "dtor_next"}]
    BY <1>0, <1>3 DEF Discard, Call
  <2> QED BY <1>3, <2>1, <2>2, <2>3, <2>4 DEF Discard, TypeOK, handleVars, groupVars
<1>4. ASSUME NEW p \in Threads, TryAcquireCheck(p) PROVE TypeOK'
  <2>1. pc' \in [Threads -> Labels]
    BY <1>0, <1>4, LabelsIn DEF TryAcquireCheck, Goto
  <2> QED BY <1>4, <2>1 DEF TryAcquireCheck, TypeOK, groupVars, handleVars, poolVars, localVars
<1>5. ASSUME NEW p \in Threads, TryAcquireTake(p) PROVE TypeOK'
  <2>1. tokens' \in [Groups -> Int]
    BY <1>5 DEF TryAcquireTake, TypeOK
  <2>2. pc' \in [Threads -> Labels]
    BY <1>0, <1>5, LabelsIn DEF TryAcquireTake, Goto
  <2> QED BY <1>5, <2>1, <2>2 DEF TryAcquireTake, TypeOK, handleVars, poolVars, localVars
<1>6. ASSUME NEW p \in Threads, TryAcquireRecheck(p) PROVE TypeOK'
  <2>1. pc' \in [Threads -> Labels]
    BY <1>0, <1>6, LabelsIn DEF TryAcquireRecheck, Goto, Call
  <2>2. ret' \in [Threads -> {"done", "ts_check", "publish", "dtor_next"}]
    BY <1>0, <1>6 DEF TryAcquireRecheck, Call
  <2>3. state' \in [Tasks -> States]
    BY <1>6, TaskOf DEF TryAcquireRecheck, TypeOK, States
  <2> QED BY <1>6, <2>1, <2>2, <2>3 DEF TryAcquireRecheck, TypeOK, groupVars, handleVars
<1>7. ASSUME NEW p \in Threads, TrySubmitCheck(p) PROVE TypeOK'
  <2>1. pc' \in [Threads -> Labels]
    BY <1>0, <1>7, LabelsIn DEF TrySubmitCheck, Goto
  <2> QED BY <1>7, <2>1 DEF TrySubmitCheck, TypeOK, groupVars, handleVars, poolVars, localVars
<1>8. ASSUME NEW p \in Threads, TrySubmitTake(p) PROVE TypeOK'
  <2>1. tokens' \in [Groups -> Int]
    BY <1>8 DEF TrySubmitTake, TypeOK
  <2>2. pc' \in [Threads -> Labels]
    BY <1>0, <1>8, LabelsIn DEF TrySubmitTake, Goto
  <2> QED BY <1>8, <2>1, <2>2 DEF TrySubmitTake, TypeOK, handleVars, poolVars, localVars
<1>9. ASSUME NEW p \in Threads, TrySubmitRecheck(p) PROVE TypeOK'
  <2>1. pc' \in [Threads -> Labels]
    BY <1>0, <1>9, LabelsIn DEF TrySubmitRecheck, Goto, Call
  <2>2. ret' \in [Threads -> {"done", "ts_check", "publish", "dtor_next"}]
    BY <1>0, <1>9 DEF TrySubmitRecheck, Call
  <2> QED BY <1>9, <2>1, <2>2 DEF TrySubmitRecheck, TypeOK, groupVars, handleVars, poolVars
<1>10. ASSUME NEW p \in Threads, HandToPool(p) PROVE TypeOK'
  <2>1. p[1] \in Tasks /\ grp[p] \in Groups /\ First(TaskGroups[p[1]]) \in Groups
    BY GroupsOf
  <2>2. state' \in [Tasks -> States]
    BY <1>10, <2>1 DEF HandToPool, TypeOK, States
  <2>3. live' \in [Tasks -> BOOLEAN]
    BY <1>10, <2>1 DEF HandToPool, TypeOK
  <2>4. pc' \in [Threads -> Labels]
    BY <1>0, <1>10, LabelsIn DEF HandToPool, Goto, Call
  <2>5. ret' \in [Threads -> {"done", "ts_check", "publish", "dtor_next"}]
    BY <1>0, <1>10 DEF HandToPool, Call
  <2>6. grp' \in [Threads -> Groups]
    BY <1>0, <1>10, <2>1 DEF HandToPool
  <2> QED BY <1>10, <2>2, <2>3, <2>4, <2>5, <2>6 DEF HandToPool, TypeOK, groupVars, handleVars
<1>11. ASSUME NEW p \in Threads, ParkPublish(p) PROVE TypeOK'
  <2>1. /\ p[1] \in Tasks /\ grp[p] \in Groups
        /\ priority_index(Priority[p[1]]) \in Buckets
    BY GroupsOf DEF Buckets
  <2>2. wait_buckets' \in [Groups -> [Buckets -> Seq(Tasks)]]
    <3> DEFINE g == grp[p]
               b == priority_index(Priority[p[1]])
    <3>1. /\ wait_buckets[g][b] \in Seq(Tasks)
          /\ wait_buckets' = [wait_buckets EXCEPT ![g][b] = Append(@, p[1])]
      BY <1>11, <2>1, BucketType DEF ParkPublish
    <3>2. Append(wait_buckets[g][b], p[1]) \in Seq(Tasks)
      BY <2>1, <3>1
    <3> QED BY <2>1, <3>1, <3>2 DEF TypeOK
  <2>3. state' \in [Tasks -> States]
    BY <1>11, <2>1 DEF ParkPublish, TypeOK, States
  <2>4. pc' \in [Threads -> Labels]
    BY <1>0, <1>11, LabelsIn DEF ParkPublish, Goto
  <2> QED BY <1>11, <2>2, <2>3, <2>4 DEF ParkPublish, TypeOK, handleVars, localVars
<1>12. ASSUME NEW p \in Threads, ReconcileReserve(p) PROVE TypeOK'
  <2>1. tokens' \in [Groups -> Int]
    BY <1>12 DEF ReconcileReserve, TypeOK
  <2>2. pc' \in [Threads -> Labels]
    BY <1>0, <1>12, LabelsIn DEF ReconcileReserve, Goto
  <2> QED BY <1>12, <2>1, <2>2 DEF ReconcileReserve, TypeOK, handleVars, poolVars, localVars
<1>13. ASSUME NEW p \in Threads, ReconcileYield(p) PROVE TypeOK'
  <2>1. pc' \in [Threads -> Labels]
    BY <1>0, <1>13, LabelsIn DEF ReconcileYield, Goto, Call
  <2>2. ret' \in [Threads -> {"done", "ts_check", "publish", "dtor_next"}]
    BY <1>0, <1>13 DEF ReconcileYield, Call
  <2> QED BY <1>13, <2>1, <2>2 DEF ReconcileYield, TypeOK, groupVars, handleVars, poolVars
<1>14. ASSUME NEW p \in Threads, ReconcileClaim(p) PROVE TypeOK'
  <2>1. slot' \in [Tasks -> BOOLEAN]
    BY <1>14, TaskOf DEF ReconcileClaim, TypeOK
  <2>2. pc' \in [Threads -> Labels]
    BY <1>0, <1>14, LabelsIn DEF ReconcileClaim, Goto, Call
  <2>3. ret' \in [Threads -> {"done", "ts_check", "publish", "dtor_next"}]
    BY <1>0, <1>14 DEF ReconcileClaim, Call
  <2> QED BY <1>14, <2>1, <2>2, <2>3 DEF ReconcileClaim, TypeOK, groupVars, poolVars
<1>15. ASSUME NEW p \in Threads, ReleaseAdd(p) PROVE TypeOK'
  <2>1. tokens' \in [Groups -> Int]
    BY <1>15 DEF ReleaseAdd, TypeOK
  <2>2. pc' \in [Threads -> Labels]
    BY <1>0, <1>15, LabelsIn DEF ReleaseAdd, Goto
  <2> QED BY <1>15, <2>1, <2>2 DEF ReleaseAdd, TypeOK, handleVars, poolVars, localVars
<1>16. ASSUME NEW p \in Threads, ReleaseChoose(p) PROVE TypeOK'
  <2>1. pc' \in [Threads -> Labels]
    BY <1>0, <1>16, LabelsIn DEF ReleaseChoose, Goto
  <2> QED BY <1>16, <2>1 DEF ReleaseChoose, TypeOK, groupVars, handleVars, poolVars, localVars
<1>17. ASSUME NEW p \in Threads, NotifySlowPath(p) PROVE TypeOK'
  <2>1. notified' \in [Tasks -> SUBSET Groups]
    BY <1>17 DEF NotifySlowPath, TypeOK, Notifiable
  <2>2. to_notify' \in [Threads -> SUBSET Tasks]
    BY <1>17 DEF NotifySlowPath, TypeOK, Notifiable
  <2>3. pc' \in [Threads -> Labels]
    BY <1>0, <1>17, LabelsIn DEF NotifySlowPath, Goto
  <2> QED BY <1>17, <2>1, <2>2, <2>3 DEF NotifySlowPath, TypeOK, groupVars, poolVars
<1>18. ASSUME NEW p \in Threads, DrainScan(p) PROVE TypeOK'
  <2>1. /\ grp[p] \in Groups /\ scan[p] \in Buckets /\ FirstBucket \in Buckets
        /\ {c \in Buckets : c > scan[p]} # {}
             => First({c \in Buckets : c > scan[p]}) \in Buckets
        /\ wait_buckets[grp[p]][scan[p]] # <<>>
             => /\ Head(wait_buckets[grp[p]][scan[p]]) \in Tasks
                /\ Tail(wait_buckets[grp[p]][scan[p]]) \in Seq(Tasks)
    BY GroupsOf, ScanIn, BucketType
  <2>2. wait_buckets' \in [Groups -> [Buckets -> Seq(Tasks)]]
    <3> DEFINE g == grp[p]
               b == scan[p]
    <3>1. CASE wait_buckets[g][b] # <<>>
      <4>1. wait_buckets' = [wait_buckets EXCEPT ![g][b] = Tail(@)]
        BY <1>18, <3>1 DEF DrainScan
      <4> QED BY <2>1, <3>1, <4>1 DEF TypeOK
    <3>2. CASE wait_buckets[g][b] = <<>>
      BY <1>18, <3>2 DEF DrainScan, TypeOK
    <3> QED BY <3>1, <3>2
  <2>3. state' \in [Tasks -> States]
    BY <1>18, <2>1 DEF DrainScan, TypeOK, States
  <2>4. pc' \in [Threads -> Labels]
    BY <1>0, <1>18, LabelsIn, ReturnIn DEF DrainScan, Goto, Return
  <2>5. scan' \in [Threads -> Buckets]
    BY <1>18, <2>1 DEF DrainScan, TypeOK
  <2>6. entry' \in [Threads -> Tasks \cup {NoTask}]
    BY <1>18, <2>1 DEF DrainScan, TypeOK
  <2> QED BY <1>18, <2>2, <2>3, <2>4, <2>5, <2>6 DEF DrainScan, TypeOK, handleVars
<1>19. ASSUME NEW p \in Threads, DrainClaim(p) PROVE TypeOK'
  <2>1. slot' \in [Tasks -> BOOLEAN]
    BY <1>19, TaskOf DEF DrainClaim, TypeOK
  <2>2. state' \in [Tasks -> States]
    BY <1>19, TaskOf DEF DrainClaim, TypeOK, States
  <2>3. live' \in [Tasks -> BOOLEAN]
    BY <1>19, TaskOf DEF DrainClaim, TypeOK
  <2>4. entry' \in [Threads -> Tasks \cup {NoTask}]
    BY <1>19, TaskOf DEF DrainClaim, TypeOK
  <2>5. pc' \in [Threads -> Labels]
    BY <1>0, <1>19, LabelsIn, ReturnIn DEF DrainClaim, Goto, Return
  <2> QED BY <1>19, <2>1, <2>2, <2>3, <2>4, <2>5 DEF DrainClaim, TypeOK, groupVars
<1>20. ASSUME NEW p \in Threads, DrainPay(p) PROVE TypeOK'
  <2>1. tokens' \in [Groups -> Int]
    BY <1>20 DEF DrainPay, TypeOK
  <2>2. pc' \in [Threads -> Labels]
    BY <1>0, <1>20, LabelsIn, ReturnIn DEF DrainPay, Goto, Return
  <2> QED BY <1>20, <2>1, <2>2 DEF DrainPay, TypeOK, handleVars, poolVars, localVars
<1>21. ASSUME NEW p \in Threads, LockAnnounce(p) PROVE TypeOK'
  <2>1. slow_pending' \in [Groups -> Int]
    BY <1>21 DEF LockAnnounce, TypeOK
  <2>2. pc' \in [Threads -> Labels]
    BY <1>0, <1>21, LabelsIn DEF LockAnnounce, Goto
  <2> QED BY <1>21, <2>1, <2>2 DEF LockAnnounce, TypeOK, handleVars, poolVars, localVars
<1>22. ASSUME NEW p \in Threads, LockInsert(p) PROVE TypeOK'
  <2>1. queue' \in [Groups -> SUBSET Tasks]
    BY <1>22, TaskOf DEF LockInsert, TypeOK
  <2>2. notified' \in [Tasks -> SUBSET Groups]
    BY <1>22, TaskOf DEF LockInsert, TypeOK
  <2>3. grp' \in [Threads -> Groups]
    BY <1>0, <1>22, GroupsOf DEF LockInsert
  <2>4. pc' \in [Threads -> Labels]
    BY <1>0, <1>22, LabelsIn DEF LockInsert, Goto
  <2> QED BY <1>22, <2>1, <2>2, <2>3, <2>4 DEF LockInsert, TypeOK, poolVars
<1>23. ASSUME NEW p \in Threads, WorkerDequeue(p) PROVE TypeOK'
  <2>1. p[1] \in Tasks /\ grp[p] \in Groups /\ First(TaskGroups[p[1]]) \in Groups
    BY GroupsOf
  <2>2. state' \in [Tasks -> States]
    <3>1. state' = [state EXCEPT ![p[1]] = "running"] \/ state' = state
      BY <1>23 DEF WorkerDequeue
    <3> QED BY <2>1, <3>1 DEF TypeOK, States
  <2>3. pc' \in [Threads -> Labels]
    BY <1>0, <1>23, LabelsIn DEF WorkerDequeue, Goto
  <2> QED BY <1>23, <2>2, <2>3 DEF WorkerDequeue, TypeOK, groupVars, handleVars, localVars
<1>24. ASSUME NEW p \in Threads, GroupLockTry(p) PROVE TypeOK'
  <2>1. mutex' \in [Groups -> Threads \cup {NoThread}]
    BY <1>24 DEF GroupLockTry, TypeOK
  <2>2. live' \in [Tasks -> BOOLEAN]
    BY <1>24, TaskOf DEF GroupLockTry, TypeOK
  <2>3. state' \in [Tasks -> States]
    BY <1>24, TaskOf DEF GroupLockTry, TypeOK, LockNext, States
  <2>4. grp' \in [Threads -> Groups]
    BY <1>0, <1>24, GroupsOf DEF GroupLockTry, LockNext
  <2>5. pc' \in [Threads -> Labels]
    BY <1>0, <1>24, LabelsIn DEF GroupLockTry, Goto, LockNext
  <2> QED BY <1>24, <2>1, <2>2, <2>3, <2>4, <2>5 DEF GroupLockTry, TypeOK, handleVars
<1>25. ASSUME NEW p \in Threads, GroupLockTake(p) PROVE TypeOK'
  <2>1. /\ p[1] \in Tasks /\ grp[p] \in Groups /\ First(TaskGroups[p[1]]) \in Groups
        /\ Later(p[1], grp[p]) # {} => First(Later(p[1], grp[p])) \in Groups
    BY GroupsOf
  <2>2. locked' \in [Tasks -> SUBSET Groups]
    BY <1>25, <2>1 DEF GroupLockTake, TypeOK
  <2>3. tokens' \in [Groups -> Int]
    BY <1>25 DEF GroupLockTake, TypeOK
  <2>4. mutex' \in [Groups -> Threads \cup {NoThread}]
    BY <1>25 DEF GroupLockTake, TypeOK
  <2>5. grp' \in [Threads -> Groups]
    <3>1. \/ grp' = [grp EXCEPT ![p] = First(Later(p[1], grp[p]))] /\ Later(p[1], grp[p]) # {}
          \/ grp' = [grp EXCEPT ![p] = First(TaskGroups[p[1]])]
      BY <1>25 DEF GroupLockTake, LockNext
    <3> QED BY <2>1, <3>1 DEF TypeOK
  <2>6. state' \in [Tasks -> States]
    BY <1>25, <2>1 DEF GroupLockTake, TypeOK, LockNext, States
  <2>7. pc' \in [Threads -> Labels]
    <3>1. pc' = [pc EXCEPT ![p] = "lock"] \/ pc' = [pc EXCEPT ![p] = "run"]
      BY <1>25 DEF GroupLockTake, Goto, LockNext
    <3> QED BY <3>1, LabelsIn DEF TypeOK
  <2> QED BY <1>25, <2>2, <2>3, <2>4, <2>5, <2>6, <2>7 DEF GroupLockTake, TypeOK
<1>26. ASSUME NEW p \in Threads, Finish(p) PROVE TypeOK'
  <2>1. state' \in [Tasks -> States]
    BY <1>26, TaskOf DEF Finish, TypeOK, States
  <2>2. pc' \in [Threads -> Labels]
    BY <1>0, <1>26, LabelsIn DEF Finish, Goto, Call
  <2>3. ret' \in [Threads -> {"done", "ts_check", "publish", "dtor_next"}]
    BY <1>0, <1>26 DEF Finish, Call
  <2> QED BY <1>26, <2>1, <2>2, <2>3 DEF Finish, TypeOK, groupVars, handleVars
<1>27. ASSUME NEW p \in Threads, DestroyUnlock(p) PROVE TypeOK'
  <2>1. p[1] \in Tasks /\ grp[p] \in Groups /\ First(TaskGroups[p[1]]) \in Groups
    BY GroupsOf
  <2>2. mutex' \in [Groups -> Threads \cup {NoThread}]
    BY <1>27 DEF DestroyUnlock, TypeOK
  <2>3. locked' \in [Tasks -> SUBSET Groups]
    <3>1. locked' = [locked EXCEPT ![p[1]] = @ \ {grp[p]}] \/ locked' = locked
      BY <1>27 DEF DestroyUnlock
    <3>2. locked[p[1]] \ {grp[p]} \in SUBSET Groups
      BY <2>1 DEF TypeOK
    <3> QED BY <2>1, <3>1, <3>2 DEF TypeOK
  <2>4. tokens' \in [Groups -> Int]
    BY <1>27 DEF DestroyUnlock, TypeOK
  <2>5. freed' \in [Threads -> {"none", "owed", "spare"}]
    BY <1>27 DEF DestroyUnlock, TypeOK
  <2>6. pc' \in [Threads -> Labels]
    BY <1>0, <1>27, LabelsIn DEF DestroyUnlock, Goto
  <2> QED BY <1>27, <2>2, <2>3, <2>4, <2>5, <2>6 DEF DestroyUnlock, TypeOK, poolVars
<1>28. ASSUME NEW p \in Threads, DestroyWalk(p) PROVE TypeOK'
  <2>1. queue' \in [Groups -> SUBSET Tasks]
    BY <1>28, TaskOf DEF DestroyWalk, TypeOK
  <2>2. mutex' \in [Groups -> Threads \cup {NoThread}]
    BY <1>28 DEF DestroyWalk, TypeOK
  <2>3. notified' \in [Tasks -> SUBSET Groups]
    BY <1>28 DEF DestroyWalk, TypeOK, Notifiable
  <2>4. to_notify' \in [Threads -> SUBSET Tasks]
    BY <1>28 DEF DestroyWalk, TypeOK, Notifiable
  <2>5. pc' \in [Threads -> Labels]
    BY <1>0, <1>28, LabelsIn DEF DestroyWalk, Goto
  <2> QED BY <1>28, <2>1, <2>2, <2>3, <2>4, <2>5 DEF DestroyWalk, TypeOK, poolVars
<1>29. ASSUME NEW p \in Threads, DestroyPending(p) PROVE TypeOK'
  <2>1. slow_pending' \in [Groups -> Int]
    BY <1>29 DEF DestroyPending, TypeOK
  <2>2. pc' \in [Threads -> Labels]
    BY <1>0, <1>29, LabelsIn DEF DestroyPending, Goto
  <2> QED BY <1>29, <2>1, <2>2 DEF DestroyPending, TypeOK, handleVars, poolVars, localVars
<1>30. ASSUME NEW p \in Threads, Notify(p) PROVE TypeOK'
  <2>1. live' \in [Tasks -> BOOLEAN]
    BY <1>30, TaskOf DEF Notify, TypeOK
  <2>2. to_notify' \in [Threads -> SUBSET Tasks]
    BY <1>30 DEF Notify, TypeOK
  <2> QED BY <1>30, <2>1, <2>2 DEF Notify, TypeOK, groupVars, handleVars
<1>31. ASSUME NEW p \in Threads, NotifyDone(p) PROVE TypeOK'
  <2>1. pc' \in [Threads -> Labels]
    BY <1>0, <1>31, LabelsIn, ReturnIn DEF NotifyDone, Goto, Call, Return
  <2>2. ret' \in [Threads -> {"done", "ts_check", "publish", "dtor_next"}]
    BY <1>0, <1>31 DEF NotifyDone, Call
  <2>3. freed' \in [Threads -> {"none", "owed", "spare"}]
    BY <1>31 DEF NotifyDone, TypeOK
  <2> QED BY <1>31, <2>1, <2>2, <2>3 DEF NotifyDone, TypeOK, groupVars, handleVars, poolVars
<1>32. ASSUME NEW p \in Threads, DestroySpare(p) PROVE TypeOK'
  <2>1. pc' \in [Threads -> Labels]
    BY <1>0, <1>32, LabelsIn DEF DestroySpare, Goto, Call
  <2>2. ret' \in [Threads -> {"done", "ts_check", "publish", "dtor_next"}]
    BY <1>0, <1>32 DEF DestroySpare, Call
  <2> QED BY <1>32, <2>1, <2>2 DEF DestroySpare, TypeOK, groupVars, handleVars, poolVars
<1>33. ASSUME NEW p \in Threads, DestroyNext(p) PROVE TypeOK'
  <2>1. pc' \in [Threads -> Labels]
    BY <1>0, <1>33, LabelsIn DEF DestroyNext, Goto
  <2>2. grp' \in [Threads -> Groups]
    BY <1>0, <1>33, GroupsOf DEF DestroyNext
  <2> QED BY <1>33, <2>1, <2>2 DEF DestroyNext, TypeOK, groupVars, handleVars, poolVars
<1>34. CASE UNCHANGED vars
  BY <1>34 DEF vars, TypeOK, groupVars, handleVars, poolVars, localVars
<1> QED
  BY <1>1, <1>2, <1>3, <1>4, <1>5, <1>6, <1>7, <1>8, <1>9, <1>10, <1>11, <1>12, <1>13, <1>14, <1>15, <1>16, <1>17, <1>18, <1>19, <1>20, <1>21, <1>22, <1>23, <1>24, <1>25, <1>26, <1>27, <1>28, <1>29, <1>30, <1>31, <1>32, <1>33, <1>34, ThreadsOf DEF Next, Step, Rest

\* The tokens, queues and handles of a group, and the threads' locals, keep
\* the types Group.hpp gives them.
THEOREM TypeCorrect == Spec => []TypeOK
  BY TypeInit, TypeNext, PTL DEF Spec

-----------------------------------------------------------------------------
(* The parts of the invariant, one lemma each.                             *)

\* A task is of one path.
LEMMA Paths == /\ \A t \in Tasks : t \in Slow <=> t \notin Fast
               /\ Fast \subseteq Tasks
  BY DEF Slow, Fast

\* A step keeps its thread on its role's labels and its task's path.
LEMMA RolesNext == TypeOK /\ RolesOK /\ [Next]_vars => RolesOK'
<1> SUFFICES ASSUME TypeOK, RolesOK, [Next]_vars PROVE RolesOK' OBVIOUS
<1>a. /\ pc \in [Threads -> Labels]
      /\ ret \in [Threads -> {"done", "ts_check", "publish", "dtor_next"}]
  BY DEF TypeOK
<1>1. ASSUME NEW t \in Tasks, Submit(t) PROVE RolesOK'
  BY <1>1, <1>a, Paths, ThreadsOf DEF Submit, Goto, localVars, RolesOK, SubmitLabels, FastLabels, SlowLabels, Submitter, Worker
<1>2. ASSUME NEW t \in Tasks, StopPool(t) PROVE RolesOK'
  BY <1>2, <1>a, Paths, ThreadsOf DEF StopPool, localVars, RolesOK, SubmitLabels, FastLabels, SlowLabels, Submitter, Worker
<1>3. ASSUME NEW p \in Threads, TryAcquireCheck(p) PROVE RolesOK'
  BY <1>3, <1>a, Paths, ThreadsOf DEF TryAcquireCheck, Goto, localVars, RolesOK, SubmitLabels, FastLabels, SlowLabels, Submitter, Worker
<1>4. ASSUME NEW p \in Threads, TryAcquireTake(p) PROVE RolesOK'
  BY <1>4, <1>a, Paths, ThreadsOf DEF TryAcquireTake, Goto, localVars, RolesOK, SubmitLabels, FastLabels, SlowLabels, Submitter, Worker
<1>5. ASSUME NEW p \in Threads, TryAcquireRecheck(p) PROVE RolesOK'
  BY <1>5, <1>a, Paths, ThreadsOf DEF TryAcquireRecheck, Goto, Call, RolesOK, SubmitLabels, FastLabels, SlowLabels, Submitter, Worker
<1>6. ASSUME NEW p \in Threads, TrySubmitCheck(p) PROVE RolesOK'
  BY <1>6, <1>a, Paths, ThreadsOf DEF TrySubmitCheck, Goto, localVars, RolesOK, SubmitLabels, FastLabels, SlowLabels, Submitter, Worker
<1>7. ASSUME NEW p \in Threads, TrySubmitTake(p) PROVE RolesOK'
  BY <1>7, <1>a, Paths, ThreadsOf DEF TrySubmitTake, Goto, localVars, RolesOK, SubmitLabels, FastLabels, SlowLabels, Submitter, Worker
<1>8. ASSUME NEW p \in Threads, TrySubmitRecheck(p) PROVE RolesOK'
  BY <1>8, <1>a, Paths, ThreadsOf DEF TrySubmitRecheck, Goto, Call, RolesOK, SubmitLabels, FastLabels, SlowLabels, Submitter, Worker
<1>9. ASSUME NEW p \in Threads, HandToPool(p) PROVE RolesOK'
  BY <1>9, <1>a, Paths, ThreadsOf DEF HandToPool, Goto, Call, RolesOK, SubmitLabels, FastLabels, SlowLabels, Submitter, Worker
<1>10. ASSUME NEW p \in Threads, ParkPublish(p) PROVE RolesOK'
  BY <1>10, <1>a, Paths, ThreadsOf DEF ParkPublish, Goto, localVars, RolesOK, SubmitLabels, FastLabels, SlowLabels, Submitter, Worker
<1>11. ASSUME NEW p \in Threads, ReconcileReserve(p) PROVE RolesOK'
  BY <1>11, <1>a, Paths, ThreadsOf DEF ReconcileReserve, Goto, localVars, RolesOK, SubmitLabels, FastLabels, SlowLabels, Submitter, Worker
<1>12. ASSUME NEW p \in Threads, ReconcileYield(p) PROVE RolesOK'
  BY <1>12, <1>a, Paths, ThreadsOf DEF ReconcileYield, Goto, Call, RolesOK, SubmitLabels, FastLabels, SlowLabels, Submitter, Worker
<1>13. ASSUME NEW p \in Threads, ReconcileClaim(p) PROVE RolesOK'
  BY <1>13, <1>a, Paths, ThreadsOf DEF ReconcileClaim, Goto, Call, RolesOK, SubmitLabels, FastLabels, SlowLabels, Submitter, Worker
<1>14. ASSUME NEW p \in Threads, ReleaseAdd(p) PROVE RolesOK'
  BY <1>14, <1>a, Paths, ThreadsOf DEF ReleaseAdd, Goto, localVars, RolesOK, SubmitLabels, FastLabels, SlowLabels, Submitter, Worker
<1>15. ASSUME NEW p \in Threads, ReleaseChoose(p) PROVE RolesOK'
  BY <1>15, <1>a, Paths, ThreadsOf DEF ReleaseChoose, Goto, localVars, RolesOK, SubmitLabels, FastLabels, SlowLabels, Submitter, Worker
<1>16. ASSUME NEW p \in Threads, NotifySlowPath(p) PROVE RolesOK'
  BY <1>16, <1>a, Paths, ThreadsOf DEF NotifySlowPath, Goto, RolesOK, SubmitLabels, FastLabels, SlowLabels, Submitter, Worker
<1>17. ASSUME NEW p \in Threads, DrainScan(p) PROVE RolesOK'
  BY <1>17, <1>a, Paths, ThreadsOf DEF DrainScan, Goto, Return, RolesOK, SubmitLabels, FastLabels, SlowLabels, Submitter, Worker
<1>18. ASSUME NEW p \in Threads, DrainClaim(p) PROVE RolesOK'
  BY <1>18, <1>a, Paths, ThreadsOf DEF DrainClaim, Goto, Return, RolesOK, SubmitLabels, FastLabels, SlowLabels, Submitter, Worker
<1>19. ASSUME NEW p \in Threads, DrainPay(p) PROVE RolesOK'
  BY <1>19, <1>a, Paths, ThreadsOf DEF DrainPay, Return, Goto, localVars, RolesOK, SubmitLabels, FastLabels, SlowLabels, Submitter, Worker
<1>20. ASSUME NEW p \in Threads, LockAnnounce(p) PROVE RolesOK'
  BY <1>20, <1>a, Paths, ThreadsOf DEF LockAnnounce, Goto, localVars, RolesOK, SubmitLabels, FastLabels, SlowLabels, Submitter, Worker
<1>21. ASSUME NEW p \in Threads, LockInsert(p) PROVE RolesOK'
  BY <1>21, <1>a, Paths, ThreadsOf DEF LockInsert, Goto, RolesOK, SubmitLabels, FastLabels, SlowLabels, Submitter, Worker
<1>22. ASSUME NEW p \in Threads, WorkerDequeue(p) PROVE RolesOK'
  BY <1>22, <1>a, Paths, ThreadsOf DEF WorkerDequeue, Goto, localVars, RolesOK, SubmitLabels, FastLabels, SlowLabels, Submitter, Worker
<1>23. ASSUME NEW p \in Threads, GroupLockTry(p) PROVE RolesOK'
  <2>1. \/ \E l \in {"lock", "run", "lock_take"} : pc' = [pc EXCEPT ![p] = l]
        \/ pc' = [pc EXCEPT ![p] = "wait"] /\ p = Worker(p[1])
        \/ pc' = [pc EXCEPT ![p] = "hand"] /\ p # Worker(p[1])
    BY <1>23 DEF GroupLockTry, LockNext, Goto
  <2>2. p[1] \in Slow /\ pc[p] = "lock" /\ ret' = ret
    BY <1>23 DEF GroupLockTry, RolesOK, SlowLabels
  <2>3. (p = Worker(p[1]) <=> p[2] = "run") /\ p[2] \in {"submit", "run"}
    BY DEF Threads, Worker
  <2> QED
    BY <2>1, <2>2, <2>3, <1>a, Paths DEF RolesOK, SubmitLabels, FastLabels, SlowLabels
<1>24. ASSUME NEW p \in Threads, GroupLockTake(p) PROVE RolesOK'
  BY <1>24, <1>a, Paths, ThreadsOf DEF GroupLockTake, LockNext, Goto, RolesOK, SubmitLabels, FastLabels, SlowLabels, Submitter, Worker
<1>25. ASSUME NEW p \in Threads, Finish(p) PROVE RolesOK'
  BY <1>25, <1>a, Paths, ThreadsOf DEF Finish, Call, Goto, RolesOK, SubmitLabels, FastLabels, SlowLabels, Submitter, Worker
<1>26. ASSUME NEW p \in Threads, DestroyUnlock(p) PROVE RolesOK'
  BY <1>26, <1>a, Paths, ThreadsOf DEF DestroyUnlock, Goto, RolesOK, SubmitLabels, FastLabels, SlowLabels, Submitter, Worker
<1>27. ASSUME NEW p \in Threads, DestroyWalk(p) PROVE RolesOK'
  BY <1>27, <1>a, Paths, ThreadsOf DEF DestroyWalk, Goto, RolesOK, SubmitLabels, FastLabels, SlowLabels, Submitter, Worker
<1>28. ASSUME NEW p \in Threads, DestroyPending(p) PROVE RolesOK'
  BY <1>28, <1>a, Paths, ThreadsOf DEF DestroyPending, Goto, localVars, RolesOK, SubmitLabels, FastLabels, SlowLabels, Submitter, Worker
<1>29. ASSUME NEW p \in Threads, Notify(p) PROVE RolesOK'
  BY <1>29, <1>a, Paths, ThreadsOf DEF Notify, RolesOK, SubmitLabels, FastLabels, SlowLabels, Submitter, Worker
<1>30. ASSUME NEW p \in Threads, NotifyDone(p) PROVE RolesOK'
  BY <1>30, <1>a, Paths, ThreadsOf DEF NotifyDone, Goto, Call, Return, RolesOK, SubmitLabels, FastLabels, SlowLabels, Submitter, Worker
<1>31. ASSUME NEW p \in Threads, DestroySpare(p) PROVE RolesOK'
  BY <1>31, <1>a, Paths, ThreadsOf DEF DestroySpare, Goto, Call, RolesOK, SubmitLabels, FastLabels, SlowLabels, Submitter, Worker
<1>32. ASSUME NEW p \in Threads, DestroyNext(p) PROVE RolesOK'
  BY <1>32, <1>a, Paths, ThreadsOf DEF DestroyNext, Goto, RolesOK, SubmitLabels, FastLabels, SlowLabels, Submitter, Worker
<1>33. ASSUME NEW p \in Threads, Discard(p) PROVE RolesOK'
  BY <1>33, <1>a, Paths, ThreadsOf DEF Discard, Call, Goto, RolesOK, SubmitLabels, FastLabels, SlowLabels, Submitter, Worker
<1>34. CASE UNCHANGED vars
  BY <1>34 DEF vars, localVars, RolesOK, SubmitLabels, FastLabels, SlowLabels, Submitter, Worker
<1>35. ASSUME NEW p \in Threads, Step(p) PROVE RolesOK'
  BY <1>35, <1>3, <1>4, <1>5, <1>6, <1>7, <1>8, <1>9, <1>10, <1>11, <1>12, <1>13, <1>14, <1>15, <1>16, <1>17, <1>18, <1>19, <1>20, <1>21, <1>22, <1>23, <1>24, <1>25, <1>26, <1>27, <1>28, <1>29, <1>30, <1>31, <1>32 DEF Step
<1>36. ASSUME NEW t \in Tasks, Discard(Worker(t)) PROVE RolesOK'
  BY <1>33, <1>36, ThreadsOf
<1> QED
  BY <1>1, <1>2, <1>34, <1>35, <1>36 DEF Next, Rest

\* A thread moves on to groups of its task.
LEMMA GroupNext == TypeOK /\ GroupOK /\ [Next]_vars => GroupOK'
<1> SUFFICES ASSUME TypeOK, GroupOK, [Next]_vars PROVE GroupOK' OBVIOUS
<1>a. grp \in [Threads -> Groups]
  BY DEF TypeOK
<1>1. ASSUME NEW t \in Tasks, Submit(t) PROVE GroupOK'
  BY <1>1, <1>a DEF Submit, Goto, localVars, GroupOK
<1>2. ASSUME NEW t \in Tasks, StopPool(t) PROVE GroupOK'
  BY <1>2, <1>a DEF StopPool, localVars, GroupOK
<1>3. ASSUME NEW p \in Threads, TryAcquireCheck(p) PROVE GroupOK'
  BY <1>3, <1>a DEF TryAcquireCheck, Goto, localVars, GroupOK
<1>4. ASSUME NEW p \in Threads, TryAcquireTake(p) PROVE GroupOK'
  BY <1>4, <1>a DEF TryAcquireTake, Goto, localVars, GroupOK
<1>5. ASSUME NEW p \in Threads, TryAcquireRecheck(p) PROVE GroupOK'
  BY <1>5, <1>a DEF TryAcquireRecheck, Goto, Call, GroupOK
<1>6. ASSUME NEW p \in Threads, TrySubmitCheck(p) PROVE GroupOK'
  BY <1>6, <1>a DEF TrySubmitCheck, Goto, localVars, GroupOK
<1>7. ASSUME NEW p \in Threads, TrySubmitTake(p) PROVE GroupOK'
  BY <1>7, <1>a DEF TrySubmitTake, Goto, localVars, GroupOK
<1>8. ASSUME NEW p \in Threads, TrySubmitRecheck(p) PROVE GroupOK'
  BY <1>8, <1>a DEF TrySubmitRecheck, Goto, Call, GroupOK
<1>9. ASSUME NEW p \in Threads, HandToPool(p) PROVE GroupOK'
  <2>1. /\ p[1] \in Tasks
        /\ First(TaskGroups[p[1]]) \in TaskGroups[p[1]]
        /\ Later(p[1], grp[p]) # {} => First(Later(p[1], grp[p])) \in TaskGroups[p[1]]
    BY <1>a, TaskOf, FirstGroups
  <2> QED BY <1>9, <1>a, <2>1 DEF HandToPool, GroupOK
<1>10. ASSUME NEW p \in Threads, ParkPublish(p) PROVE GroupOK'
  BY <1>10, <1>a DEF ParkPublish, Goto, localVars, GroupOK
<1>11. ASSUME NEW p \in Threads, ReconcileReserve(p) PROVE GroupOK'
  BY <1>11, <1>a DEF ReconcileReserve, Goto, localVars, GroupOK
<1>12. ASSUME NEW p \in Threads, ReconcileYield(p) PROVE GroupOK'
  BY <1>12, <1>a DEF ReconcileYield, Goto, Call, GroupOK
<1>13. ASSUME NEW p \in Threads, ReconcileClaim(p) PROVE GroupOK'
  BY <1>13, <1>a DEF ReconcileClaim, Goto, Call, GroupOK
<1>14. ASSUME NEW p \in Threads, ReleaseAdd(p) PROVE GroupOK'
  BY <1>14, <1>a DEF ReleaseAdd, Goto, localVars, GroupOK
<1>15. ASSUME NEW p \in Threads, ReleaseChoose(p) PROVE GroupOK'
  BY <1>15, <1>a DEF ReleaseChoose, Goto, localVars, GroupOK
<1>16. ASSUME NEW p \in Threads, NotifySlowPath(p) PROVE GroupOK'
  BY <1>16, <1>a DEF NotifySlowPath, Goto, GroupOK
<1>17. ASSUME NEW p \in Threads, DrainScan(p) PROVE GroupOK'
  BY <1>17, <1>a DEF DrainScan, Goto, Return, GroupOK
<1>18. ASSUME NEW p \in Threads, DrainClaim(p) PROVE GroupOK'
  BY <1>18, <1>a DEF DrainClaim, Goto, Return, GroupOK
<1>19. ASSUME NEW p \in Threads, DrainPay(p) PROVE GroupOK'
  BY <1>19, <1>a DEF DrainPay, Return, Goto, localVars, GroupOK
<1>20. ASSUME NEW p \in Threads, LockAnnounce(p) PROVE GroupOK'
  BY <1>20, <1>a DEF LockAnnounce, Goto, localVars, GroupOK
<1>21. ASSUME NEW p \in Threads, LockInsert(p) PROVE GroupOK'
  <2>1. /\ p[1] \in Tasks
        /\ First(TaskGroups[p[1]]) \in TaskGroups[p[1]]
        /\ Later(p[1], grp[p]) # {} => First(Later(p[1], grp[p])) \in TaskGroups[p[1]]
    BY <1>a, TaskOf, FirstGroups
  <2> QED BY <1>21, <1>a, <2>1 DEF LockInsert, GroupOK
<1>22. ASSUME NEW p \in Threads, WorkerDequeue(p) PROVE GroupOK'
  BY <1>22, <1>a DEF WorkerDequeue, Goto, localVars, GroupOK
<1>23. ASSUME NEW p \in Threads, GroupLockTry(p) PROVE GroupOK'
  <2>1. /\ p[1] \in Tasks
        /\ First(TaskGroups[p[1]]) \in TaskGroups[p[1]]
        /\ Later(p[1], grp[p]) # {} => First(Later(p[1], grp[p])) \in TaskGroups[p[1]]
    BY <1>a, TaskOf, FirstGroups
  <2> QED BY <1>23, <1>a, <2>1 DEF GroupLockTry, LockNext, GroupOK
<1>24. ASSUME NEW p \in Threads, GroupLockTake(p) PROVE GroupOK'
  <2>1. /\ p[1] \in Tasks
        /\ First(TaskGroups[p[1]]) \in TaskGroups[p[1]]
        /\ Later(p[1], grp[p]) # {} => First(Later(p[1], grp[p])) \in TaskGroups[p[1]]
    BY <1>a, TaskOf, FirstGroups
  <2> QED BY <1>24, <1>a, <2>1 DEF GroupLockTake, LockNext, GroupOK
<1>25. ASSUME NEW p \in Threads, Finish(p) PROVE GroupOK'
  BY <1>25, <1>a DEF Finish, Call, Goto, GroupOK
<1>26. ASSUME NEW p \in Threads, DestroyUnlock(p) PROVE GroupOK'
  BY <1>26, <1>a DEF DestroyUnlock, Goto, GroupOK
<1>27. ASSUME NEW p \in Threads, DestroyWalk(p) PROVE GroupOK'
  BY <1>27, <1>a DEF DestroyWalk, Goto, GroupOK
<1>28. ASSUME NEW p \in Threads, DestroyPending(p) PROVE GroupOK'
  BY <1>28, <1>a DEF DestroyPending, Goto, localVars, GroupOK
<1>29. ASSUME NEW p \in Threads, Notify(p) PROVE GroupOK'
  BY <1>29, <1>a DEF Notify, GroupOK
<1>30. ASSUME NEW p \in Threads, NotifyDone(p) PROVE GroupOK'
  BY <1>30, <1>a DEF NotifyDone, Goto, Call, Return, GroupOK
<1>31. ASSUME NEW p \in Threads, DestroySpare(p) PROVE GroupOK'
  BY <1>31, <1>a DEF DestroySpare, Goto, Call, GroupOK
<1>32. ASSUME NEW p \in Threads, DestroyNext(p) PROVE GroupOK'
  <2>1. /\ p[1] \in Tasks
        /\ First(TaskGroups[p[1]]) \in TaskGroups[p[1]]
        /\ Later(p[1], grp[p]) # {} => First(Later(p[1], grp[p])) \in TaskGroups[p[1]]
    BY <1>a, TaskOf, FirstGroups
  <2> QED BY <1>32, <1>a, <2>1 DEF DestroyNext, GroupOK
<1>33. ASSUME NEW p \in Threads, Discard(p) PROVE GroupOK'
  BY <1>33, <1>a DEF Discard, Call, Goto, GroupOK
<1>34. CASE UNCHANGED vars
  BY <1>34 DEF vars, localVars, GroupOK
<1>35. ASSUME NEW p \in Threads, Step(p) PROVE GroupOK'
  BY <1>35, <1>3, <1>4, <1>5, <1>6, <1>7, <1>8, <1>9, <1>10, <1>11, <1>12, <1>13, <1>14, <1>15, <1>16, <1>17, <1>18, <1>19, <1>20, <1>21, <1>22, <1>23, <1>24, <1>25, <1>26, <1>27, <1>28, <1>29, <1>30, <1>31, <1>32 DEF Step
<1>36. ASSUME NEW t \in Tasks, Discard(Worker(t)) PROVE GroupOK'
  BY <1>33, <1>36, ThreadsOf
<1> QED
  BY <1>1, <1>2, <1>34, <1>35, <1>36 DEF Next, Rest

\* A mutex scope ends before its thread leaves the group.
LEMMA MutexNext == TypeOK /\ MutexOK /\ [Next]_vars => MutexOK'
<1> SUFFICES ASSUME TypeOK, MutexOK, [Next]_vars PROVE MutexOK' OBVIOUS
<1>a. /\ pc \in [Threads -> Labels]
      /\ grp \in [Threads -> Groups]
      /\ mutex \in [Groups -> Threads \cup {NoThread}]
      /\ ret \in [Threads -> {"done", "ts_check", "publish", "dtor_next"}]
  BY DEF TypeOK
<1>b. NoThread \notin Threads
  BY DEF NoThread, Threads
<1>1. ASSUME NEW t \in Tasks, Submit(t) PROVE MutexOK'
  BY <1>1, <1>a, <1>b DEF Submit, Goto, groupVars, localVars, MutexOK
<1>2. ASSUME NEW t \in Tasks, StopPool(t) PROVE MutexOK'
  BY <1>2, <1>a, <1>b DEF StopPool, groupVars, localVars, MutexOK
<1>3. ASSUME NEW p \in Threads, TryAcquireCheck(p) PROVE MutexOK'
  BY <1>3, <1>a, <1>b DEF TryAcquireCheck, Goto, groupVars, localVars, MutexOK
<1>4. ASSUME NEW p \in Threads, TryAcquireTake(p) PROVE MutexOK'
  BY <1>4, <1>a, <1>b DEF TryAcquireTake, Goto, localVars, MutexOK
<1>5. ASSUME NEW p \in Threads, TryAcquireRecheck(p) PROVE MutexOK'
  BY <1>5, <1>a, <1>b DEF TryAcquireRecheck, Goto, Call, groupVars, MutexOK
<1>6. ASSUME NEW p \in Threads, TrySubmitCheck(p) PROVE MutexOK'
  BY <1>6, <1>a, <1>b DEF TrySubmitCheck, Goto, groupVars, localVars, MutexOK
<1>7. ASSUME NEW p \in Threads, TrySubmitTake(p) PROVE MutexOK'
  BY <1>7, <1>a, <1>b DEF TrySubmitTake, Goto, localVars, MutexOK
<1>8. ASSUME NEW p \in Threads, TrySubmitRecheck(p) PROVE MutexOK'
  BY <1>8, <1>a, <1>b DEF TrySubmitRecheck, Goto, Call, groupVars, MutexOK
<1>9. ASSUME NEW p \in Threads, HandToPool(p) PROVE MutexOK'
  BY <1>9, <1>a, <1>b DEF HandToPool, Goto, Call, groupVars, MutexOK
<1>10. ASSUME NEW p \in Threads, ParkPublish(p) PROVE MutexOK'
  BY <1>10, <1>a, <1>b DEF ParkPublish, Goto, localVars, MutexOK
<1>11. ASSUME NEW p \in Threads, ReconcileReserve(p) PROVE MutexOK'
  BY <1>11, <1>a, <1>b DEF ReconcileReserve, Goto, localVars, MutexOK
<1>12. ASSUME NEW p \in Threads, ReconcileYield(p) PROVE MutexOK'
  BY <1>12, <1>a, <1>b DEF ReconcileYield, Goto, Call, groupVars, MutexOK
<1>13. ASSUME NEW p \in Threads, ReconcileClaim(p) PROVE MutexOK'
  BY <1>13, <1>a, <1>b DEF ReconcileClaim, Goto, Call, groupVars, MutexOK
<1>14. ASSUME NEW p \in Threads, ReleaseAdd(p) PROVE MutexOK'
  BY <1>14, <1>a, <1>b DEF ReleaseAdd, Goto, localVars, MutexOK
<1>15. ASSUME NEW p \in Threads, ReleaseChoose(p) PROVE MutexOK'
  BY <1>15, <1>a, <1>b DEF ReleaseChoose, Goto, groupVars, localVars, MutexOK
<1>16. ASSUME NEW p \in Threads, NotifySlowPath(p) PROVE MutexOK'
  BY <1>16, <1>a, <1>b DEF NotifySlowPath, Goto, groupVars, MutexOK
<1>17. ASSUME NEW p \in Threads, DrainScan(p) PROVE MutexOK'
  BY <1>17, <1>a, <1>b DEF DrainScan, Goto, Return, MutexOK
<1>18. ASSUME NEW p \in Threads, DrainClaim(p) PROVE MutexOK'
  BY <1>18, <1>a, <1>b DEF DrainClaim, Goto, Return, groupVars, MutexOK
<1>19. ASSUME NEW p \in Threads, DrainPay(p) PROVE MutexOK'
  BY <1>19, <1>a, <1>b DEF DrainPay, Return, Goto, localVars, MutexOK
<1>20. ASSUME NEW p \in Threads, LockAnnounce(p) PROVE MutexOK'
  BY <1>20, <1>a, <1>b DEF LockAnnounce, Goto, localVars, MutexOK
<1>21. ASSUME NEW p \in Threads, LockInsert(p) PROVE MutexOK'
  BY <1>21, <1>a, <1>b DEF LockInsert, Goto, MutexOK
<1>22. ASSUME NEW p \in Threads, WorkerDequeue(p) PROVE MutexOK'
  BY <1>22, <1>a, <1>b DEF WorkerDequeue, Goto, groupVars, localVars, MutexOK
<1>23. ASSUME NEW p \in Threads, GroupLockTry(p) PROVE MutexOK'
  BY <1>23, <1>a, <1>b DEF GroupLockTry, Goto, LockNext, MutexOK
<1>24. ASSUME NEW p \in Threads, GroupLockTake(p) PROVE MutexOK'
  BY <1>24, <1>a, <1>b DEF GroupLockTake, LockNext, Goto, MutexOK
<1>25. ASSUME NEW p \in Threads, Finish(p) PROVE MutexOK'
  BY <1>25, <1>a, <1>b DEF Finish, Call, Goto, groupVars, MutexOK
<1>26. ASSUME NEW p \in Threads, DestroyUnlock(p) PROVE MutexOK'
  BY <1>26, <1>a, <1>b DEF DestroyUnlock, Goto, MutexOK
<1>27. ASSUME NEW p \in Threads, DestroyWalk(p) PROVE MutexOK'
  BY <1>27, <1>a, <1>b DEF DestroyWalk, Goto, MutexOK
<1>28. ASSUME NEW p \in Threads, DestroyPending(p) PROVE MutexOK'
  BY <1>28, <1>a, <1>b DEF DestroyPending, Goto, localVars, MutexOK
<1>29. ASSUME NEW p \in Threads, Notify(p) PROVE MutexOK'
  BY <1>29, <1>a, <1>b DEF Notify, groupVars, MutexOK
<1>30. ASSUME NEW p \in Threads, NotifyDone(p) PROVE MutexOK'
  BY <1>30, <1>a, <1>b DEF NotifyDone, Goto, Call, Return, groupVars, MutexOK
<1>31. ASSUME NEW p \in Threads, DestroySpare(p) PROVE MutexOK'
  BY <1>31, <1>a, <1>b DEF DestroySpare, Goto, Call, groupVars, MutexOK
<1>32. ASSUME NEW p \in Threads, DestroyNext(p) PROVE MutexOK'
  BY <1>32, <1>a, <1>b DEF DestroyNext, Goto, groupVars, MutexOK
<1>33. ASSUME NEW p \in Threads, Discard(p) PROVE MutexOK'
  BY <1>33, <1>a, <1>b DEF Discard, Call, Goto, groupVars, MutexOK
<1>34. CASE UNCHANGED vars
  BY <1>34 DEF vars, groupVars, localVars, MutexOK
<1>35. ASSUME NEW p \in Threads, Step(p) PROVE MutexOK'
  BY <1>35, <1>3, <1>4, <1>5, <1>6, <1>7, <1>8, <1>9, <1>10, <1>11, <1>12, <1>13, <1>14, <1>15, <1>16, <1>17, <1>18, <1>19, <1>20, <1>21, <1>22, <1>23, <1>24, <1>25, <1>26, <1>27, <1>28, <1>29, <1>30, <1>31, <1>32 DEF Step
<1>36. ASSUME NEW t \in Tasks, Discard(Worker(t)) PROVE MutexOK'
  BY <1>33, <1>36, ThreadsOf
<1> QED
  BY <1>1, <1>2, <1>34, <1>35, <1>36 DEF Next, Rest

\* The handle a thread is about to lock stays unlocked: only a holder of the
\* group's mutex changes it.
LEMMA TakeNext == TypeOK /\ MutexOK /\ TakeOK /\ [Next]_vars => TakeOK'
<1> SUFFICES ASSUME TypeOK, MutexOK, TakeOK, [Next]_vars PROVE TakeOK' OBVIOUS
<1>a. /\ pc \in [Threads -> Labels]
      /\ grp \in [Threads -> Groups]
      /\ locked \in [Tasks -> SUBSET Groups]
      /\ ret \in [Threads -> {"done", "ts_check", "publish", "dtor_next"}]
  BY DEF TypeOK
<1>b. NoThread \notin Threads
  BY DEF NoThread, Threads
<1>1. ASSUME NEW t \in Tasks, Submit(t) PROVE TakeOK'
  BY <1>1, <1>a, <1>b, TaskOf DEF Submit, Goto, handleVars, localVars, TakeOK
<1>2. ASSUME NEW t \in Tasks, StopPool(t) PROVE TakeOK'
  BY <1>2, <1>a, <1>b, TaskOf DEF StopPool, handleVars, localVars, TakeOK
<1>3. ASSUME NEW p \in Threads, TryAcquireCheck(p) PROVE TakeOK'
  BY <1>3, <1>a, <1>b, TaskOf DEF TryAcquireCheck, Goto, handleVars, localVars, TakeOK
<1>4. ASSUME NEW p \in Threads, TryAcquireTake(p) PROVE TakeOK'
  BY <1>4, <1>a, <1>b, TaskOf DEF TryAcquireTake, Goto, handleVars, localVars, TakeOK
<1>5. ASSUME NEW p \in Threads, TryAcquireRecheck(p) PROVE TakeOK'
  BY <1>5, <1>a, <1>b, TaskOf DEF TryAcquireRecheck, Goto, Call, handleVars, TakeOK
<1>6. ASSUME NEW p \in Threads, TrySubmitCheck(p) PROVE TakeOK'
  BY <1>6, <1>a, <1>b, TaskOf DEF TrySubmitCheck, Goto, handleVars, localVars, TakeOK
<1>7. ASSUME NEW p \in Threads, TrySubmitTake(p) PROVE TakeOK'
  BY <1>7, <1>a, <1>b, TaskOf DEF TrySubmitTake, Goto, handleVars, localVars, TakeOK
<1>8. ASSUME NEW p \in Threads, TrySubmitRecheck(p) PROVE TakeOK'
  BY <1>8, <1>a, <1>b, TaskOf DEF TrySubmitRecheck, Goto, Call, handleVars, TakeOK
<1>9. ASSUME NEW p \in Threads, HandToPool(p) PROVE TakeOK'
  BY <1>9, <1>a, <1>b, TaskOf DEF HandToPool, Goto, Call, handleVars, TakeOK
<1>10. ASSUME NEW p \in Threads, ParkPublish(p) PROVE TakeOK'
  BY <1>10, <1>a, <1>b, TaskOf DEF ParkPublish, Goto, handleVars, localVars, TakeOK
<1>11. ASSUME NEW p \in Threads, ReconcileReserve(p) PROVE TakeOK'
  BY <1>11, <1>a, <1>b, TaskOf DEF ReconcileReserve, Goto, handleVars, localVars, TakeOK
<1>12. ASSUME NEW p \in Threads, ReconcileYield(p) PROVE TakeOK'
  BY <1>12, <1>a, <1>b, TaskOf DEF ReconcileYield, Goto, Call, handleVars, TakeOK
<1>13. ASSUME NEW p \in Threads, ReconcileClaim(p) PROVE TakeOK'
  BY <1>13, <1>a, <1>b, TaskOf DEF ReconcileClaim, Goto, Call, TakeOK
<1>14. ASSUME NEW p \in Threads, ReleaseAdd(p) PROVE TakeOK'
  BY <1>14, <1>a, <1>b, TaskOf DEF ReleaseAdd, Goto, handleVars, localVars, TakeOK
<1>15. ASSUME NEW p \in Threads, ReleaseChoose(p) PROVE TakeOK'
  BY <1>15, <1>a, <1>b, TaskOf DEF ReleaseChoose, Goto, handleVars, localVars, TakeOK
<1>16. ASSUME NEW p \in Threads, NotifySlowPath(p) PROVE TakeOK'
  BY <1>16, <1>a, <1>b, TaskOf DEF NotifySlowPath, Goto, TakeOK
<1>17. ASSUME NEW p \in Threads, DrainScan(p) PROVE TakeOK'
  BY <1>17, <1>a, <1>b, TaskOf DEF DrainScan, Goto, Return, handleVars, TakeOK
<1>18. ASSUME NEW p \in Threads, DrainClaim(p) PROVE TakeOK'
  BY <1>18, <1>a, <1>b, TaskOf DEF DrainClaim, Goto, Return, TakeOK
<1>19. ASSUME NEW p \in Threads, DrainPay(p) PROVE TakeOK'
  BY <1>19, <1>a, <1>b, TaskOf DEF DrainPay, Return, Goto, handleVars, localVars, TakeOK
<1>20. ASSUME NEW p \in Threads, LockAnnounce(p) PROVE TakeOK'
  BY <1>20, <1>a, <1>b, TaskOf DEF LockAnnounce, Goto, handleVars, localVars, TakeOK
<1>21. ASSUME NEW p \in Threads, LockInsert(p) PROVE TakeOK'
  BY <1>21, <1>a, <1>b, TaskOf DEF LockInsert, Goto, TakeOK
<1>22. ASSUME NEW p \in Threads, WorkerDequeue(p) PROVE TakeOK'
  BY <1>22, <1>a, <1>b, TaskOf DEF WorkerDequeue, Goto, handleVars, localVars, TakeOK
<1>23. ASSUME NEW p \in Threads, GroupLockTry(p) PROVE TakeOK'
  BY <1>23, <1>a, <1>b, TaskOf DEF GroupLockTry, Goto, LockNext, handleVars, TakeOK
<1>24. ASSUME NEW p \in Threads, GroupLockTake(p) PROVE TakeOK'
  BY <1>24, <1>a, <1>b, TaskOf DEF GroupLockTake, LockNext, Goto, TakeOK, MutexOK
<1>25. ASSUME NEW p \in Threads, Finish(p) PROVE TakeOK'
  BY <1>25, <1>a, <1>b, TaskOf DEF Finish, Call, Goto, handleVars, TakeOK
<1>26. ASSUME NEW p \in Threads, DestroyUnlock(p) PROVE TakeOK'
  BY <1>26, <1>a, <1>b, TaskOf DEF DestroyUnlock, Goto, TakeOK
<1>27. ASSUME NEW p \in Threads, DestroyWalk(p) PROVE TakeOK'
  BY <1>27, <1>a, <1>b, TaskOf DEF DestroyWalk, Goto, TakeOK
<1>28. ASSUME NEW p \in Threads, DestroyPending(p) PROVE TakeOK'
  BY <1>28, <1>a, <1>b, TaskOf DEF DestroyPending, Goto, handleVars, localVars, TakeOK
<1>29. ASSUME NEW p \in Threads, Notify(p) PROVE TakeOK'
  BY <1>29, <1>a, <1>b, TaskOf DEF Notify, handleVars, TakeOK
<1>30. ASSUME NEW p \in Threads, NotifyDone(p) PROVE TakeOK'
  BY <1>30, <1>a, <1>b, TaskOf DEF NotifyDone, Goto, Call, Return, handleVars, TakeOK
<1>31. ASSUME NEW p \in Threads, DestroySpare(p) PROVE TakeOK'
  BY <1>31, <1>a, <1>b, TaskOf DEF DestroySpare, Goto, Call, handleVars, TakeOK
<1>32. ASSUME NEW p \in Threads, DestroyNext(p) PROVE TakeOK'
  BY <1>32, <1>a, <1>b, TaskOf DEF DestroyNext, Goto, handleVars, TakeOK
<1>33. ASSUME NEW p \in Threads, Discard(p) PROVE TakeOK'
  BY <1>33, <1>a, <1>b, TaskOf DEF Discard, Call, Goto, handleVars, TakeOK
<1>34. CASE UNCHANGED vars
  BY <1>34 DEF vars, handleVars, localVars, TakeOK
<1>35. ASSUME NEW p \in Threads, Step(p) PROVE TakeOK'
  BY <1>35, <1>3, <1>4, <1>5, <1>6, <1>7, <1>8, <1>9, <1>10, <1>11, <1>12, <1>13, <1>14, <1>15, <1>16, <1>17, <1>18, <1>19, <1>20, <1>21, <1>22, <1>23, <1>24, <1>25, <1>26, <1>27, <1>28, <1>29, <1>30, <1>31, <1>32 DEF Step
<1>36. ASSUME NEW t \in Tasks, Discard(Worker(t)) PROVE TakeOK'
  BY <1>33, <1>36, ThreadsOf
<1> QED
  BY <1>1, <1>2, <1>34, <1>35, <1>36 DEF Next, Rest

\* A drain leaves a decrement owing only where it found a waiter.
LEMMA PayNext == TypeOK /\ EntriesOK /\ PayOK /\ [Next]_vars => PayOK'
<1> SUFFICES ASSUME TypeOK, EntriesOK, PayOK, [Next]_vars PROVE PayOK' OBVIOUS
<1>a. /\ pc \in [Threads -> Labels]
      /\ grp \in [Threads -> Groups]
      /\ ret \in [Threads -> {"done", "ts_check", "publish", "dtor_next"}]
  BY DEF TypeOK
<1>1. ASSUME NEW t \in Tasks, Submit(t) PROVE PayOK'
  BY <1>1, <1>a DEF Submit, Goto, localVars, PayOK
<1>2. ASSUME NEW t \in Tasks, StopPool(t) PROVE PayOK'
  BY <1>2, <1>a DEF StopPool, localVars, PayOK
<1>3. ASSUME NEW p \in Threads, TryAcquireCheck(p) PROVE PayOK'
  BY <1>3, <1>a DEF TryAcquireCheck, Goto, localVars, PayOK
<1>4. ASSUME NEW p \in Threads, TryAcquireTake(p) PROVE PayOK'
  BY <1>4, <1>a DEF TryAcquireTake, Goto, localVars, PayOK
<1>5. ASSUME NEW p \in Threads, TryAcquireRecheck(p) PROVE PayOK'
  BY <1>5, <1>a DEF TryAcquireRecheck, Goto, Call, PayOK
<1>6. ASSUME NEW p \in Threads, TrySubmitCheck(p) PROVE PayOK'
  BY <1>6, <1>a DEF TrySubmitCheck, Goto, localVars, PayOK
<1>7. ASSUME NEW p \in Threads, TrySubmitTake(p) PROVE PayOK'
  BY <1>7, <1>a DEF TrySubmitTake, Goto, localVars, PayOK
<1>8. ASSUME NEW p \in Threads, TrySubmitRecheck(p) PROVE PayOK'
  BY <1>8, <1>a DEF TrySubmitRecheck, Goto, Call, PayOK
<1>9. ASSUME NEW p \in Threads, HandToPool(p) PROVE PayOK'
  BY <1>9, <1>a DEF HandToPool, Goto, Call, PayOK
<1>10. ASSUME NEW p \in Threads, ParkPublish(p) PROVE PayOK'
  BY <1>10, <1>a DEF ParkPublish, Goto, localVars, PayOK
<1>11. ASSUME NEW p \in Threads, ReconcileReserve(p) PROVE PayOK'
  BY <1>11, <1>a DEF ReconcileReserve, Goto, localVars, PayOK
<1>12. ASSUME NEW p \in Threads, ReconcileYield(p) PROVE PayOK'
  BY <1>12, <1>a DEF ReconcileYield, Goto, Call, PayOK
<1>13. ASSUME NEW p \in Threads, ReconcileClaim(p) PROVE PayOK'
  BY <1>13, <1>a DEF ReconcileClaim, Goto, Call, PayOK
<1>14. ASSUME NEW p \in Threads, ReleaseAdd(p) PROVE PayOK'
  BY <1>14, <1>a DEF ReleaseAdd, Goto, localVars, PayOK
<1>15. ASSUME NEW p \in Threads, ReleaseChoose(p) PROVE PayOK'
  BY <1>15, <1>a DEF ReleaseChoose, Goto, localVars, PayOK
<1>16. ASSUME NEW p \in Threads, NotifySlowPath(p) PROVE PayOK'
  BY <1>16, <1>a DEF NotifySlowPath, Goto, PayOK
<1>17. ASSUME NEW p \in Threads, DrainScan(p) PROVE PayOK'
  BY <1>17, <1>a DEF DrainScan, Goto, Return, PayOK
<1>18. ASSUME NEW p \in Threads, DrainClaim(p) PROVE PayOK'
  <2>1. entry[p] \in Fast /\ TaskGroups[entry[p]] = {grp[p]} /\ grp' = grp
    BY <1>18 DEF DrainClaim, EntriesOK
  <2> QED BY <1>18, <2>1, <1>a DEF DrainClaim, Goto, Return, PayOK
<1>19. ASSUME NEW p \in Threads, DrainPay(p) PROVE PayOK'
  BY <1>19, <1>a DEF DrainPay, Return, Goto, localVars, PayOK
<1>20. ASSUME NEW p \in Threads, LockAnnounce(p) PROVE PayOK'
  BY <1>20, <1>a DEF LockAnnounce, Goto, localVars, PayOK
<1>21. ASSUME NEW p \in Threads, LockInsert(p) PROVE PayOK'
  BY <1>21, <1>a DEF LockInsert, Goto, PayOK
<1>22. ASSUME NEW p \in Threads, WorkerDequeue(p) PROVE PayOK'
  BY <1>22, <1>a DEF WorkerDequeue, Goto, localVars, PayOK
<1>23. ASSUME NEW p \in Threads, GroupLockTry(p) PROVE PayOK'
  BY <1>23, <1>a DEF GroupLockTry, Goto, LockNext, PayOK
<1>24. ASSUME NEW p \in Threads, GroupLockTake(p) PROVE PayOK'
  BY <1>24, <1>a DEF GroupLockTake, LockNext, Goto, PayOK
<1>25. ASSUME NEW p \in Threads, Finish(p) PROVE PayOK'
  BY <1>25, <1>a DEF Finish, Call, Goto, PayOK
<1>26. ASSUME NEW p \in Threads, DestroyUnlock(p) PROVE PayOK'
  BY <1>26, <1>a DEF DestroyUnlock, Goto, PayOK
<1>27. ASSUME NEW p \in Threads, DestroyWalk(p) PROVE PayOK'
  BY <1>27, <1>a DEF DestroyWalk, Goto, PayOK
<1>28. ASSUME NEW p \in Threads, DestroyPending(p) PROVE PayOK'
  BY <1>28, <1>a DEF DestroyPending, Goto, localVars, PayOK
<1>29. ASSUME NEW p \in Threads, Notify(p) PROVE PayOK'
  BY <1>29, <1>a DEF Notify, PayOK
<1>30. ASSUME NEW p \in Threads, NotifyDone(p) PROVE PayOK'
  BY <1>30, <1>a DEF NotifyDone, Goto, Call, Return, PayOK
<1>31. ASSUME NEW p \in Threads, DestroySpare(p) PROVE PayOK'
  BY <1>31, <1>a DEF DestroySpare, Goto, Call, PayOK
<1>32. ASSUME NEW p \in Threads, DestroyNext(p) PROVE PayOK'
  BY <1>32, <1>a DEF DestroyNext, Goto, PayOK
<1>33. ASSUME NEW p \in Threads, Discard(p) PROVE PayOK'
  BY <1>33, <1>a DEF Discard, Call, Goto, PayOK
<1>34. CASE UNCHANGED vars
  BY <1>34 DEF vars, localVars, PayOK
<1>35. ASSUME NEW p \in Threads, Step(p) PROVE PayOK'
  BY <1>35, <1>3, <1>4, <1>5, <1>6, <1>7, <1>8, <1>9, <1>10, <1>11, <1>12, <1>13, <1>14, <1>15, <1>16, <1>17, <1>18, <1>19, <1>20, <1>21, <1>22, <1>23, <1>24, <1>25, <1>26, <1>27, <1>28, <1>29, <1>30, <1>31, <1>32 DEF Step
<1>36. ASSUME NEW t \in Tasks, Discard(Worker(t)) PROVE PayOK'
  BY <1>33, <1>36, ThreadsOf
<1> QED
  BY <1>1, <1>2, <1>34, <1>35, <1>36 DEF Next, Rest

LEMMA ThreadForms ==
  /\ \A p \in Threads : p = Submitter(p[1]) \/ p = Worker(p[1])
  /\ \A t, u \in Tasks : /\ Submitter(t) # Worker(u)
                         /\ Submitter(t) = Submitter(u) => t = u
                         /\ Worker(t) = Worker(u) => t = u
                         /\ Submitter(t)[1] = t
                         /\ Worker(t)[1] = t
  BY DEF Threads, Submitter, Worker

\* What RolesOK says of a thread by its label.
LEMMA RoleForms ==
  ASSUME RolesOK, NEW p \in Threads
  PROVE  /\ p[1] \in Tasks
         /\ pc[p] \in SubmitLabels => p = Submitter(p[1])
         /\ pc[p] = "wait" => p = Worker(p[1])
         /\ ret[p] \in {"ts_check", "publish"} => p = Submitter(p[1]) /\ p[1] \in Fast
         /\ pc[p] \in FastLabels => p[1] \in Fast
         /\ pc[p] \in SlowLabels => p[1] \notin Fast
  BY DEF RolesOK, Threads, Submitter, Worker, Slow

\* The threads of a single-group task agree with where it is.
LEMMA ProgressNext == TypeOK /\ RolesOK /\ BucketsOK /\ EntriesOK /\ ProgressOK /\ [Next]_vars => ProgressOK'
<1> SUFFICES ASSUME TypeOK, RolesOK, BucketsOK, EntriesOK, ProgressOK, [Next]_vars PROVE ProgressOK' OBVIOUS
<1>a. /\ pc \in [Threads -> Labels]
      /\ state \in [Tasks -> States]
      /\ slot \in [Tasks -> BOOLEAN]
      /\ ret \in [Threads -> {"done", "ts_check", "publish", "dtor_next"}]
  BY DEF TypeOK
<1>1. ASSUME NEW t \in Tasks, Submit(t) PROVE ProgressOK'
  BY <1>1, <1>a, ThreadsOf, ThreadForms, Paths DEF Submit, Goto, handleVars, localVars, ProgressOK, BeforeParking
<1>2. ASSUME NEW t \in Tasks, StopPool(t) PROVE ProgressOK'
  BY <1>2, <1>a, ThreadsOf, ThreadForms, Paths DEF StopPool, handleVars, localVars, ProgressOK, BeforeParking
<1>3. ASSUME NEW p \in Threads, TryAcquireCheck(p) PROVE ProgressOK'
  <2>1. /\ p[1] \in Tasks
        /\ pc[p] \in SubmitLabels => p = Submitter(p[1])
        /\ pc[p] = "wait" => p = Worker(p[1])
        /\ p = Submitter(p[1]) \/ p = Worker(p[1])
        /\ ret[p] \in {"ts_check", "publish"} => p = Submitter(p[1]) /\ p[1] \in Fast
        /\ pc[p] \in FastLabels => p[1] \in Fast
        /\ pc[p] \in SlowLabels => p[1] \notin Fast
    BY RoleForms, ThreadForms
  <2> QED BY <1>3, <2>1, <1>a, Paths, ThreadsOf, ThreadForms
    DEF TryAcquireCheck, Goto, handleVars, poolVars, localVars, ProgressOK, BeforeParking, SubmitLabels, FastLabels, SlowLabels
<1>4. ASSUME NEW p \in Threads, TryAcquireTake(p) PROVE ProgressOK'
  <2>1. /\ p[1] \in Tasks
        /\ pc[p] \in SubmitLabels => p = Submitter(p[1])
        /\ pc[p] = "wait" => p = Worker(p[1])
        /\ p = Submitter(p[1]) \/ p = Worker(p[1])
        /\ ret[p] \in {"ts_check", "publish"} => p = Submitter(p[1]) /\ p[1] \in Fast
        /\ pc[p] \in FastLabels => p[1] \in Fast
        /\ pc[p] \in SlowLabels => p[1] \notin Fast
    BY RoleForms, ThreadForms
  <2> QED BY <1>4, <2>1, <1>a, Paths, ThreadsOf, ThreadForms
    DEF TryAcquireTake, Goto, handleVars, poolVars, localVars, ProgressOK, BeforeParking, SubmitLabels, FastLabels, SlowLabels
<1>5. ASSUME NEW p \in Threads, TryAcquireRecheck(p) PROVE ProgressOK'
  <2>1. /\ p[1] \in Tasks
        /\ pc[p] \in SubmitLabels => p = Submitter(p[1])
        /\ pc[p] = "wait" => p = Worker(p[1])
        /\ p = Submitter(p[1]) \/ p = Worker(p[1])
        /\ ret[p] \in {"ts_check", "publish"} => p = Submitter(p[1]) /\ p[1] \in Fast
        /\ pc[p] \in FastLabels => p[1] \in Fast
        /\ pc[p] \in SlowLabels => p[1] \notin Fast
    BY RoleForms, ThreadForms
  <2> QED BY <1>5, <2>1, <1>a, Paths, ThreadsOf, ThreadForms
    DEF TryAcquireRecheck, Goto, Call, handleVars, ProgressOK, BeforeParking, SubmitLabels, FastLabels, SlowLabels
<1>6. ASSUME NEW p \in Threads, TrySubmitCheck(p) PROVE ProgressOK'
  <2>1. /\ p[1] \in Tasks
        /\ pc[p] \in SubmitLabels => p = Submitter(p[1])
        /\ pc[p] = "wait" => p = Worker(p[1])
        /\ p = Submitter(p[1]) \/ p = Worker(p[1])
        /\ ret[p] \in {"ts_check", "publish"} => p = Submitter(p[1]) /\ p[1] \in Fast
        /\ pc[p] \in FastLabels => p[1] \in Fast
        /\ pc[p] \in SlowLabels => p[1] \notin Fast
    BY RoleForms, ThreadForms
  <2> QED BY <1>6, <2>1, <1>a, Paths, ThreadsOf, ThreadForms
    DEF TrySubmitCheck, Goto, handleVars, poolVars, localVars, ProgressOK, BeforeParking, SubmitLabels, FastLabels, SlowLabels
<1>7. ASSUME NEW p \in Threads, TrySubmitTake(p) PROVE ProgressOK'
  <2>1. /\ p[1] \in Tasks
        /\ pc[p] \in SubmitLabels => p = Submitter(p[1])
        /\ pc[p] = "wait" => p = Worker(p[1])
        /\ p = Submitter(p[1]) \/ p = Worker(p[1])
        /\ ret[p] \in {"ts_check", "publish"} => p = Submitter(p[1]) /\ p[1] \in Fast
        /\ pc[p] \in FastLabels => p[1] \in Fast
        /\ pc[p] \in SlowLabels => p[1] \notin Fast
    BY RoleForms, ThreadForms
  <2> QED BY <1>7, <2>1, <1>a, Paths, ThreadsOf, ThreadForms
    DEF TrySubmitTake, Goto, handleVars, poolVars, localVars, ProgressOK, BeforeParking, SubmitLabels, FastLabels, SlowLabels
<1>8. ASSUME NEW p \in Threads, TrySubmitRecheck(p) PROVE ProgressOK'
  <2>1. /\ p[1] \in Tasks
        /\ pc[p] \in SubmitLabels => p = Submitter(p[1])
        /\ pc[p] = "wait" => p = Worker(p[1])
        /\ p = Submitter(p[1]) \/ p = Worker(p[1])
        /\ ret[p] \in {"ts_check", "publish"} => p = Submitter(p[1]) /\ p[1] \in Fast
        /\ pc[p] \in FastLabels => p[1] \in Fast
        /\ pc[p] \in SlowLabels => p[1] \notin Fast
    BY RoleForms, ThreadForms
  <2> QED BY <1>8, <2>1, <1>a, Paths, ThreadsOf, ThreadForms
    DEF TrySubmitRecheck, Goto, Call, handleVars, poolVars, ProgressOK, BeforeParking, SubmitLabels, FastLabels, SlowLabels
<1>9. ASSUME NEW p \in Threads, HandToPool(p) PROVE ProgressOK'
  <2>1. /\ p[1] \in Tasks
        /\ pc[p] \in SubmitLabels => p = Submitter(p[1])
        /\ pc[p] = "wait" => p = Worker(p[1])
        /\ p = Submitter(p[1]) \/ p = Worker(p[1])
        /\ ret[p] \in {"ts_check", "publish"} => p = Submitter(p[1]) /\ p[1] \in Fast
        /\ pc[p] \in FastLabels => p[1] \in Fast
        /\ pc[p] \in SlowLabels => p[1] \notin Fast
    BY RoleForms, ThreadForms
  <2> QED BY <1>9, <2>1, <1>a, Paths, ThreadsOf, ThreadForms
    DEF HandToPool, Goto, Call, handleVars, ProgressOK, BeforeParking, SubmitLabels, FastLabels, SlowLabels
<1>10. ASSUME NEW p \in Threads, ParkPublish(p) PROVE ProgressOK'
  <2>1. /\ p[1] \in Tasks
        /\ pc[p] \in SubmitLabels => p = Submitter(p[1])
        /\ pc[p] = "wait" => p = Worker(p[1])
        /\ p = Submitter(p[1]) \/ p = Worker(p[1])
        /\ ret[p] \in {"ts_check", "publish"} => p = Submitter(p[1]) /\ p[1] \in Fast
        /\ pc[p] \in FastLabels => p[1] \in Fast
        /\ pc[p] \in SlowLabels => p[1] \notin Fast
    BY RoleForms, ThreadForms
  <2> QED BY <1>10, <2>1, <1>a, Paths, ThreadsOf, ThreadForms
    DEF ParkPublish, Goto, handleVars, localVars, ProgressOK, BeforeParking, SubmitLabels, FastLabels, SlowLabels
<1>11. ASSUME NEW p \in Threads, ReconcileReserve(p) PROVE ProgressOK'
  <2>1. /\ p[1] \in Tasks
        /\ pc[p] \in SubmitLabels => p = Submitter(p[1])
        /\ pc[p] = "wait" => p = Worker(p[1])
        /\ p = Submitter(p[1]) \/ p = Worker(p[1])
        /\ ret[p] \in {"ts_check", "publish"} => p = Submitter(p[1]) /\ p[1] \in Fast
        /\ pc[p] \in FastLabels => p[1] \in Fast
        /\ pc[p] \in SlowLabels => p[1] \notin Fast
    BY RoleForms, ThreadForms
  <2> QED BY <1>11, <2>1, <1>a, Paths, ThreadsOf, ThreadForms
    DEF ReconcileReserve, Goto, handleVars, poolVars, localVars, ProgressOK, BeforeParking, SubmitLabels, FastLabels, SlowLabels
<1>12. ASSUME NEW p \in Threads, ReconcileYield(p) PROVE ProgressOK'
  <2>1. /\ p[1] \in Tasks
        /\ pc[p] \in SubmitLabels => p = Submitter(p[1])
        /\ pc[p] = "wait" => p = Worker(p[1])
        /\ p = Submitter(p[1]) \/ p = Worker(p[1])
        /\ ret[p] \in {"ts_check", "publish"} => p = Submitter(p[1]) /\ p[1] \in Fast
        /\ pc[p] \in FastLabels => p[1] \in Fast
        /\ pc[p] \in SlowLabels => p[1] \notin Fast
    BY RoleForms, ThreadForms
  <2> QED BY <1>12, <2>1, <1>a, Paths, ThreadsOf, ThreadForms
    DEF ReconcileYield, Goto, Call, handleVars, poolVars, ProgressOK, BeforeParking, SubmitLabels, FastLabels, SlowLabels
<1>13. ASSUME NEW p \in Threads, ReconcileClaim(p) PROVE ProgressOK'
  <2>1. /\ p[1] \in Tasks
        /\ pc[p] \in SubmitLabels => p = Submitter(p[1])
        /\ pc[p] = "wait" => p = Worker(p[1])
        /\ p = Submitter(p[1]) \/ p = Worker(p[1])
        /\ ret[p] \in {"ts_check", "publish"} => p = Submitter(p[1]) /\ p[1] \in Fast
        /\ pc[p] \in FastLabels => p[1] \in Fast
        /\ pc[p] \in SlowLabels => p[1] \notin Fast
    BY RoleForms, ThreadForms
  <2> QED BY <1>13, <2>1, <1>a, Paths, ThreadsOf, ThreadForms
    DEF ReconcileClaim, Goto, Call, poolVars, ProgressOK, BeforeParking, SubmitLabels, FastLabels, SlowLabels
<1>14. ASSUME NEW p \in Threads, ReleaseAdd(p) PROVE ProgressOK'
  <2>1. /\ p[1] \in Tasks
        /\ pc[p] \in SubmitLabels => p = Submitter(p[1])
        /\ pc[p] = "wait" => p = Worker(p[1])
        /\ p = Submitter(p[1]) \/ p = Worker(p[1])
        /\ ret[p] \in {"ts_check", "publish"} => p = Submitter(p[1]) /\ p[1] \in Fast
        /\ pc[p] \in FastLabels => p[1] \in Fast
        /\ pc[p] \in SlowLabels => p[1] \notin Fast
    BY RoleForms, ThreadForms
  <2> QED BY <1>14, <2>1, <1>a, Paths, ThreadsOf, ThreadForms
    DEF ReleaseAdd, Goto, handleVars, poolVars, localVars, ProgressOK, BeforeParking, SubmitLabels, FastLabels, SlowLabels
<1>15. ASSUME NEW p \in Threads, ReleaseChoose(p) PROVE ProgressOK'
  <2>1. /\ p[1] \in Tasks
        /\ pc[p] \in SubmitLabels => p = Submitter(p[1])
        /\ pc[p] = "wait" => p = Worker(p[1])
        /\ p = Submitter(p[1]) \/ p = Worker(p[1])
        /\ ret[p] \in {"ts_check", "publish"} => p = Submitter(p[1]) /\ p[1] \in Fast
        /\ pc[p] \in FastLabels => p[1] \in Fast
        /\ pc[p] \in SlowLabels => p[1] \notin Fast
    BY RoleForms, ThreadForms
  <2> QED BY <1>15, <2>1, <1>a, Paths, ThreadsOf, ThreadForms
    DEF ReleaseChoose, Goto, handleVars, poolVars, localVars, ProgressOK, BeforeParking, SubmitLabels, FastLabels, SlowLabels
<1>16. ASSUME NEW p \in Threads, NotifySlowPath(p) PROVE ProgressOK'
  <2>1. /\ p[1] \in Tasks
        /\ pc[p] \in SubmitLabels => p = Submitter(p[1])
        /\ pc[p] = "wait" => p = Worker(p[1])
        /\ p = Submitter(p[1]) \/ p = Worker(p[1])
        /\ ret[p] \in {"ts_check", "publish"} => p = Submitter(p[1]) /\ p[1] \in Fast
        /\ pc[p] \in FastLabels => p[1] \in Fast
        /\ pc[p] \in SlowLabels => p[1] \notin Fast
    BY RoleForms, ThreadForms
  <2> QED BY <1>16, <2>1, <1>a, Paths, ThreadsOf, ThreadForms
    DEF NotifySlowPath, Goto, poolVars, ProgressOK, BeforeParking, SubmitLabels, FastLabels, SlowLabels
<1>17. ASSUME NEW p \in Threads, DrainScan(p) PROVE ProgressOK'
  <2>1. /\ p[1] \in Tasks
        /\ p = Submitter(p[1]) \/ p = Worker(p[1])
        /\ ret[p] \in {"ts_check", "publish"} => p = Submitter(p[1]) /\ p[1] \in Fast
    BY RoleForms, ThreadForms
  <2>2. CASE wait_buckets[grp[p]][scan[p]] = <<>>
    <3>1. /\ pc[p] = "drain" /\ UNCHANGED <<state, slot, ret>>
          /\ pc' = pc \/ pc' = [pc EXCEPT ![p] = ret[p]]
      BY <1>17, <2>2 DEF DrainScan, Return, Goto, handleVars
    <3> QED BY <2>1, <3>1, <1>a, Paths, ThreadsOf, ThreadForms DEF ProgressOK, BeforeParking
  <2>3. CASE wait_buckets[grp[p]][scan[p]] # <<>>
    <3> DEFINE h == Head(wait_buckets[grp[p]][scan[p]])
    <3>1. h \in Fast /\ state[h] = "parked"
      <4>1. grp[p] \in Groups /\ scan[p] \in Buckets
        BY GroupsOf, ScanIn
      <4>2. wait_buckets[grp[p]][scan[p]] \in Seq(Tasks)
        BY <4>1, BucketType
      <4> QED BY <2>3, <4>1, <4>2 DEF BucketsOK, WaitsIn
    <3>2. /\ pc[p] = "drain" /\ UNCHANGED <<slot, ret>>
          /\ state' = [state EXCEPT ![h] = "drained"]
          /\ pc' = [pc EXCEPT ![p] = "claim"]
      BY <1>17, <2>3 DEF DrainScan, Goto, handleVars
    <3> HIDE DEF h
    <3> QED BY <2>1, <3>1, <3>2, <1>a, Paths, ThreadsOf, ThreadForms DEF ProgressOK, BeforeParking
  <2> QED BY <2>2, <2>3
<1>18. ASSUME NEW p \in Threads, DrainClaim(p) PROVE ProgressOK'
  <2>1. /\ p[1] \in Tasks
        /\ p = Submitter(p[1]) \/ p = Worker(p[1])
        /\ ret[p] \in {"ts_check", "publish"} => p = Submitter(p[1]) /\ p[1] \in Fast
    BY RoleForms, ThreadForms
  <2>2. /\ pc[p] = "claim" /\ UNCHANGED ret
        /\ slot' = [slot EXCEPT ![entry[p]] = TRUE]
        /\ state' = [state EXCEPT ![entry[p]] = "pooled"]
        /\ pc' = [pc EXCEPT ![p] = ret[p]] \/ pc' = [pc EXCEPT ![p] = "pay"]
    BY <1>18 DEF DrainClaim, Return, Goto
  <2>3. entry[p] \in Fast /\ state[entry[p]] = "drained"
    BY <2>2 DEF EntriesOK
  <2> QED BY <2>1, <2>2, <2>3, <1>a, Paths, ThreadsOf, ThreadForms DEF ProgressOK, BeforeParking
<1>19. ASSUME NEW p \in Threads, DrainPay(p) PROVE ProgressOK'
  <2>1. /\ p[1] \in Tasks
        /\ pc[p] \in SubmitLabels => p = Submitter(p[1])
        /\ pc[p] = "wait" => p = Worker(p[1])
        /\ p = Submitter(p[1]) \/ p = Worker(p[1])
        /\ ret[p] \in {"ts_check", "publish"} => p = Submitter(p[1]) /\ p[1] \in Fast
        /\ pc[p] \in FastLabels => p[1] \in Fast
        /\ pc[p] \in SlowLabels => p[1] \notin Fast
    BY RoleForms, ThreadForms
  <2> QED BY <1>19, <2>1, <1>a, Paths, ThreadsOf, ThreadForms
    DEF DrainPay, Return, Goto, handleVars, poolVars, localVars, ProgressOK, BeforeParking, SubmitLabels, FastLabels, SlowLabels
<1>20. ASSUME NEW p \in Threads, LockAnnounce(p) PROVE ProgressOK'
  <2>1. /\ p[1] \in Tasks
        /\ pc[p] \in SubmitLabels => p = Submitter(p[1])
        /\ pc[p] = "wait" => p = Worker(p[1])
        /\ p = Submitter(p[1]) \/ p = Worker(p[1])
        /\ ret[p] \in {"ts_check", "publish"} => p = Submitter(p[1]) /\ p[1] \in Fast
        /\ pc[p] \in FastLabels => p[1] \in Fast
        /\ pc[p] \in SlowLabels => p[1] \notin Fast
    BY RoleForms, ThreadForms
  <2> QED BY <1>20, <2>1, <1>a, Paths, ThreadsOf, ThreadForms
    DEF LockAnnounce, Goto, handleVars, poolVars, localVars, ProgressOK, BeforeParking, SubmitLabels, FastLabels, SlowLabels
<1>21. ASSUME NEW p \in Threads, LockInsert(p) PROVE ProgressOK'
  <2>1. /\ p[1] \in Tasks
        /\ pc[p] \in SubmitLabels => p = Submitter(p[1])
        /\ pc[p] = "wait" => p = Worker(p[1])
        /\ p = Submitter(p[1]) \/ p = Worker(p[1])
        /\ ret[p] \in {"ts_check", "publish"} => p = Submitter(p[1]) /\ p[1] \in Fast
        /\ pc[p] \in FastLabels => p[1] \in Fast
        /\ pc[p] \in SlowLabels => p[1] \notin Fast
    BY RoleForms, ThreadForms
  <2> QED BY <1>21, <2>1, <1>a, Paths, ThreadsOf, ThreadForms
    DEF LockInsert, Goto, poolVars, ProgressOK, BeforeParking, SubmitLabels, FastLabels, SlowLabels
<1>22. ASSUME NEW p \in Threads, WorkerDequeue(p) PROVE ProgressOK'
  <2>1. /\ p[1] \in Tasks
        /\ pc[p] \in SubmitLabels => p = Submitter(p[1])
        /\ pc[p] = "wait" => p = Worker(p[1])
        /\ p = Submitter(p[1]) \/ p = Worker(p[1])
        /\ ret[p] \in {"ts_check", "publish"} => p = Submitter(p[1]) /\ p[1] \in Fast
        /\ pc[p] \in FastLabels => p[1] \in Fast
        /\ pc[p] \in SlowLabels => p[1] \notin Fast
    BY RoleForms, ThreadForms
  <2> QED BY <1>22, <2>1, <1>a, Paths, ThreadsOf, ThreadForms
    DEF WorkerDequeue, Goto, handleVars, localVars, ProgressOK, BeforeParking, SubmitLabels, FastLabels, SlowLabels
<1>23. ASSUME NEW p \in Threads, GroupLockTry(p) PROVE ProgressOK'
  <2>1. /\ p[1] \in Tasks
        /\ pc[p] \in SubmitLabels => p = Submitter(p[1])
        /\ pc[p] = "wait" => p = Worker(p[1])
        /\ p = Submitter(p[1]) \/ p = Worker(p[1])
        /\ ret[p] \in {"ts_check", "publish"} => p = Submitter(p[1]) /\ p[1] \in Fast
        /\ pc[p] \in FastLabels => p[1] \in Fast
        /\ pc[p] \in SlowLabels => p[1] \notin Fast
    BY RoleForms, ThreadForms
  <2> QED BY <1>23, <2>1, <1>a, Paths, ThreadsOf, ThreadForms
    DEF GroupLockTry, Goto, LockNext, handleVars, ProgressOK, BeforeParking, SubmitLabels, FastLabels, SlowLabels
<1>24. ASSUME NEW p \in Threads, GroupLockTake(p) PROVE ProgressOK'
  <2>1. /\ p[1] \in Tasks
        /\ pc[p] \in SubmitLabels => p = Submitter(p[1])
        /\ pc[p] = "wait" => p = Worker(p[1])
        /\ p = Submitter(p[1]) \/ p = Worker(p[1])
        /\ ret[p] \in {"ts_check", "publish"} => p = Submitter(p[1]) /\ p[1] \in Fast
        /\ pc[p] \in FastLabels => p[1] \in Fast
        /\ pc[p] \in SlowLabels => p[1] \notin Fast
    BY RoleForms, ThreadForms
  <2> QED BY <1>24, <2>1, <1>a, Paths, ThreadsOf, ThreadForms
    DEF GroupLockTake, LockNext, Goto, ProgressOK, BeforeParking, SubmitLabels, FastLabels, SlowLabels
<1>25. ASSUME NEW p \in Threads, Finish(p) PROVE ProgressOK'
  <2>1. /\ p[1] \in Tasks
        /\ pc[p] \in SubmitLabels => p = Submitter(p[1])
        /\ pc[p] = "wait" => p = Worker(p[1])
        /\ p = Submitter(p[1]) \/ p = Worker(p[1])
        /\ ret[p] \in {"ts_check", "publish"} => p = Submitter(p[1]) /\ p[1] \in Fast
        /\ pc[p] \in FastLabels => p[1] \in Fast
        /\ pc[p] \in SlowLabels => p[1] \notin Fast
    BY RoleForms, ThreadForms
  <2> QED BY <1>25, <2>1, <1>a, Paths, ThreadsOf, ThreadForms
    DEF Finish, Call, Goto, handleVars, ProgressOK, BeforeParking, SubmitLabels, FastLabels, SlowLabels
<1>26. ASSUME NEW p \in Threads, DestroyUnlock(p) PROVE ProgressOK'
  <2>1. /\ p[1] \in Tasks
        /\ pc[p] \in SubmitLabels => p = Submitter(p[1])
        /\ pc[p] = "wait" => p = Worker(p[1])
        /\ p = Submitter(p[1]) \/ p = Worker(p[1])
        /\ ret[p] \in {"ts_check", "publish"} => p = Submitter(p[1]) /\ p[1] \in Fast
        /\ pc[p] \in FastLabels => p[1] \in Fast
        /\ pc[p] \in SlowLabels => p[1] \notin Fast
    BY RoleForms, ThreadForms
  <2> QED BY <1>26, <2>1, <1>a, Paths, ThreadsOf, ThreadForms
    DEF DestroyUnlock, Goto, poolVars, ProgressOK, BeforeParking, SubmitLabels, FastLabels, SlowLabels
<1>27. ASSUME NEW p \in Threads, DestroyWalk(p) PROVE ProgressOK'
  <2>1. /\ p[1] \in Tasks
        /\ pc[p] \in SubmitLabels => p = Submitter(p[1])
        /\ pc[p] = "wait" => p = Worker(p[1])
        /\ p = Submitter(p[1]) \/ p = Worker(p[1])
        /\ ret[p] \in {"ts_check", "publish"} => p = Submitter(p[1]) /\ p[1] \in Fast
        /\ pc[p] \in FastLabels => p[1] \in Fast
        /\ pc[p] \in SlowLabels => p[1] \notin Fast
    BY RoleForms, ThreadForms
  <2> QED BY <1>27, <2>1, <1>a, Paths, ThreadsOf, ThreadForms
    DEF DestroyWalk, Goto, poolVars, ProgressOK, BeforeParking, SubmitLabels, FastLabels, SlowLabels
<1>28. ASSUME NEW p \in Threads, DestroyPending(p) PROVE ProgressOK'
  <2>1. /\ p[1] \in Tasks
        /\ pc[p] \in SubmitLabels => p = Submitter(p[1])
        /\ pc[p] = "wait" => p = Worker(p[1])
        /\ p = Submitter(p[1]) \/ p = Worker(p[1])
        /\ ret[p] \in {"ts_check", "publish"} => p = Submitter(p[1]) /\ p[1] \in Fast
        /\ pc[p] \in FastLabels => p[1] \in Fast
        /\ pc[p] \in SlowLabels => p[1] \notin Fast
    BY RoleForms, ThreadForms
  <2> QED BY <1>28, <2>1, <1>a, Paths, ThreadsOf, ThreadForms
    DEF DestroyPending, Goto, handleVars, poolVars, localVars, ProgressOK, BeforeParking, SubmitLabels, FastLabels, SlowLabels
<1>29. ASSUME NEW p \in Threads, Notify(p) PROVE ProgressOK'
  <2>1. /\ p[1] \in Tasks
        /\ pc[p] \in SubmitLabels => p = Submitter(p[1])
        /\ pc[p] = "wait" => p = Worker(p[1])
        /\ p = Submitter(p[1]) \/ p = Worker(p[1])
        /\ ret[p] \in {"ts_check", "publish"} => p = Submitter(p[1]) /\ p[1] \in Fast
        /\ pc[p] \in FastLabels => p[1] \in Fast
        /\ pc[p] \in SlowLabels => p[1] \notin Fast
    BY RoleForms, ThreadForms
  <2> QED BY <1>29, <2>1, <1>a, Paths, ThreadsOf, ThreadForms
    DEF Notify, handleVars, ProgressOK, BeforeParking, SubmitLabels, FastLabels, SlowLabels
<1>30. ASSUME NEW p \in Threads, NotifyDone(p) PROVE ProgressOK'
  <2>1. /\ p[1] \in Tasks
        /\ pc[p] \in SubmitLabels => p = Submitter(p[1])
        /\ pc[p] = "wait" => p = Worker(p[1])
        /\ p = Submitter(p[1]) \/ p = Worker(p[1])
        /\ ret[p] \in {"ts_check", "publish"} => p = Submitter(p[1]) /\ p[1] \in Fast
        /\ pc[p] \in FastLabels => p[1] \in Fast
        /\ pc[p] \in SlowLabels => p[1] \notin Fast
    BY RoleForms, ThreadForms
  <2> QED BY <1>30, <2>1, <1>a, Paths, ThreadsOf, ThreadForms
    DEF NotifyDone, Goto, Call, Return, handleVars, poolVars, ProgressOK, BeforeParking, SubmitLabels, FastLabels, SlowLabels
<1>31. ASSUME NEW p \in Threads, DestroySpare(p) PROVE ProgressOK'
  <2>1. /\ p[1] \in Tasks
        /\ pc[p] \in SubmitLabels => p = Submitter(p[1])
        /\ pc[p] = "wait" => p = Worker(p[1])
        /\ p = Submitter(p[1]) \/ p = Worker(p[1])
        /\ ret[p] \in {"ts_check", "publish"} => p = Submitter(p[1]) /\ p[1] \in Fast
        /\ pc[p] \in FastLabels => p[1] \in Fast
        /\ pc[p] \in SlowLabels => p[1] \notin Fast
    BY RoleForms, ThreadForms
  <2> QED BY <1>31, <2>1, <1>a, Paths, ThreadsOf, ThreadForms
    DEF DestroySpare, Goto, Call, handleVars, poolVars, ProgressOK, BeforeParking, SubmitLabels, FastLabels, SlowLabels
<1>32. ASSUME NEW p \in Threads, DestroyNext(p) PROVE ProgressOK'
  <2>1. /\ p[1] \in Tasks
        /\ pc[p] \in SubmitLabels => p = Submitter(p[1])
        /\ pc[p] = "wait" => p = Worker(p[1])
        /\ p = Submitter(p[1]) \/ p = Worker(p[1])
        /\ ret[p] \in {"ts_check", "publish"} => p = Submitter(p[1]) /\ p[1] \in Fast
        /\ pc[p] \in FastLabels => p[1] \in Fast
        /\ pc[p] \in SlowLabels => p[1] \notin Fast
    BY RoleForms, ThreadForms
  <2> QED BY <1>32, <2>1, <1>a, Paths, ThreadsOf, ThreadForms
    DEF DestroyNext, Goto, handleVars, poolVars, ProgressOK, BeforeParking, SubmitLabels, FastLabels, SlowLabels
<1>33. ASSUME NEW p \in Threads, Discard(p) PROVE ProgressOK'
  <2>1. /\ p[1] \in Tasks
        /\ pc[p] \in SubmitLabels => p = Submitter(p[1])
        /\ pc[p] = "wait" => p = Worker(p[1])
        /\ p = Submitter(p[1]) \/ p = Worker(p[1])
        /\ ret[p] \in {"ts_check", "publish"} => p = Submitter(p[1]) /\ p[1] \in Fast
        /\ pc[p] \in FastLabels => p[1] \in Fast
        /\ pc[p] \in SlowLabels => p[1] \notin Fast
    BY RoleForms, ThreadForms
  <2> QED BY <1>33, <2>1, <1>a, Paths, ThreadsOf, ThreadForms
    DEF Discard, Call, Goto, handleVars, ProgressOK, BeforeParking, SubmitLabels, FastLabels, SlowLabels
<1>34. CASE UNCHANGED vars
  BY <1>34 DEF vars, handleVars, poolVars, localVars, ProgressOK, BeforeParking
<1>35. ASSUME NEW p \in Threads, Step(p) PROVE ProgressOK'
  BY <1>35, <1>3, <1>4, <1>5, <1>6, <1>7, <1>8, <1>9, <1>10, <1>11, <1>12, <1>13, <1>14, <1>15, <1>16, <1>17, <1>18, <1>19, <1>20, <1>21, <1>22, <1>23, <1>24, <1>25, <1>26, <1>27, <1>28, <1>29, <1>30, <1>31, <1>32 DEF Step
<1>36. ASSUME NEW t \in Tasks, Discard(Worker(t)) PROVE ProgressOK'
  BY <1>33, <1>36, ThreadsOf
<1> QED
  BY <1>1, <1>2, <1>34, <1>35, <1>36 DEF Next, Rest

\* A dequeued entry is one drain's until that drain claims it: it leaves the
\* bucket when it is dequeued, and nothing else moves it.
LEMMA EntriesNext == TypeOK /\ RolesOK /\ ProgressOK /\ BucketsOK /\ EntriesOK /\ [Next]_vars => EntriesOK'
<1> SUFFICES ASSUME TypeOK, RolesOK, ProgressOK, BucketsOK, EntriesOK, [Next]_vars PROVE EntriesOK' OBVIOUS
<1>a. /\ pc \in [Threads -> Labels]
      /\ grp \in [Threads -> Groups]
      /\ state \in [Tasks -> States]
      /\ entry \in [Threads -> Tasks \cup {NoTask}]
      /\ ret \in [Threads -> {"done", "ts_check", "publish", "dtor_next"}]
  BY DEF TypeOK
<1>b. \A p \in Threads : pc[p] = "claim" => state[entry[p]] = "drained"
  BY DEF EntriesOK
<1>1. ASSUME NEW t \in Tasks, Submit(t) PROVE EntriesOK'
  <2>1. t \in Fast => state[t] = "new"
    BY <1>1 DEF Submit, ProgressOK
  <2> QED BY <1>1, <2>1, <1>a, <1>b, ThreadsOf DEF Submit, Goto, localVars, EntriesOK
<1>2. ASSUME NEW t \in Tasks, StopPool(t) PROVE EntriesOK'
  BY <1>2, <1>a, <1>b, ThreadsOf DEF StopPool, localVars, EntriesOK
<1>3. ASSUME NEW p \in Threads, TryAcquireCheck(p) PROVE EntriesOK'
  <2>1. p[1] \in Tasks /\ pc[p] \in Labels
    BY TaskOf, <1>a
  <2> QED BY <1>3, <2>1, <1>a, <1>b DEF TryAcquireCheck, Goto, poolVars, localVars, EntriesOK
<1>4. ASSUME NEW p \in Threads, TryAcquireTake(p) PROVE EntriesOK'
  <2>1. p[1] \in Tasks /\ pc[p] \in Labels
    BY TaskOf, <1>a
  <2> QED BY <1>4, <2>1, <1>a, <1>b DEF TryAcquireTake, Goto, poolVars, localVars, EntriesOK
<1>5. ASSUME NEW p \in Threads, TryAcquireRecheck(p) PROVE EntriesOK'
  <2>1. p[1] \in Tasks /\ (state[p[1]] = "submitting")
    <3>1. p[1] \in Tasks BY TaskOf
    <3>2. /\ pc[p] \in SubmitLabels => p = Submitter(p[1])
          /\ p = Submitter(p[1]) \/ p = Worker(p[1])
          /\ pc[p] \in FastLabels => p[1] \in Fast
      BY RoleForms, ThreadForms
    <3> QED BY <1>5, <3>1, <3>2 DEF TryAcquireRecheck, ProgressOK, BeforeParking, SubmitLabels, FastLabels
  <2>2. /\ pc[p] = "ta_recheck" /\ UNCHANGED <<entry, grp>>
        /\ state' = state \/ state' = [state EXCEPT ![p[1]] = "running"]
        /\ pc' = [pc EXCEPT ![p] = "rel_add"] \/ pc' = [pc EXCEPT ![p] = "run"]
    BY <1>5 DEF TryAcquireRecheck, Call, Goto
  <2> QED BY <2>1, <2>2, <1>a, <1>b, Paths DEF EntriesOK
<1>6. ASSUME NEW p \in Threads, TrySubmitCheck(p) PROVE EntriesOK'
  <2>1. p[1] \in Tasks /\ pc[p] \in Labels
    BY TaskOf, <1>a
  <2> QED BY <1>6, <2>1, <1>a, <1>b DEF TrySubmitCheck, Goto, poolVars, localVars, EntriesOK
<1>7. ASSUME NEW p \in Threads, TrySubmitTake(p) PROVE EntriesOK'
  <2>1. p[1] \in Tasks /\ pc[p] \in Labels
    BY TaskOf, <1>a
  <2> QED BY <1>7, <2>1, <1>a, <1>b DEF TrySubmitTake, Goto, poolVars, localVars, EntriesOK
<1>8. ASSUME NEW p \in Threads, TrySubmitRecheck(p) PROVE EntriesOK'
  <2>1. p[1] \in Tasks /\ pc[p] \in Labels
    BY TaskOf, <1>a
  <2> QED BY <1>8, <2>1, <1>a, <1>b DEF TrySubmitRecheck, Goto, Call, poolVars, EntriesOK
<1>9. ASSUME NEW p \in Threads, HandToPool(p) PROVE EntriesOK'
  <2>1. p[1] \in Tasks /\ (p[1] \in Fast => state[p[1]] = "submitting")
    <3>1. p[1] \in Tasks BY TaskOf
    <3>2. /\ pc[p] \in SubmitLabels => p = Submitter(p[1])
          /\ p = Submitter(p[1]) \/ p = Worker(p[1])
          /\ pc[p] \in FastLabels => p[1] \in Fast
      BY RoleForms, ThreadForms
    <3> QED BY <1>9, <3>1, <3>2 DEF HandToPool, ProgressOK, BeforeParking, SubmitLabels, FastLabels
  <2>2. /\ pc[p] = "hand" /\ UNCHANGED entry
        /\ grp' = grp \/ grp' = [grp EXCEPT ![p] = First(TaskGroups[p[1]])]
        /\ \E s \in {"pooled", "rejected"} : state' = [state EXCEPT ![p[1]] = s]
        /\ \E l \in {"done", "rel_add", "dtor"} : pc' = [pc EXCEPT ![p] = l]
    BY <1>9 DEF HandToPool, Call, Goto
  <2> QED BY <2>1, <2>2, <1>a, <1>b, Paths DEF EntriesOK
<1>10. ASSUME NEW p \in Threads, ParkPublish(p) PROVE EntriesOK'
  <2>1. p[1] \in Tasks /\ (state[p[1]] = "submitting")
    <3>1. p[1] \in Tasks BY TaskOf
    <3>2. /\ pc[p] \in SubmitLabels => p = Submitter(p[1])
          /\ p = Submitter(p[1]) \/ p = Worker(p[1])
          /\ pc[p] \in FastLabels => p[1] \in Fast
      BY RoleForms, ThreadForms
    <3> QED BY <1>10, <3>1, <3>2 DEF ParkPublish, ProgressOK, BeforeParking, SubmitLabels, FastLabels
  <2> QED BY <1>10, <2>1, <1>a, <1>b DEF ParkPublish, Goto, localVars, EntriesOK
<1>11. ASSUME NEW p \in Threads, ReconcileReserve(p) PROVE EntriesOK'
  <2>1. p[1] \in Tasks /\ pc[p] \in Labels
    BY TaskOf, <1>a
  <2> QED BY <1>11, <2>1, <1>a, <1>b DEF ReconcileReserve, Goto, poolVars, localVars, EntriesOK
<1>12. ASSUME NEW p \in Threads, ReconcileYield(p) PROVE EntriesOK'
  <2>1. p[1] \in Tasks /\ pc[p] \in Labels
    BY TaskOf, <1>a
  <2> QED BY <1>12, <2>1, <1>a, <1>b DEF ReconcileYield, Goto, Call, poolVars, EntriesOK
<1>13. ASSUME NEW p \in Threads, ReconcileClaim(p) PROVE EntriesOK'
  <2>1. p[1] \in Tasks /\ pc[p] \in Labels
    BY TaskOf, <1>a
  <2> QED BY <1>13, <2>1, <1>a, <1>b DEF ReconcileClaim, Goto, Call, poolVars, EntriesOK
<1>14. ASSUME NEW p \in Threads, ReleaseAdd(p) PROVE EntriesOK'
  <2>1. p[1] \in Tasks /\ pc[p] \in Labels
    BY TaskOf, <1>a
  <2> QED BY <1>14, <2>1, <1>a, <1>b DEF ReleaseAdd, Goto, poolVars, localVars, EntriesOK
<1>15. ASSUME NEW p \in Threads, ReleaseChoose(p) PROVE EntriesOK'
  <2>1. p[1] \in Tasks /\ pc[p] \in Labels
    BY TaskOf, <1>a
  <2> QED BY <1>15, <2>1, <1>a, <1>b DEF ReleaseChoose, Goto, poolVars, localVars, EntriesOK
<1>16. ASSUME NEW p \in Threads, NotifySlowPath(p) PROVE EntriesOK'
  <2>1. p[1] \in Tasks /\ pc[p] \in Labels
    BY TaskOf, <1>a
  <2> QED BY <1>16, <2>1, <1>a, <1>b DEF NotifySlowPath, Goto, poolVars, EntriesOK
<1>17. ASSUME NEW p \in Threads, DrainScan(p) PROVE EntriesOK'
  <2>1. CASE wait_buckets[grp[p]][scan[p]] = <<>>
    <3>1. /\ UNCHANGED <<state, entry, grp>>
          /\ pc' = pc \/ pc' = [pc EXCEPT ![p] = ret[p]]
      BY <1>17, <2>1 DEF DrainScan, Return, Goto
    <3> QED BY <3>1, <1>a DEF EntriesOK
  <2>2. CASE wait_buckets[grp[p]][scan[p]] # <<>>
    <3> DEFINE h == Head(wait_buckets[grp[p]][scan[p]])
    <3>1. h \in Fast /\ TaskGroups[h] = {grp[p]} /\ state[h] = "parked"
      <4>1. grp[p] \in Groups /\ scan[p] \in Buckets
        BY GroupsOf, ScanIn
      <4>2. wait_buckets[grp[p]][scan[p]] \in Seq(Tasks)
        BY <4>1, BucketType
      <4> QED BY <2>2, <4>1, <4>2 DEF BucketsOK, WaitsIn
    <3>2. /\ UNCHANGED grp
          /\ entry' = [entry EXCEPT ![p] = h]
          /\ state' = [state EXCEPT ![h] = "drained"]
          /\ pc' = [pc EXCEPT ![p] = "claim"]
      BY <1>17, <2>2 DEF DrainScan, Goto
    <3> HIDE DEF h
    <3> QED BY <3>1, <3>2, <1>a, <1>b, Paths DEF EntriesOK
  <2> QED BY <2>1, <2>2
<1>18. ASSUME NEW p \in Threads, DrainClaim(p) PROVE EntriesOK'
  <2>1. p[1] \in Tasks /\ pc[p] \in Labels
    BY TaskOf, <1>a
  <2> QED BY <1>18, <2>1, <1>a, <1>b DEF DrainClaim, Goto, Return, EntriesOK
<1>19. ASSUME NEW p \in Threads, DrainPay(p) PROVE EntriesOK'
  <2>1. p[1] \in Tasks /\ pc[p] \in Labels
    BY TaskOf, <1>a
  <2> QED BY <1>19, <2>1, <1>a, <1>b DEF DrainPay, Return, Goto, poolVars, localVars, EntriesOK
<1>20. ASSUME NEW p \in Threads, LockAnnounce(p) PROVE EntriesOK'
  <2>1. p[1] \in Tasks /\ pc[p] \in Labels
    BY TaskOf, <1>a
  <2> QED BY <1>20, <2>1, <1>a, <1>b DEF LockAnnounce, Goto, poolVars, localVars, EntriesOK
<1>21. ASSUME NEW p \in Threads, LockInsert(p) PROVE EntriesOK'
  <2>1. p[1] \in Tasks /\ pc[p] \in Labels
    BY TaskOf, <1>a
  <2> QED BY <1>21, <2>1, <1>a, <1>b DEF LockInsert, Goto, poolVars, EntriesOK
<1>22. ASSUME NEW p \in Threads, WorkerDequeue(p) PROVE EntriesOK'
  <2>1. p[1] \in Tasks
    BY TaskOf
  <2>2. /\ pc[p] = "wait" /\ UNCHANGED <<entry, grp>>
        /\ state[p[1]] = "pooled"
        /\ state' = state \/ state' = [state EXCEPT ![p[1]] = "running"]
        /\ pc' = [pc EXCEPT ![p] = "run"] \/ pc' = [pc EXCEPT ![p] = "lock"]
    BY <1>22 DEF WorkerDequeue, Goto, localVars
  <2> QED BY <2>1, <2>2, <1>a, <1>b, Paths DEF EntriesOK
<1>23. ASSUME NEW p \in Threads, GroupLockTry(p) PROVE EntriesOK'
  <2>1. p[1] \in Tasks /\ p[1] \notin Fast
    BY <1>23, RoleForms DEF GroupLockTry, SlowLabels
  <2>2. /\ pc[p] = "lock" /\ UNCHANGED entry
        /\ grp' = grp \/ \E g \in Groups : grp' = [grp EXCEPT ![p] = g]
        /\ state' = state \/ state' = [state EXCEPT ![p[1]] = "running"]
        /\ \E l \in {"lock", "run", "lock_take", "wait", "hand"} : pc' = [pc EXCEPT ![p] = l]
    BY <1>23, GroupsOf DEF GroupLockTry, LockNext, Goto
  <2> QED BY <2>1, <2>2, <1>a, <1>b, Paths DEF EntriesOK
<1>24. ASSUME NEW p \in Threads, GroupLockTake(p) PROVE EntriesOK'
  <2>1. p[1] \in Tasks /\ p[1] \notin Fast
    BY <1>24, RoleForms DEF GroupLockTake, SlowLabels
  <2>2. /\ pc[p] = "lock_take" /\ UNCHANGED entry
        /\ grp' = grp \/ \E g \in Groups : grp' = [grp EXCEPT ![p] = g]
        /\ state' = state \/ state' = [state EXCEPT ![p[1]] = "running"]
        /\ \E l \in {"lock", "run", "lock_take", "wait", "hand"} : pc' = [pc EXCEPT ![p] = l]
    BY <1>24, GroupsOf DEF GroupLockTake, LockNext, Goto
  <2> QED BY <2>1, <2>2, <1>a, <1>b, Paths DEF EntriesOK
<1>25. ASSUME NEW p \in Threads, Finish(p) PROVE EntriesOK'
  <2>1. p[1] \in Tasks /\ (p[1] \in Fast => state[p[1]] = "running")
    <3>1. p[1] \in Tasks BY TaskOf
    <3>2. /\ pc[p] \in SubmitLabels => p = Submitter(p[1])
          /\ p = Submitter(p[1]) \/ p = Worker(p[1])
          /\ pc[p] \in FastLabels => p[1] \in Fast
      BY RoleForms, ThreadForms
    <3> QED BY <1>25, <3>1, <3>2 DEF Finish, ProgressOK, BeforeParking, SubmitLabels, FastLabels
  <2> QED BY <1>25, <2>1, <1>a, <1>b DEF Finish, Call, Goto, EntriesOK
<1>26. ASSUME NEW p \in Threads, DestroyUnlock(p) PROVE EntriesOK'
  <2>1. p[1] \in Tasks /\ pc[p] \in Labels
    BY TaskOf, <1>a
  <2> QED BY <1>26, <2>1, <1>a, <1>b DEF DestroyUnlock, Goto, poolVars, EntriesOK
<1>27. ASSUME NEW p \in Threads, DestroyWalk(p) PROVE EntriesOK'
  <2>1. p[1] \in Tasks /\ pc[p] \in Labels
    BY TaskOf, <1>a
  <2> QED BY <1>27, <2>1, <1>a, <1>b DEF DestroyWalk, Goto, poolVars, EntriesOK
<1>28. ASSUME NEW p \in Threads, DestroyPending(p) PROVE EntriesOK'
  <2>1. p[1] \in Tasks /\ pc[p] \in Labels
    BY TaskOf, <1>a
  <2> QED BY <1>28, <2>1, <1>a, <1>b DEF DestroyPending, Goto, poolVars, localVars, EntriesOK
<1>29. ASSUME NEW p \in Threads, Notify(p) PROVE EntriesOK'
  <2>1. p[1] \in Tasks /\ pc[p] \in Labels
    BY TaskOf, <1>a
  <2> QED BY <1>29, <2>1, <1>a, <1>b DEF Notify, EntriesOK
<1>30. ASSUME NEW p \in Threads, NotifyDone(p) PROVE EntriesOK'
  <2>1. p[1] \in Tasks /\ pc[p] \in Labels
    BY TaskOf, <1>a
  <2> QED BY <1>30, <2>1, <1>a, <1>b DEF NotifyDone, Goto, Call, Return, poolVars, EntriesOK
<1>31. ASSUME NEW p \in Threads, DestroySpare(p) PROVE EntriesOK'
  <2>1. p[1] \in Tasks /\ pc[p] \in Labels
    BY TaskOf, <1>a
  <2> QED BY <1>31, <2>1, <1>a, <1>b DEF DestroySpare, Goto, Call, poolVars, EntriesOK
<1>32. ASSUME NEW p \in Threads, DestroyNext(p) PROVE EntriesOK'
  <2>1. p[1] \in Tasks /\ pc[p] \in Labels
    BY TaskOf, <1>a
  <2> QED BY <1>32, <2>1, <1>a, <1>b DEF DestroyNext, Goto, poolVars, EntriesOK
<1>33. ASSUME NEW p \in Threads, Discard(p) PROVE EntriesOK'
  <2>1. p[1] \in Tasks /\ pc[p] \in Labels
    BY TaskOf, <1>a
  <2> QED BY <1>33, <2>1, <1>a, <1>b DEF Discard, Call, Goto, EntriesOK
<1>34. CASE UNCHANGED vars
  BY <1>34 DEF vars, poolVars, localVars, EntriesOK
<1>35. ASSUME NEW p \in Threads, Step(p) PROVE EntriesOK'
  BY <1>35, <1>3, <1>4, <1>5, <1>6, <1>7, <1>8, <1>9, <1>10, <1>11, <1>12, <1>13, <1>14, <1>15, <1>16, <1>17, <1>18, <1>19, <1>20, <1>21, <1>22, <1>23, <1>24, <1>25, <1>26, <1>27, <1>28, <1>29, <1>30, <1>31, <1>32 DEF Step
<1>36. ASSUME NEW t \in Tasks, Discard(Worker(t)) PROVE EntriesOK'
  BY <1>33, <1>36, ThreadsOf
<1> QED
  BY <1>1, <1>2, <1>34, <1>35, <1>36 DEF Next, Rest

\* Nothing changes for the buckets when no parked task moves.
\* A waiting queue without repetitions has none after an append of a new
\* entry, and its tail has none and not its head.
LEMMA AppendOnce ==
  ASSUME NEW S, NEW s \in Seq(S), NEW x \in S,
         \A i \in 1 .. Len(s) : s[i] # x,
         \A i \in 1 .. Len(s) : \A j \in 1 .. Len(s) : s[j] = s[i] => i = j
  PROVE  \A i \in 1 .. Len(Append(s, x)) : \A j \in 1 .. Len(Append(s, x)) :
           Append(s, x)[j] = Append(s, x)[i] => i = j
<1> SUFFICES ASSUME NEW i \in 1 .. Len(Append(s, x)), NEW j \in 1 .. Len(Append(s, x)),
                    Append(s, x)[j] = Append(s, x)[i]
             PROVE  i = j
  OBVIOUS
<1>1. /\ Len(s) \in Nat /\ Len(Append(s, x)) = Len(s) + 1
      /\ Append(s, x)[Len(s) + 1] = x
      /\ \A k \in 1 .. Len(s) : Append(s, x)[k] = s[k]
  OBVIOUS
<1>2. /\ i \in Nat /\ (i \in 1 .. Len(s) \/ i = Len(s) + 1)
      /\ j \in Nat /\ (j \in 1 .. Len(s) \/ j = Len(s) + 1)
  BY <1>1
<1> QED BY <1>1, <1>2

LEMMA TailOnce ==
  ASSUME NEW S, NEW s \in Seq(S), s # <<>>,
         \A i \in 1 .. Len(s) : \A j \in 1 .. Len(s) : s[j] = s[i] => i = j
  PROVE  \A i \in 1 .. Len(Tail(s)) :
           /\ i + 1 \in 1 .. Len(s) /\ Tail(s)[i] = s[i + 1]
           /\ s[i + 1] # Head(s)
           /\ \A j \in 1 .. Len(Tail(s)) : Tail(s)[j] = Tail(s)[i] => i = j
<1>1. /\ Len(s) \in Nat /\ Len(s) > 0 /\ Len(Tail(s)) = Len(s) - 1 /\ Head(s) = s[1]
      /\ \A k \in 1 .. Len(Tail(s)) : k + 1 \in 1 .. Len(s) /\ Tail(s)[k] = s[k + 1]
  OBVIOUS
<1> SUFFICES ASSUME NEW i \in 1 .. Len(Tail(s))
             PROVE  /\ s[i + 1] # s[1]
                    /\ \A j \in 1 .. Len(Tail(s)) : Tail(s)[j] = Tail(s)[i] => i = j
  BY <1>1
<1>2. i \in Nat /\ i >= 1 /\ i + 1 \in 1 .. Len(s) /\ 1 \in 1 .. Len(s)
  BY <1>1
<1>3. s[i + 1] # s[1]
  <2>1. s[i + 1] = s[1] => 1 = i + 1
    BY <1>2
  <2> QED BY <1>2, <2>1
<1>4. ASSUME NEW j \in 1 .. Len(Tail(s)), Tail(s)[j] = Tail(s)[i] PROVE i = j
  <2>1. j \in Nat /\ j + 1 \in 1 .. Len(s) /\ s[j + 1] = s[i + 1]
    BY <1>1, <1>4
  <2>2. i + 1 = j + 1
    BY <1>2, <2>1
  <2> QED BY <1>2, <2>1, <2>2
<1> QED BY <1>3, <1>4

LEMMA BucketsFrame ==
  ASSUME BucketsOK, UNCHANGED wait_buckets,
         \A u \in Fast : state[u] = "parked" => state'[u] = "parked"
  PROVE  BucketsOK'
  BY DEF BucketsOK, WaitsIn

\* Parking adds a task that is in no bucket, and a drain takes one out of its
\* only place; no other step moves a parked task.
LEMMA BucketsNext == TypeOK /\ RolesOK /\ GroupOK /\ ProgressOK /\ EntriesOK /\ BucketsOK /\ [Next]_vars => BucketsOK'
<1> SUFFICES ASSUME TypeOK, RolesOK, GroupOK, ProgressOK, EntriesOK, BucketsOK, [Next]_vars PROVE BucketsOK' OBVIOUS
<1>a. /\ wait_buckets \in [Groups -> [Buckets -> Seq(Tasks)]]
      /\ state \in [Tasks -> States]
  BY DEF TypeOK
<1>b. \A g \in Groups, b \in Buckets : \A i \in 1 .. Len(wait_buckets[g][b]) :
        /\ wait_buckets[g][b][i] \in Fast
        /\ state[wait_buckets[g][b][i]] = "parked"
  BY DEF BucketsOK, WaitsIn
<1>1. ASSUME NEW t \in Tasks, Submit(t) PROVE BucketsOK'
  <2>1. t \in Fast => state[t] # "parked"
    BY <1>1 DEF Submit, ProgressOK
  <2>2. /\ UNCHANGED wait_buckets
        /\ \E s \in States : state' = [state EXCEPT ![t] = s]
    BY <1>1 DEF Submit, groupVars, States
  <2>3. \A u \in Fast : state[u] = "parked" => state'[u] = "parked"
    BY <2>1, <2>2, <1>a, Paths
  <2> QED BY <2>2, <2>3, BucketsFrame
<1>2. ASSUME NEW t \in Tasks, StopPool(t) PROVE BucketsOK'
  <2>1. UNCHANGED <<wait_buckets, state>>
    BY <1>2 DEF StopPool, groupVars
  <2> QED BY <2>1, BucketsFrame
<1>3. ASSUME NEW p \in Threads, TryAcquireCheck(p) PROVE BucketsOK'
  <2>1. UNCHANGED <<wait_buckets, state>>
    BY <1>3 DEF TryAcquireCheck, groupVars, poolVars
  <2> QED BY <2>1, BucketsFrame
<1>4. ASSUME NEW p \in Threads, TryAcquireTake(p) PROVE BucketsOK'
  <2>1. UNCHANGED <<wait_buckets, state>>
    BY <1>4 DEF TryAcquireTake, poolVars
  <2> QED BY <2>1, BucketsFrame
<1>5. ASSUME NEW p \in Threads, TryAcquireRecheck(p) PROVE BucketsOK'
  <2>1. p[1] \in Fast => state[p[1]] # "parked"
    <3>1. p[1] \in Fast => BeforeParking(p[1])
      BY <1>5, RoleForms DEF TryAcquireRecheck, BeforeParking, SubmitLabels
    <3> QED BY <3>1 DEF ProgressOK
  <2>2. /\ UNCHANGED wait_buckets
        /\ state' = state \/ \E s \in States : state' = [state EXCEPT ![p[1]] = s]
    BY <1>5 DEF TryAcquireRecheck, groupVars, States
  <2>3. \A u \in Fast : state[u] = "parked" => state'[u] = "parked"
    BY <2>1, <2>2, <1>a, Paths
  <2> QED BY <2>2, <2>3, BucketsFrame
<1>6. ASSUME NEW p \in Threads, TrySubmitCheck(p) PROVE BucketsOK'
  <2>1. UNCHANGED <<wait_buckets, state>>
    BY <1>6 DEF TrySubmitCheck, groupVars, poolVars
  <2> QED BY <2>1, BucketsFrame
<1>7. ASSUME NEW p \in Threads, TrySubmitTake(p) PROVE BucketsOK'
  <2>1. UNCHANGED <<wait_buckets, state>>
    BY <1>7 DEF TrySubmitTake, poolVars
  <2> QED BY <2>1, BucketsFrame
<1>8. ASSUME NEW p \in Threads, TrySubmitRecheck(p) PROVE BucketsOK'
  <2>1. UNCHANGED <<wait_buckets, state>>
    BY <1>8 DEF TrySubmitRecheck, groupVars, poolVars
  <2> QED BY <2>1, BucketsFrame
<1>9. ASSUME NEW p \in Threads, HandToPool(p) PROVE BucketsOK'
  <2>1. p[1] \in Fast => state[p[1]] # "parked"
    <3>1. p[1] \in Fast => BeforeParking(p[1])
      BY <1>9, RoleForms DEF HandToPool, BeforeParking, SubmitLabels
    <3> QED BY <3>1 DEF ProgressOK
  <2>2. /\ UNCHANGED wait_buckets
        /\ state' = state \/ \E s \in States : state' = [state EXCEPT ![p[1]] = s]
    BY <1>9 DEF HandToPool, groupVars, States
  <2>3. \A u \in Fast : state[u] = "parked" => state'[u] = "parked"
    BY <2>1, <2>2, <1>a, Paths
  <2> QED BY <2>2, <2>3, BucketsFrame
<1>10. ASSUME NEW p \in Threads, ParkPublish(p) PROVE BucketsOK'
  <2> DEFINE WaitsNext(u, h, c) == /\ u \in Fast /\ TaskGroups[u] = {h}
                                   /\ priority_index(Priority[u]) = c
                                   /\ state'[u] = "parked"
  <2>0. PICK t \in Tasks, g \in Groups, b \in Buckets :
          t = p[1] /\ g = grp[p] /\ b = priority_index(Priority[p[1]])
    BY GroupsOf DEF Buckets
  <2>1. /\ t \in Fast /\ state[t] = "submitting" /\ TaskGroups[t] = {g}
        /\ priority_index(Priority[t]) = b
    <3>1. t \in Fast /\ p = Submitter(t) /\ g \in TaskGroups[t]
      BY <1>10, <2>0, RoleForms DEF ParkPublish, SubmitLabels, FastLabels, GroupOK
    <3>2. state[t] = "submitting"
      BY <1>10, <3>1 DEF ParkPublish, ProgressOK, BeforeParking
    <3> QED BY <2>0, <3>1, <3>2 DEF Fast
  <2>2. /\ wait_buckets' = [wait_buckets EXCEPT ![g][b] = Append(@, t)]
        /\ state' = [state EXCEPT ![t] = "parked"]
    BY <1>10, <2>0 DEF ParkPublish
  <2>3. wait_buckets[g][b] \in Seq(Tasks)
    BY <2>1, <1>a
  <2> HIDE DEF WaitsNext
  <2>4. ASSUME NEW h \in Groups, NEW c \in Buckets, ~(h = g /\ c = b)
        PROVE  wait_buckets'[h][c] = wait_buckets[h][c]
    BY <2>1, <2>2, <2>4, <1>a
  <2>5. wait_buckets'[g][b] = Append(wait_buckets[g][b], t)
    BY <2>1, <2>2, <1>a
  <2>6. \A i \in 1 .. Len(wait_buckets[g][b]) : wait_buckets[g][b][i] # t
    BY <2>1, <1>b
  <2>8. ASSUME NEW u, NEW h, NEW c, WaitsIn(u, h, c)
        PROVE  WaitsNext(u, h, c)
    BY <2>1, <2>2, <2>8, <1>a, Paths DEF WaitsIn, WaitsNext
  <2>9. WaitsNext(t, g, b)
    BY <2>1, <2>2, <1>a, Paths DEF WaitsNext
  <2>10. ASSUME NEW h \in Groups, NEW c \in Buckets, NEW i \in 1 .. Len(wait_buckets'[h][c])
         PROVE  /\ WaitsNext(wait_buckets'[h][c][i], h, c)
                /\ \A j \in 1 .. Len(wait_buckets'[h][c]) :
                     wait_buckets'[h][c][j] = wait_buckets'[h][c][i] => i = j
    <3>1. CASE ~(h = g /\ c = b)
      BY <3>1, <2>4, <2>8 DEF BucketsOK
    <3>2. CASE h = g /\ c = b
      <4>1. /\ Len(wait_buckets'[h][c]) = Len(wait_buckets[g][b]) + 1
            /\ \A j \in 1 .. Len(wait_buckets[g][b]) : wait_buckets'[h][c][j] = wait_buckets[g][b][j]
            /\ wait_buckets'[h][c][Len(wait_buckets[g][b]) + 1] = t
            /\ Len(wait_buckets[g][b]) \in Nat
        BY <3>2, <2>3, <2>5
      <4>2. WaitsNext(wait_buckets'[h][c][i], h, c)
        <5>1. CASE i = Len(wait_buckets[g][b]) + 1
          BY <5>1, <4>1, <3>2, <2>9
        <5>2. CASE i \in 1 .. Len(wait_buckets[g][b])
          BY <5>2, <4>1, <3>2, <2>1, <2>8 DEF BucketsOK
        <5> QED BY <5>1, <5>2, <4>1
      <4>3. \A k \in 1 .. Len(wait_buckets'[h][c]) : \A j \in 1 .. Len(wait_buckets'[h][c]) :
              wait_buckets'[h][c][j] = wait_buckets'[h][c][k] => k = j
        <5>1. PICK s \in Seq(Tasks) : s = wait_buckets[g][b]
          BY <2>3
        <5>2. /\ wait_buckets'[h][c] = Append(s, t)
              /\ \A k \in 1 .. Len(s) : s[k] # t
              /\ \A k \in 1 .. Len(s) : \A j \in 1 .. Len(s) : s[j] = s[k] => k = j
          BY <5>1, <3>2, <2>1, <2>5, <2>6 DEF BucketsOK
        <5>3. \A k \in 1 .. Len(Append(s, t)) : \A j \in 1 .. Len(Append(s, t)) :
                Append(s, t)[j] = Append(s, t)[k] => k = j
          BY <5>2, <2>1, AppendOnce
        <5> QED BY <5>2, <5>3
      <4> QED BY <4>2, <4>3
    <3> QED BY <3>1, <3>2
  <2>11. \A h \in Groups, c \in Buckets : \A i \in 1 .. Len(wait_buckets'[h][c]) :
           /\ WaitsIn(wait_buckets[h][c][i], h, c)'
           /\ \A j \in 1 .. Len(wait_buckets'[h][c]) :
                wait_buckets'[h][c][j] = wait_buckets'[h][c][i] => i = j
    BY <2>10 DEF WaitsIn, WaitsNext
  <2> QED BY <2>11 DEF BucketsOK
<1>11. ASSUME NEW p \in Threads, ReconcileReserve(p) PROVE BucketsOK'
  <2>1. UNCHANGED <<wait_buckets, state>>
    BY <1>11 DEF ReconcileReserve, poolVars
  <2> QED BY <2>1, BucketsFrame
<1>12. ASSUME NEW p \in Threads, ReconcileYield(p) PROVE BucketsOK'
  <2>1. UNCHANGED <<wait_buckets, state>>
    BY <1>12 DEF ReconcileYield, groupVars, poolVars
  <2> QED BY <2>1, BucketsFrame
<1>13. ASSUME NEW p \in Threads, ReconcileClaim(p) PROVE BucketsOK'
  <2>1. UNCHANGED <<wait_buckets, state>>
    BY <1>13 DEF ReconcileClaim, groupVars, poolVars
  <2> QED BY <2>1, BucketsFrame
<1>14. ASSUME NEW p \in Threads, ReleaseAdd(p) PROVE BucketsOK'
  <2>1. UNCHANGED <<wait_buckets, state>>
    BY <1>14 DEF ReleaseAdd, poolVars
  <2> QED BY <2>1, BucketsFrame
<1>15. ASSUME NEW p \in Threads, ReleaseChoose(p) PROVE BucketsOK'
  <2>1. UNCHANGED <<wait_buckets, state>>
    BY <1>15 DEF ReleaseChoose, groupVars, poolVars
  <2> QED BY <2>1, BucketsFrame
<1>16. ASSUME NEW p \in Threads, NotifySlowPath(p) PROVE BucketsOK'
  <2>1. UNCHANGED <<wait_buckets, state>>
    BY <1>16 DEF NotifySlowPath, groupVars, poolVars
  <2> QED BY <2>1, BucketsFrame
<1>17. ASSUME NEW p \in Threads, DrainScan(p) PROVE BucketsOK'
  <2> DEFINE WaitsNext(u, h, c) == /\ u \in Fast /\ TaskGroups[u] = {h}
                                   /\ priority_index(Priority[u]) = c
                                   /\ state'[u] = "parked"
  <2>1. PICK g \in Groups, b \in Buckets : g = grp[p] /\ b = scan[p]
    BY GroupsOf, ScanIn
  <2>2. CASE wait_buckets[g][b] = <<>>
    <3>1. UNCHANGED <<wait_buckets, state>>
      BY <1>17, <2>1, <2>2 DEF DrainScan
    <3> QED BY <3>1, BucketsFrame
  <2>3. CASE wait_buckets[g][b] # <<>>
    <3>1. wait_buckets[g][b] \in Seq(Tasks)
      BY <2>1, <1>a
    <3>0. PICK t \in Tasks : t = Head(wait_buckets[g][b])
      BY <2>3, <3>1
    <3>2. /\ wait_buckets' = [wait_buckets EXCEPT ![g][b] = Tail(@)]
          /\ state' = [state EXCEPT ![t] = "drained"]
      BY <1>17, <2>1, <2>3, <3>0 DEF DrainScan
    <3>3. /\ t = wait_buckets[g][b][1] /\ 1 \in 1 .. Len(wait_buckets[g][b])
          /\ Len(Tail(wait_buckets[g][b])) = Len(wait_buckets[g][b]) - 1
          /\ \A i \in 1 .. Len(Tail(wait_buckets[g][b])) :
               /\ i + 1 \in 1 .. Len(wait_buckets[g][b])
               /\ Tail(wait_buckets[g][b])[i] = wait_buckets[g][b][i + 1]
      BY <2>3, <3>0, <3>1
    <3>4. t \in Fast /\ TaskGroups[t] = {g} /\ priority_index(Priority[t]) = b
      BY <2>1, <3>3 DEF BucketsOK, WaitsIn
    <3> HIDE DEF WaitsNext
    <3>5. wait_buckets'[g][b] = Tail(wait_buckets[g][b])
      BY <2>1, <3>2, <1>a
    <3>6. ASSUME NEW u, NEW h, NEW c, WaitsIn(u, h, c), u # t
          PROVE  WaitsNext(u, h, c)
      BY <3>2, <3>4, <3>6, <1>a, Paths DEF WaitsIn, WaitsNext
    <3>7. ASSUME NEW h \in Groups, NEW c \in Buckets, NEW i \in 1 .. Len(wait_buckets'[h][c])
          PROVE  /\ WaitsNext(wait_buckets'[h][c][i], h, c)
                 /\ \A j \in 1 .. Len(wait_buckets'[h][c]) :
                      wait_buckets'[h][c][j] = wait_buckets'[h][c][i] => i = j
      <4>1. CASE h = g /\ c = b
        <5>0. PICK s \in Seq(Tasks) : s = wait_buckets[g][b]
          BY <3>1
        <5>5. /\ wait_buckets'[h][c] = Tail(s) /\ s # <<>> /\ t = Head(s)
              /\ \A k \in 1 .. Len(s) : \A j \in 1 .. Len(s) : s[j] = s[k] => k = j
          BY <5>0, <4>1, <3>5, <3>0, <2>1, <2>3 DEF BucketsOK
        <5>6. \A k \in 1 .. Len(Tail(s)) :
                /\ k + 1 \in 1 .. Len(s) /\ Tail(s)[k] = s[k + 1]
                /\ s[k + 1] # Head(s)
                /\ \A j \in 1 .. Len(Tail(s)) : Tail(s)[j] = Tail(s)[k] => k = j
          BY <5>5, TailOnce
        <5>1. /\ i + 1 \in 1 .. Len(wait_buckets[g][b])
              /\ wait_buckets'[h][c][i] = wait_buckets[g][b][i + 1]
          BY <5>0, <5>5, <5>6
        <5>2. wait_buckets[g][b][i + 1] # t
          BY <5>0, <5>5, <5>6
        <5>3. \A j \in 1 .. Len(wait_buckets'[h][c]) :
                wait_buckets'[h][c][j] = wait_buckets'[h][c][i] => i = j
          BY <5>5, <5>6
        <5>4. WaitsIn(wait_buckets[g][b][i + 1], g, b)
          BY <2>1, <5>1 DEF BucketsOK
        <5> QED BY <3>6, <4>1, <5>1, <5>2, <5>3, <5>4
      <4>2. CASE ~(h = g /\ c = b)
        <5>1. wait_buckets'[h][c] = wait_buckets[h][c]
          BY <2>1, <3>2, <4>2, <1>a
        <5>2. WaitsIn(wait_buckets[h][c][i], h, c)
          BY <5>1 DEF BucketsOK
        <5>3. wait_buckets[h][c][i] # t
          BY <2>1, <3>4, <4>2, <5>2 DEF WaitsIn
        <5> QED BY <5>1, <5>2, <5>3, <3>6 DEF BucketsOK
      <4> QED BY <4>1, <4>2
    <3> QED BY <3>7 DEF BucketsOK, WaitsIn, WaitsNext
  <2> QED BY <2>2, <2>3
<1>18. ASSUME NEW p \in Threads, DrainClaim(p) PROVE BucketsOK'
  <2>1. entry[p] \in Fast => state[entry[p]] # "parked"
    BY <1>18 DEF DrainClaim, EntriesOK
  <2>2. /\ UNCHANGED wait_buckets
        /\ state' = state \/ \E s \in States : state' = [state EXCEPT ![entry[p]] = s]
    BY <1>18 DEF DrainClaim, groupVars, States
  <2>3. \A u \in Fast : state[u] = "parked" => state'[u] = "parked"
    BY <2>1, <2>2, <1>a, Paths
  <2> QED BY <2>2, <2>3, BucketsFrame
<1>19. ASSUME NEW p \in Threads, DrainPay(p) PROVE BucketsOK'
  <2>1. UNCHANGED <<wait_buckets, state>>
    BY <1>19 DEF DrainPay, poolVars
  <2> QED BY <2>1, BucketsFrame
<1>20. ASSUME NEW p \in Threads, LockAnnounce(p) PROVE BucketsOK'
  <2>1. UNCHANGED <<wait_buckets, state>>
    BY <1>20 DEF LockAnnounce, poolVars
  <2> QED BY <2>1, BucketsFrame
<1>21. ASSUME NEW p \in Threads, LockInsert(p) PROVE BucketsOK'
  <2>1. UNCHANGED <<wait_buckets, state>>
    BY <1>21 DEF LockInsert, poolVars
  <2> QED BY <2>1, BucketsFrame
<1>22. ASSUME NEW p \in Threads, WorkerDequeue(p) PROVE BucketsOK'
  <2>1. p[1] \in Fast => state[p[1]] # "parked"
    BY <1>22 DEF WorkerDequeue
  <2>2. /\ UNCHANGED wait_buckets
        /\ state' = state \/ \E s \in States : state' = [state EXCEPT ![p[1]] = s]
    BY <1>22 DEF WorkerDequeue, groupVars, States
  <2>3. \A u \in Fast : state[u] = "parked" => state'[u] = "parked"
    BY <2>1, <2>2, <1>a, Paths
  <2> QED BY <2>2, <2>3, BucketsFrame
<1>23. ASSUME NEW p \in Threads, GroupLockTry(p) PROVE BucketsOK'
  <2>1. p[1] \in Fast => state[p[1]] # "parked"
    BY <1>23, RoleForms DEF GroupLockTry, SlowLabels
  <2>2. /\ UNCHANGED wait_buckets
        /\ state' = state \/ \E s \in States : state' = [state EXCEPT ![p[1]] = s]
    BY <1>23 DEF GroupLockTry, LockNext, States
  <2>3. \A u \in Fast : state[u] = "parked" => state'[u] = "parked"
    BY <2>1, <2>2, <1>a, Paths
  <2> QED BY <2>2, <2>3, BucketsFrame
<1>24. ASSUME NEW p \in Threads, GroupLockTake(p) PROVE BucketsOK'
  <2>1. p[1] \in Fast => state[p[1]] # "parked"
    BY <1>24, RoleForms DEF GroupLockTake, SlowLabels
  <2>2. /\ UNCHANGED wait_buckets
        /\ state' = state \/ \E s \in States : state' = [state EXCEPT ![p[1]] = s]
    BY <1>24 DEF GroupLockTake, LockNext, States
  <2>3. \A u \in Fast : state[u] = "parked" => state'[u] = "parked"
    BY <2>1, <2>2, <1>a, Paths
  <2> QED BY <2>2, <2>3, BucketsFrame
<1>25. ASSUME NEW p \in Threads, Finish(p) PROVE BucketsOK'
  <2>1. p[1] \in Fast => state[p[1]] # "parked"
    <3>1. pc[p] = "run" /\ (p = Submitter(p[1]) \/ p = Worker(p[1]))
      BY <1>25, ThreadForms DEF Finish
    <3> QED BY <3>1 DEF ProgressOK
  <2>2. /\ UNCHANGED wait_buckets
        /\ state' = state \/ \E s \in States : state' = [state EXCEPT ![p[1]] = s]
    BY <1>25 DEF Finish, groupVars, States
  <2>3. \A u \in Fast : state[u] = "parked" => state'[u] = "parked"
    BY <2>1, <2>2, <1>a, Paths
  <2> QED BY <2>2, <2>3, BucketsFrame
<1>26. ASSUME NEW p \in Threads, DestroyUnlock(p) PROVE BucketsOK'
  <2>1. UNCHANGED <<wait_buckets, state>>
    BY <1>26 DEF DestroyUnlock, poolVars
  <2> QED BY <2>1, BucketsFrame
<1>27. ASSUME NEW p \in Threads, DestroyWalk(p) PROVE BucketsOK'
  <2>1. UNCHANGED <<wait_buckets, state>>
    BY <1>27 DEF DestroyWalk, poolVars
  <2> QED BY <2>1, BucketsFrame
<1>28. ASSUME NEW p \in Threads, DestroyPending(p) PROVE BucketsOK'
  <2>1. UNCHANGED <<wait_buckets, state>>
    BY <1>28 DEF DestroyPending, poolVars
  <2> QED BY <2>1, BucketsFrame
<1>29. ASSUME NEW p \in Threads, Notify(p) PROVE BucketsOK'
  <2>1. UNCHANGED <<wait_buckets, state>>
    BY <1>29 DEF Notify, groupVars
  <2> QED BY <2>1, BucketsFrame
<1>30. ASSUME NEW p \in Threads, NotifyDone(p) PROVE BucketsOK'
  <2>1. UNCHANGED <<wait_buckets, state>>
    BY <1>30 DEF NotifyDone, groupVars, poolVars
  <2> QED BY <2>1, BucketsFrame
<1>31. ASSUME NEW p \in Threads, DestroySpare(p) PROVE BucketsOK'
  <2>1. UNCHANGED <<wait_buckets, state>>
    BY <1>31 DEF DestroySpare, groupVars, poolVars
  <2> QED BY <2>1, BucketsFrame
<1>32. ASSUME NEW p \in Threads, DestroyNext(p) PROVE BucketsOK'
  <2>1. UNCHANGED <<wait_buckets, state>>
    BY <1>32 DEF DestroyNext, groupVars, poolVars
  <2> QED BY <2>1, BucketsFrame
<1>33. ASSUME NEW p \in Threads, Discard(p) PROVE BucketsOK'
  <2>1. p[1] \in Fast => state[p[1]] # "parked"
    BY <1>33 DEF Discard
  <2>2. /\ UNCHANGED wait_buckets
        /\ state' = state \/ \E s \in States : state' = [state EXCEPT ![p[1]] = s]
    BY <1>33 DEF Discard, groupVars, States
  <2>3. \A u \in Fast : state[u] = "parked" => state'[u] = "parked"
    BY <2>1, <2>2, <1>a, Paths
  <2> QED BY <2>2, <2>3, BucketsFrame
<1>34. CASE UNCHANGED vars
  BY <1>34 DEF vars, groupVars, poolVars, BucketsOK, WaitsIn
<1>35. ASSUME NEW p \in Threads, Step(p) PROVE BucketsOK'
  BY <1>35, <1>3, <1>4, <1>5, <1>6, <1>7, <1>8, <1>9, <1>10, <1>11, <1>12, <1>13, <1>14, <1>15, <1>16, <1>17, <1>18, <1>19, <1>20, <1>21, <1>22, <1>23, <1>24, <1>25, <1>26, <1>27, <1>28, <1>29, <1>30, <1>31, <1>32 DEF Step
<1>36. ASSUME NEW t \in Tasks, Discard(Worker(t)) PROVE BucketsOK'
  BY <1>33, <1>36, ThreadsOf
<1> QED
  BY <1>1, <1>2, <1>34, <1>35, <1>36 DEF Next, Rest

-----------------------------------------------------------------------------
(* The token counters: the accounting of every decrement and the bound it  *)
(* gives the groups of multi-group tasks; and what the slow path           *)
(* registers: slow_pending, the queue of handles and the locks of a        *)
(* CombinedLock.                                                           *)

\* A single-group task works on a group that is not of multi-group tasks only.
LEMMA FastGroup ==
  ASSUME TypeOK, RolesOK, GroupOK, NEW p \in Threads, pc[p] \in FastLabels
  PROVE  /\ p[1] \in Fast /\ TaskGroups[p[1]] = {grp[p]} /\ ~MultiGroupOnly(grp[p])
<1>1. p[1] \in Fast /\ grp[p] \in TaskGroups[p[1]]
  BY DEF RolesOK, GroupOK
<1> QED BY <1>1 DEF Fast, MultiGroupOnly

\* GroupLock::lock still finds, at its decrement, the token it saw under the
\* mutex: nobody takes one from a group of multi-group tasks only without it.
LEMMA TokenNext ==
  TypeOK /\ RolesOK /\ GroupOK /\ PayOK /\ MutexOK /\ TokenThere /\ [Next]_vars => TokenThere'
<1> SUFFICES ASSUME TypeOK, RolesOK, GroupOK, PayOK, MutexOK, TokenThere, [Next]_vars
             PROVE  TokenThere'
  OBVIOUS
<1>a. /\ pc \in [Threads -> Labels]
      /\ grp \in [Threads -> Groups]
      /\ tokens \in [Groups -> Int]
      /\ queue \in [Groups -> SUBSET Tasks]
      /\ mutex \in [Groups -> Threads \cup {NoThread}]
      /\ ret \in [Threads -> {"done", "ts_check", "publish", "dtor_next"}]
  BY DEF TypeOK
<1>1. ASSUME NEW t \in Tasks, Submit(t) PROVE TokenThere'
  BY <1>1, <1>a DEF Submit, Goto, groupVars, localVars, TokenThere
<1>2. ASSUME NEW t \in Tasks, StopPool(t) PROVE TokenThere'
  BY <1>2, <1>a DEF StopPool, groupVars, localVars, TokenThere
<1>3. ASSUME NEW p \in Threads, TryAcquireCheck(p) PROVE TokenThere'
  BY <1>3, <1>a DEF TryAcquireCheck, groupVars, handleVars, poolVars, localVars, Goto, TokenThere
<1>4. ASSUME NEW p \in Threads, TryAcquireTake(p) PROVE TokenThere'
  <2>1. ~MultiGroupOnly(grp[p])
    BY <1>4, FastGroup DEF TryAcquireTake, FastLabels
  <2>2. \A h \in Groups : h # grp[p] => tokens'[h] = tokens[h]
    BY <1>4, <1>a DEF TryAcquireTake
  <2>3. \A q \in Threads : pc'[q] = "lock_take" => pc[q] = "lock_take" /\ grp'[q] = grp[q]
    BY <1>4, <1>a DEF TryAcquireTake, Goto, localVars
  <2> QED BY <2>1, <2>2, <2>3, <1>a DEF TokenThere
<1>5. ASSUME NEW p \in Threads, TryAcquireRecheck(p) PROVE TokenThere'
  BY <1>5, <1>a DEF TryAcquireRecheck, groupVars, handleVars, Goto, Call, TokenThere
<1>6. ASSUME NEW p \in Threads, TrySubmitCheck(p) PROVE TokenThere'
  BY <1>6, <1>a DEF TrySubmitCheck, groupVars, handleVars, poolVars, localVars, Goto, TokenThere
<1>7. ASSUME NEW p \in Threads, TrySubmitTake(p) PROVE TokenThere'
  <2>1. ~MultiGroupOnly(grp[p])
    BY <1>7, FastGroup DEF TrySubmitTake, FastLabels
  <2>2. \A h \in Groups : h # grp[p] => tokens'[h] = tokens[h]
    BY <1>7, <1>a DEF TrySubmitTake
  <2>3. \A q \in Threads : pc'[q] = "lock_take" => pc[q] = "lock_take" /\ grp'[q] = grp[q]
    BY <1>7, <1>a DEF TrySubmitTake, Goto, localVars
  <2> QED BY <2>1, <2>2, <2>3, <1>a DEF TokenThere
<1>8. ASSUME NEW p \in Threads, TrySubmitRecheck(p) PROVE TokenThere'
  BY <1>8, <1>a DEF TrySubmitRecheck, groupVars, handleVars, poolVars, Goto, Call, TokenThere
<1>9. ASSUME NEW p \in Threads, HandToPool(p) PROVE TokenThere'
  BY <1>9, <1>a DEF HandToPool, groupVars, handleVars, Goto, Call, TokenThere
<1>10. ASSUME NEW p \in Threads, ParkPublish(p) PROVE TokenThere'
  BY <1>10, <1>a DEF ParkPublish, handleVars, localVars, Goto, TokenThere
<1>11. ASSUME NEW p \in Threads, ReconcileReserve(p) PROVE TokenThere'
  <2>1. ~MultiGroupOnly(grp[p])
    BY <1>11, FastGroup DEF ReconcileReserve, FastLabels
  <2>2. \A h \in Groups : h # grp[p] => tokens'[h] = tokens[h]
    BY <1>11, <1>a DEF ReconcileReserve
  <2>3. \A q \in Threads : pc'[q] = "lock_take" => pc[q] = "lock_take" /\ grp'[q] = grp[q]
    BY <1>11, <1>a DEF ReconcileReserve, Goto, localVars
  <2> QED BY <2>1, <2>2, <2>3, <1>a DEF TokenThere
<1>12. ASSUME NEW p \in Threads, ReconcileYield(p) PROVE TokenThere'
  BY <1>12, <1>a DEF ReconcileYield, groupVars, handleVars, poolVars, Goto, Call, TokenThere
<1>13. ASSUME NEW p \in Threads, ReconcileClaim(p) PROVE TokenThere'
  BY <1>13, <1>a DEF ReconcileClaim, groupVars, poolVars, Goto, Call, TokenThere
<1>14. ASSUME NEW p \in Threads, ReleaseAdd(p) PROVE TokenThere'
  BY <1>14, <1>a DEF ReleaseAdd, handleVars, poolVars, localVars, Goto, TokenThere
<1>15. ASSUME NEW p \in Threads, ReleaseChoose(p) PROVE TokenThere'
  BY <1>15, <1>a DEF ReleaseChoose, groupVars, handleVars, poolVars, localVars, Goto, TokenThere
<1>16. ASSUME NEW p \in Threads, NotifySlowPath(p) PROVE TokenThere'
  BY <1>16, <1>a DEF NotifySlowPath, groupVars, poolVars, Goto, TokenThere
<1>17. ASSUME NEW p \in Threads, DrainScan(p) PROVE TokenThere'
  BY <1>17, <1>a DEF DrainScan, handleVars, Goto, Return, TokenThere
<1>18. ASSUME NEW p \in Threads, DrainClaim(p) PROVE TokenThere'
  BY <1>18, <1>a DEF DrainClaim, groupVars, Goto, Return, TokenThere
<1>19. ASSUME NEW p \in Threads, DrainPay(p) PROVE TokenThere'
  <2>1. ~MultiGroupOnly(grp[p])
    BY <1>19 DEF DrainPay, PayOK, MultiGroupOnly
  <2>2. \A h \in Groups : h # grp[p] => tokens'[h] = tokens[h]
    BY <1>19, <1>a DEF DrainPay
  <2>3. \A q \in Threads : pc'[q] = "lock_take" => pc[q] = "lock_take" /\ grp'[q] = grp[q]
    BY <1>19, <1>a DEF DrainPay, Return, Goto, localVars
  <2> QED BY <2>1, <2>2, <2>3, <1>a DEF TokenThere
<1>20. ASSUME NEW p \in Threads, LockAnnounce(p) PROVE TokenThere'
  BY <1>20, <1>a DEF LockAnnounce, handleVars, poolVars, localVars, Goto, TokenThere
<1>21. ASSUME NEW p \in Threads, LockInsert(p) PROVE TokenThere'
  BY <1>21, <1>a DEF LockInsert, poolVars, Goto, TokenThere
<1>22. ASSUME NEW p \in Threads, WorkerDequeue(p) PROVE TokenThere'
  BY <1>22, <1>a DEF WorkerDequeue, groupVars, handleVars, localVars, Goto, TokenThere
<1>23. ASSUME NEW p \in Threads, GroupLockTry(p) PROVE TokenThere'
  <2>1. /\ UNCHANGED tokens
        /\ \A q \in Threads : q # p => pc'[q] = pc[q] /\ grp'[q] = grp[q]
    BY <1>23, <1>a DEF GroupLockTry, LockNext, Goto
  <2>2. CASE pc'[p] # "lock_take"
    BY <2>1, <2>2 DEF TokenThere
  <2>3. CASE pc'[p] = "lock_take"
    <3> DEFINE t == p[1]
               g == grp[p]
               ahead == {k \in queue[g] : (k = t \/ Before(k, t)) /\ g \notin locked[k]}
    <3>1. /\ grp'[p] = g /\ t \in queue[g] /\ g \notin locked[t]
          /\ tokens[g] - Cardinality(ahead) >= 0
      BY <1>23, <1>a, <2>3 DEF GroupLockTry, LockNext, Goto, FreeAt
    <3>2. t \in ahead /\ IsFiniteSet(ahead)
      <4>1. ahead \subseteq Tasks /\ IsFiniteSet(Tasks)
        BY <1>a, TasksAssumption
      <4> QED BY <3>1, <4>1, FS_Subset
    <3>3. Cardinality(ahead) \in Nat /\ Cardinality(ahead) # 0
      BY <3>2, FS_CardinalityType, FS_EmptySet
    <3>4. tokens[g] > 0
      BY <3>1, <3>3, <1>a
    <3> QED BY <2>1, <3>1, <3>4 DEF TokenThere
  <2> QED BY <2>2, <2>3
<1>24. ASSUME NEW p \in Threads, GroupLockTake(p) PROVE TokenThere'
  <2>1. \A q \in Threads : pc[q] = "lock_take" /\ grp[q] = grp[p] => q = p
    BY <1>24 DEF GroupLockTake, MutexOK
  <2>2. /\ \A h \in Groups : h # grp[p] => tokens'[h] = tokens[h]
        /\ pc'[p] # "lock_take"
        /\ \A q \in Threads : q # p => pc'[q] = pc[q] /\ grp'[q] = grp[q]
    BY <1>24, <1>a DEF GroupLockTake, LockNext, Goto
  <2> QED BY <2>1, <2>2, <1>a DEF TokenThere
<1>25. ASSUME NEW p \in Threads, Finish(p) PROVE TokenThere'
  BY <1>25, <1>a DEF Finish, groupVars, handleVars, Call, Goto, TokenThere
<1>26. ASSUME NEW p \in Threads, DestroyUnlock(p) PROVE TokenThere'
  BY <1>26, <1>a DEF DestroyUnlock, poolVars, Goto, TokenThere
<1>27. ASSUME NEW p \in Threads, DestroyWalk(p) PROVE TokenThere'
  BY <1>27, <1>a DEF DestroyWalk, poolVars, Goto, TokenThere
<1>28. ASSUME NEW p \in Threads, DestroyPending(p) PROVE TokenThere'
  BY <1>28, <1>a DEF DestroyPending, handleVars, poolVars, localVars, Goto, TokenThere
<1>29. ASSUME NEW p \in Threads, Notify(p) PROVE TokenThere'
  BY <1>29, <1>a DEF Notify, groupVars, handleVars, TokenThere
<1>30. ASSUME NEW p \in Threads, NotifyDone(p) PROVE TokenThere'
  BY <1>30, <1>a DEF NotifyDone, groupVars, handleVars, poolVars, Goto, Call, Return, TokenThere
<1>31. ASSUME NEW p \in Threads, DestroySpare(p) PROVE TokenThere'
  BY <1>31, <1>a DEF DestroySpare, groupVars, handleVars, poolVars, Goto, Call, TokenThere
<1>32. ASSUME NEW p \in Threads, DestroyNext(p) PROVE TokenThere'
  BY <1>32, <1>a DEF DestroyNext, groupVars, handleVars, poolVars, Goto, TokenThere
<1>33. ASSUME NEW p \in Threads, Discard(p) PROVE TokenThere'
  BY <1>33, <1>a DEF Discard, groupVars, handleVars, Call, Goto, TokenThere
<1>34. CASE UNCHANGED vars
  BY <1>34 DEF vars, groupVars, localVars, TokenThere
<1>35. ASSUME NEW p \in Threads, Step(p) PROVE TokenThere'
  BY <1>35, <1>3, <1>4, <1>5, <1>6, <1>7, <1>8, <1>9, <1>10, <1>11, <1>12, <1>13, <1>14, <1>15, <1>16, <1>17, <1>18, <1>19, <1>20, <1>21, <1>22, <1>23, <1>24, <1>25, <1>26, <1>27, <1>28, <1>29, <1>30, <1>31, <1>32 DEF Step
<1>36. ASSUME NEW t \in Tasks, Discard(Worker(t)) PROVE TokenThere'
  BY <1>33, <1>36, ThreadsOf
<1> QED
  BY <1>1, <1>2, <1>34, <1>35, <1>36 DEF Next, Rest

-----------------------------------------------------------------------------
\* What a thread p and a task t stand for behind the counter of group h.
In(x, S) == IF x \in S THEN 1 ELSE 0
Weight(p, t, h) == In(p, Claiming(h)) + In(t, RunningLocks(h)) + In(t, Counted(h))
                   + In(t, LockedHandles(h)) - In(p, Owing(h))

\* The cardinality of a finite set changes by what happens to one element,
\* when nothing happens to the others.
LEMMA OneChange ==
  ASSUME NEW S, IsFiniteSet(S), NEW T, NEW x, \A y : y # x => (y \in S <=> y \in T)
  PROVE  /\ IsFiniteSet(T) /\ Cardinality(S) \in Nat
         /\ Cardinality(T) = Cardinality(S) + In(x, T) - In(x, S)
<1>1. Cardinality(S) \in Nat
  BY FS_CardinalityType
<1>2. CASE x \in S <=> x \in T
  <2>1. S = T BY <1>2
  <2> QED BY <2>1, <1>1 DEF In
<1>3. CASE x \in T /\ x \notin S
  <2>1. T = S \cup {x} BY <1>3
  <2>2. IsFiniteSet(T) /\ Cardinality(T) = Cardinality(S) + 1
    BY <1>3, <2>1, FS_AddElement
  <2> QED BY <1>1, <1>3, <2>2 DEF In
<1>4. CASE x \in S /\ x \notin T
  <2>1. T = S \ {x} BY <1>4
  <2>2. IsFiniteSet(T) /\ Cardinality(T) = Cardinality(S) - 1
    BY <1>4, <2>1, FS_RemoveElement
  <2> QED BY <1>1, <1>4, <2>2 DEF In
<1> QED BY <1>2, <1>3, <1>4

LEMMA FiniteThreads == IsFiniteSet(Threads) /\ IsFiniteSet(Tasks) /\ Fast \subseteq Tasks /\ Slow \subseteq Tasks
<1>1. IsFiniteSet(Tasks) BY TasksAssumption
<1>2. IsFiniteSet({"submit", "run"})
  <2>1. IsFiniteSet({"submit"}) BY FS_Singleton
  <2>2. {"submit", "run"} = {"submit"} \cup {"run"} OBVIOUS
  <2> QED BY <2>1, <2>2, FS_AddElement
<1>3. IsFiniteSet(Threads)
  BY <1>1, <1>2, FS_Product DEF Threads
<1> QED BY <1>1, <1>3 DEF Fast, Slow

LEMMA FiniteParts ==
  ASSUME NEW h \in Groups
  PROVE  /\ IsFiniteSet(Claiming(h)) /\ IsFiniteSet(RunningLocks(h)) /\ IsFiniteSet(Counted(h))
         /\ IsFiniteSet(LockedHandles(h)) /\ IsFiniteSet(Owing(h))
<1>1. /\ Claiming(h) \subseteq Threads /\ Owing(h) \subseteq Threads
      /\ RunningLocks(h) \subseteq Tasks /\ Counted(h) \subseteq Tasks
      /\ LockedHandles(h) \subseteq Tasks
  BY FiniteThreads DEF Claiming, Owing, RunningLocks, Counted, LockedHandles
<1> QED BY <1>1, FiniteThreads, FS_Subset

\* A step of thread p that touches task t keeps the accounts of every group
\* where it changes the counter by what it changes of their weight.
LEMMA Balance ==
  ASSUME TypeOK, TokenAccounting, NEW p \in Threads, NEW t \in Tasks,
         tokens' \in [Groups -> Int],
         \A q \in Threads : q # p => pc'[q] = pc[q] /\ grp'[q] = grp[q],
         \A u \in Tasks : u # t => state'[u] = state[u] /\ slot'[u] = slot[u] /\ locked'[u] = locked[u],
         \A h \in Groups : tokens'[h] + Weight(p, t, h)' = tokens[h] + Weight(p, t, h)
  PROVE  TokenAccounting'
<1> SUFFICES ASSUME NEW h \in Groups
             PROVE  (tokens[h] = Concurrency[h] - Cardinality(Claiming(h)) - Cardinality(RunningLocks(h))
                       - Cardinality(Counted(h)) - Cardinality(LockedHandles(h)) + Cardinality(Owing(h)))'
  BY DEF TokenAccounting
<1>1. PICK C, C2, R, R2, K, K2, L, L2, O, O2 :
        /\ C = Claiming(h) /\ R = RunningLocks(h) /\ K = Counted(h) /\ L = LockedHandles(h) /\ O = Owing(h)
        /\ C2 = Claiming(h)' /\ R2 = RunningLocks(h)' /\ K2 = Counted(h)' /\ L2 = LockedHandles(h)' /\ O2 = Owing(h)'
  OBVIOUS
<1>2. /\ IsFiniteSet(C) /\ IsFiniteSet(R) /\ IsFiniteSet(K) /\ IsFiniteSet(L) /\ IsFiniteSet(O)
  BY <1>1, FiniteParts
<1>3. /\ \A y : y # p => (y \in C <=> y \in C2)
  BY <1>1 DEF Claiming
<1>4. /\ \A y : y # p => (y \in O <=> y \in O2)
  BY <1>1 DEF Owing
<1>5. /\ \A y : y # t => (y \in R <=> y \in R2)
  BY <1>1, FiniteThreads DEF RunningLocks
<1>6. /\ \A y : y # t => (y \in K <=> y \in K2)
  BY <1>1, FiniteThreads DEF Counted
<1>7. /\ \A y : y # t => (y \in L <=> y \in L2)
  BY <1>1, FiniteThreads DEF LockedHandles
<1>8. /\ Cardinality(C2) = Cardinality(C) + In(p, C2) - In(p, C) /\ Cardinality(C) \in Nat
      /\ Cardinality(O2) = Cardinality(O) + In(p, O2) - In(p, O) /\ Cardinality(O) \in Nat
  BY <1>2, <1>3, <1>4, OneChange
<1>9. /\ Cardinality(R2) = Cardinality(R) + In(t, R2) - In(t, R) /\ Cardinality(R) \in Nat
      /\ Cardinality(K2) = Cardinality(K) + In(t, K2) - In(t, K) /\ Cardinality(K) \in Nat
      /\ Cardinality(L2) = Cardinality(L) + In(t, L2) - In(t, L) /\ Cardinality(L) \in Nat
  BY <1>2, <1>5, <1>6, <1>7, OneChange
<1>10. /\ tokens[h] = Concurrency[h] - Cardinality(C) - Cardinality(R) - Cardinality(K) - Cardinality(L) + Cardinality(O)
       /\ tokens[h] \in Int /\ tokens'[h] \in Int /\ Concurrency[h] \in Int
  BY <1>1, ConcurrencyAssumption DEF TokenAccounting, TypeOK
<1>11. /\ Weight(p, t, h) = In(p, C) + In(t, R) + In(t, K) + In(t, L) - In(p, O)
       /\ Weight(p, t, h)' = In(p, C2) + In(t, R2) + In(t, K2) + In(t, L2) - In(p, O2)
  BY <1>1 DEF Weight
<1>12. tokens'[h] = Concurrency[h] - Cardinality(C2) - Cardinality(R2) - Cardinality(K2) - Cardinality(L2) + Cardinality(O2)
  <2>1. tokens'[h] + Weight(p, t, h)' = tokens[h] + Weight(p, t, h)
    OBVIOUS
  <2>2. /\ In(p, C) \in Int /\ In(t, R) \in Int /\ In(t, K) \in Int
        /\ In(t, L) \in Int /\ In(p, O) \in Int
        /\ In(p, C2) \in Int /\ In(t, R2) \in Int /\ In(t, K2) \in Int
        /\ In(t, L2) \in Int /\ In(p, O2) \in Int
    BY DEF In
  <2> QED BY <2>1, <2>2, <1>8, <1>9, <1>10, <1>11
<1> QED BY <1>1, <1>12

\* The same for a step that leaves the counter alone and moves a single-group
\* task from one way of holding its token to another.
ClaimLabels == {"ta_recheck", "ts_recheck", "hand", "rc_slow", "rc_slot", "rc_slot_free", "rel_add"}
FastWeight(p, t) == (IF p[1] \in Fast /\ pc[p] \in ClaimLabels THEN 1 ELSE 0)
                    + (IF state[t] \in {"pooled", "running"} THEN 1 ELSE 0)
                    + (IF state[t] \in {"parked", "drained"} /\ slot[t] THEN 1 ELSE 0)
                    - (IF pc[p] = "pay" THEN 1 ELSE 0)

LEMMA FastBalance ==
  ASSUME TypeOK, TokenAccounting, NEW p \in Threads, NEW t \in Fast, TaskGroups[t] = {grp[p]},
         UNCHANGED <<tokens, grp, locked>>,
         \A q \in Threads : q # p => pc'[q] = pc[q],
         \A u \in Tasks : u # t => state'[u] = state[u] /\ slot'[u] = slot[u],
         FastWeight(p, t)' = FastWeight(p, t)
  PROVE  TokenAccounting'
<1>1. t \in Tasks /\ t \notin Slow /\ tokens \in [Groups -> Int]
  BY FiniteThreads DEF Slow, TypeOK
<1>2. ASSUME NEW h \in Groups
      PROVE  tokens'[h] + Weight(p, t, h)' = tokens[h] + Weight(p, t, h)
  <2>1. In(t, LockedHandles(h)) = 0 /\ In(t, LockedHandles(h))' = 0
    BY <1>1 DEF In, LockedHandles
  <2>2. CASE h # grp[p]
    <3>1. /\ In(p, Claiming(h)) = 0 /\ In(p, Claiming(h))' = 0
          /\ In(t, RunningLocks(h)) = 0 /\ In(t, RunningLocks(h))' = 0
          /\ In(t, Counted(h)) = 0 /\ In(t, Counted(h))' = 0
          /\ In(p, Owing(h)) = 0 /\ In(p, Owing(h))' = 0
      BY <2>2 DEF In, Claiming, RunningLocks, Counted, Owing
    <3> QED BY <1>1, <2>1, <3>1 DEF Weight
  <2>3. CASE h = grp[p]
    <3>1. /\ In(p, Claiming(h)) = (IF p[1] \in Fast /\ pc[p] \in ClaimLabels THEN 1 ELSE 0)
          /\ In(t, RunningLocks(h)) = (IF state[t] \in {"pooled", "running"} THEN 1 ELSE 0)
          /\ In(t, Counted(h)) = (IF state[t] \in {"parked", "drained"} /\ slot[t] THEN 1 ELSE 0)
          /\ In(p, Owing(h)) = (IF pc[p] = "pay" THEN 1 ELSE 0)
      BY <2>3 DEF In, Claiming, RunningLocks, Counted, Owing, ClaimLabels
    <3>2. /\ In(p, Claiming(h))' = (IF p[1] \in Fast /\ pc'[p] \in ClaimLabels THEN 1 ELSE 0)
          /\ In(t, RunningLocks(h))' = (IF state'[t] \in {"pooled", "running"} THEN 1 ELSE 0)
          /\ In(t, Counted(h))' = (IF state'[t] \in {"parked", "drained"} /\ slot'[t] THEN 1 ELSE 0)
          /\ In(p, Owing(h))' = (IF pc'[p] = "pay" THEN 1 ELSE 0)
      BY <2>3 DEF In, Claiming, RunningLocks, Counted, Owing, ClaimLabels
    <3>3. FastWeight(p, t) = In(p, Claiming(h)) + In(t, RunningLocks(h)) + In(t, Counted(h)) - In(p, Owing(h))
      BY <3>1 DEF FastWeight
    <3>4. FastWeight(p, t)' = In(p, Claiming(h))' + In(t, RunningLocks(h))' + In(t, Counted(h))' - In(p, Owing(h))'
      BY <3>2 DEF FastWeight
    <3>5. /\ In(p, Claiming(h)) \in Int /\ In(p, Claiming(h))' \in Int
          /\ In(t, RunningLocks(h)) \in Int /\ In(t, RunningLocks(h))' \in Int
          /\ In(t, Counted(h)) \in Int /\ In(t, Counted(h))' \in Int
          /\ In(p, Owing(h)) \in Int /\ In(p, Owing(h))' \in Int
      BY DEF In
    <3> QED BY <1>1, <2>1, <3>3, <3>4, <3>5 DEF Weight
  <2> QED BY <2>2, <2>3
<1>3. /\ tokens' \in [Groups -> Int]
      /\ \A q \in Threads : q # p => pc'[q] = pc[q] /\ grp'[q] = grp[q]
      /\ \A u \in Tasks : u # t => state'[u] = state[u] /\ slot'[u] = slot[u] /\ locked'[u] = locked[u]
  BY <1>1
<1> QED BY <1>1, <1>2, <1>3, Balance

-----------------------------------------------------------------------------
(* TokenAccounting, step by step.                                          *)

LEMMA AccountNext ==
  TypeOK /\ Shape /\ TokenAccounting /\ [Next]_vars => TokenAccounting'
<1> SUFFICES ASSUME TypeOK, Shape, TokenAccounting, [Next]_vars PROVE TokenAccounting'
  OBVIOUS
<1> USE FiniteThreads
<1>a. /\ pc \in [Threads -> Labels]
      /\ grp \in [Threads -> Groups]
      /\ tokens \in [Groups -> Int]
      /\ state \in [Tasks -> States]
      /\ slot \in [Tasks -> BOOLEAN]
      /\ locked \in [Tasks -> SUBSET Groups]
      /\ ret \in [Threads -> {"done", "ts_check", "publish", "dtor_next"}]
      /\ \A p \in Threads : p[1] \in Tasks
  BY TaskOf DEF TypeOK
<1>b. RolesOK /\ GroupOK /\ ProgressOK /\ EntriesOK /\ MutexOK /\ TakeOK /\ BucketsOK
  BY DEF Shape
<1>c. /\ \A t \in Slow : t \notin Fast
      /\ \A p \in Threads : p[1] \in Fast => TaskGroups[p[1]] = {grp[p]}
  BY <1>b DEF Slow, GroupOK, Fast
<1>1. ASSUME NEW t \in Tasks, Submit(t) PROVE TokenAccounting'
  <2> DEFINE p == Submitter(t)
  <2>0. p \in Threads /\ p[1] = t BY ThreadsOf DEF Submitter
  <2>3. t \in Fast => state[t] = "new"
    BY <1>1, <1>b DEF Submit, ProgressOK
  <2>4. /\ UNCHANGED <<tokens, slot, locked, grp>>
        /\ pc[p] = "start" /\ \E l \in {"slow_add", "ta_check", "ts_check"} : pc' = [pc EXCEPT ![p] = l]
        /\ state' = [state EXCEPT ![t] = "submitting"]
    BY <1>1 DEF Submit, Goto, groupVars, handleVars, localVars
  <2> HIDE DEF p
  <2>1. /\ tokens' \in [Groups -> Int]
        /\ \A q \in Threads : q # p => pc'[q] = pc[q] /\ grp'[q] = grp[q]
        /\ \A u \in Tasks : u # t => state'[u] = state[u] /\ slot'[u] = slot[u] /\ locked'[u] = locked[u]
    BY <1>a, <2>4
  <2>2. \A h \in Groups : tokens'[h] + Weight(p, t, h)' = tokens[h] + Weight(p, t, h)
    BY <1>a, <1>c, <2>0, <2>3, <2>4 DEF Weight, In, Claiming, RunningLocks, Counted, LockedHandles, Owing
  <2> QED BY <2>0, <2>1, <2>2, Balance
<1>2. ASSUME NEW t \in Tasks, StopPool(t) PROVE TokenAccounting'
  BY <1>2 DEF StopPool, groupVars, handleVars, localVars, TokenAccounting, Claiming, RunningLocks, Counted, LockedHandles, Owing
<1>3. ASSUME NEW p \in Threads, TryAcquireCheck(p) PROVE TokenAccounting'
  <2>1. /\ tokens' \in [Groups -> Int]
        /\ \A q \in Threads : q # p => pc'[q] = pc[q] /\ grp'[q] = grp[q]
        /\ \A u \in Tasks : u # p[1] => state'[u] = state[u] /\ slot'[u] = slot[u] /\ locked'[u] = locked[u]
    BY <1>3, <1>a DEF TryAcquireCheck, groupVars, handleVars, poolVars, localVars, Goto
  <2>2. \A h \in Groups : tokens'[h] + Weight(p, p[1], h)' = tokens[h] + Weight(p, p[1], h)
    BY <1>3, <1>a, <1>b, <1>c DEF TryAcquireCheck, groupVars, handleVars, poolVars, localVars, Goto, RolesOK, FastLabels, SlowLabels, Weight, In, Claiming, RunningLocks, Counted, LockedHandles, Owing
  <2> QED BY <1>a, <2>1, <2>2, Balance
<1>4. ASSUME NEW p \in Threads, TryAcquireTake(p) PROVE TokenAccounting'
  <2>1. /\ tokens' \in [Groups -> Int]
        /\ \A q \in Threads : q # p => pc'[q] = pc[q] /\ grp'[q] = grp[q]
        /\ \A u \in Tasks : u # p[1] => state'[u] = state[u] /\ slot'[u] = slot[u] /\ locked'[u] = locked[u]
    BY <1>4, <1>a DEF TryAcquireTake, handleVars, poolVars, localVars, Goto
  <2>2. \A h \in Groups : tokens'[h] + Weight(p, p[1], h)' = tokens[h] + Weight(p, p[1], h)
    BY <1>4, <1>a, <1>b, <1>c DEF TryAcquireTake, handleVars, poolVars, localVars, Goto, RolesOK, FastLabels, SlowLabels, Weight, In, Claiming, RunningLocks, Counted, LockedHandles, Owing
  <2> QED BY <1>a, <2>1, <2>2, Balance
<1>5. ASSUME NEW p \in Threads, TryAcquireRecheck(p) PROVE TokenAccounting'
  <2>0. state[p[1]] = "submitting"
    <3>1. p = Submitter(p[1])
      BY <1>5, <1>b, ThreadForms, RoleForms DEF TryAcquireRecheck, SubmitLabels
    <3> QED BY <1>5, <1>b, <3>1 DEF TryAcquireRecheck, ProgressOK, BeforeParking, RolesOK, FastLabels
  <2>9. p[1] \in Fast
    BY <1>5, <1>b DEF TryAcquireRecheck, RolesOK, FastLabels
  <2>1. CASE slow_pending[grp[p]] > 0
    <3>1. /\ UNCHANGED <<tokens, grp, locked>>
          /\ pc[p] = "ta_recheck"
          /\ pc' = [pc EXCEPT ![p] = "rel_add"]
          /\ UNCHANGED <<slot, state>>
      BY <1>5, <2>0, <2>9, <2>1 DEF TryAcquireRecheck, groupVars, handleVars, Goto, Call
    <3>2. /\ \A q \in Threads : q # p => pc'[q] = pc[q]
          /\ \A u \in Tasks : u # p[1] => state'[u] = state[u] /\ slot'[u] = slot[u]
      BY <1>a, <3>1
    <3>3. FastWeight(p, p[1])' = FastWeight(p, p[1])
      BY <1>a, <1>c, <1>5, <2>0, <2>9, <2>1, <3>1 DEF FastWeight, ClaimLabels
    <3> QED BY <1>c, <1>5, <2>0, <2>9, <2>1, <3>1, <3>2, <3>3, FastBalance
  <2>2. CASE ~(slow_pending[grp[p]] > 0)
    <3>1. /\ UNCHANGED <<tokens, grp, locked>>
          /\ pc[p] = "ta_recheck"
          /\ pc' = [pc EXCEPT ![p] = "run"]
          /\ UNCHANGED slot
          /\ state' = [state EXCEPT ![p[1]] = "running"]
      BY <1>5, <2>0, <2>9, <2>2 DEF TryAcquireRecheck, groupVars, handleVars, Goto, Call
    <3>2. /\ \A q \in Threads : q # p => pc'[q] = pc[q]
          /\ \A u \in Tasks : u # p[1] => state'[u] = state[u] /\ slot'[u] = slot[u]
      BY <1>a, <3>1
    <3>3. FastWeight(p, p[1])' = FastWeight(p, p[1])
      BY <1>a, <1>c, <1>5, <2>0, <2>9, <2>2, <3>1 DEF FastWeight, ClaimLabels
    <3> QED BY <1>c, <1>5, <2>0, <2>9, <2>2, <3>1, <3>2, <3>3, FastBalance
  <2> QED BY <2>1, <2>2
<1>6. ASSUME NEW p \in Threads, TrySubmitCheck(p) PROVE TokenAccounting'
  <2>1. /\ tokens' \in [Groups -> Int]
        /\ \A q \in Threads : q # p => pc'[q] = pc[q] /\ grp'[q] = grp[q]
        /\ \A u \in Tasks : u # p[1] => state'[u] = state[u] /\ slot'[u] = slot[u] /\ locked'[u] = locked[u]
    BY <1>6, <1>a DEF TrySubmitCheck, groupVars, handleVars, poolVars, localVars, Goto
  <2>2. \A h \in Groups : tokens'[h] + Weight(p, p[1], h)' = tokens[h] + Weight(p, p[1], h)
    BY <1>6, <1>a, <1>b, <1>c DEF TrySubmitCheck, groupVars, handleVars, poolVars, localVars, Goto, RolesOK, FastLabels, SlowLabels, Weight, In, Claiming, RunningLocks, Counted, LockedHandles, Owing
  <2> QED BY <1>a, <2>1, <2>2, Balance
<1>7. ASSUME NEW p \in Threads, TrySubmitTake(p) PROVE TokenAccounting'
  <2>1. /\ tokens' \in [Groups -> Int]
        /\ \A q \in Threads : q # p => pc'[q] = pc[q] /\ grp'[q] = grp[q]
        /\ \A u \in Tasks : u # p[1] => state'[u] = state[u] /\ slot'[u] = slot[u] /\ locked'[u] = locked[u]
    BY <1>7, <1>a DEF TrySubmitTake, handleVars, poolVars, localVars, Goto
  <2>2. \A h \in Groups : tokens'[h] + Weight(p, p[1], h)' = tokens[h] + Weight(p, p[1], h)
    BY <1>7, <1>a, <1>b, <1>c DEF TrySubmitTake, handleVars, poolVars, localVars, Goto, RolesOK, FastLabels, SlowLabels, Weight, In, Claiming, RunningLocks, Counted, LockedHandles, Owing
  <2> QED BY <1>a, <2>1, <2>2, Balance
<1>8. ASSUME NEW p \in Threads, TrySubmitRecheck(p) PROVE TokenAccounting'
  <2>1. /\ tokens' \in [Groups -> Int]
        /\ \A q \in Threads : q # p => pc'[q] = pc[q] /\ grp'[q] = grp[q]
        /\ \A u \in Tasks : u # p[1] => state'[u] = state[u] /\ slot'[u] = slot[u] /\ locked'[u] = locked[u]
    BY <1>8, <1>a DEF TrySubmitRecheck, groupVars, handleVars, poolVars, Goto, Call
  <2>2. \A h \in Groups : tokens'[h] + Weight(p, p[1], h)' = tokens[h] + Weight(p, p[1], h)
    BY <1>8, <1>a, <1>b, <1>c DEF TrySubmitRecheck, groupVars, handleVars, poolVars, Goto, Call, RolesOK, FastLabels, SlowLabels, Weight, In, Claiming, RunningLocks, Counted, LockedHandles, Owing
  <2> QED BY <1>a, <2>1, <2>2, Balance
<1>9. ASSUME NEW p \in Threads, HandToPool(p) PROVE TokenAccounting'
  <2>0. p[1] \in Fast => state[p[1]] = "submitting"
    <3>1. p = Submitter(p[1])
      BY <1>9, <1>b, ThreadForms, RoleForms DEF HandToPool, SubmitLabels
    <3> QED BY <1>9, <1>b, <3>1 DEF HandToPool, ProgressOK, BeforeParking, RolesOK, FastLabels
  <2>8. p[1] \in Fast => First(TaskGroups[p[1]]) = grp[p] /\ grp' = grp
    <3>1. p[1] \in Fast => First(TaskGroups[p[1]]) = grp[p]
      BY <1>a, <1>c, FirstGroups
    <3> QED BY <1>9, <1>a, <3>1 DEF HandToPool
  <2>1. CASE p[1] \in Fast /\ accept[p[1]]
    <3>1. /\ UNCHANGED <<tokens, grp, locked>>
          /\ pc[p] = "hand"
          /\ pc' = [pc EXCEPT ![p] = "done"]
          /\ UNCHANGED slot
          /\ state' = [state EXCEPT ![p[1]] = "pooled"]
      BY <1>9, <2>0, <2>8, <2>1 DEF HandToPool, groupVars, handleVars, Goto, Call
    <3>2. /\ \A q \in Threads : q # p => pc'[q] = pc[q]
          /\ \A u \in Tasks : u # p[1] => state'[u] = state[u] /\ slot'[u] = slot[u]
      BY <1>a, <3>1
    <3>3. FastWeight(p, p[1])' = FastWeight(p, p[1])
      BY <1>a, <1>c, <1>9, <2>0, <2>8, <2>1, <3>1 DEF FastWeight, ClaimLabels
    <3> QED BY <1>c, <1>9, <2>0, <2>8, <2>1, <3>1, <3>2, <3>3, FastBalance
  <2>2. CASE p[1] \in Fast /\ ~accept[p[1]]
    <3>1. /\ UNCHANGED <<tokens, grp, locked>>
          /\ pc[p] = "hand"
          /\ pc' = [pc EXCEPT ![p] = "rel_add"]
          /\ UNCHANGED slot
          /\ state' = [state EXCEPT ![p[1]] = "rejected"]
      BY <1>9, <2>0, <2>8, <2>2 DEF HandToPool, groupVars, handleVars, Goto, Call
    <3>2. /\ \A q \in Threads : q # p => pc'[q] = pc[q]
          /\ \A u \in Tasks : u # p[1] => state'[u] = state[u] /\ slot'[u] = slot[u]
      BY <1>a, <3>1
    <3>3. FastWeight(p, p[1])' = FastWeight(p, p[1])
      BY <1>a, <1>c, <1>9, <2>0, <2>8, <2>2, <3>1 DEF FastWeight, ClaimLabels
    <3> QED BY <1>c, <1>9, <2>0, <2>8, <2>2, <3>1, <3>2, <3>3, FastBalance
  <2>3. CASE p[1] \notin Fast
    <3>1. /\ tokens' \in [Groups -> Int]
          /\ \A q \in Threads : q # p => pc'[q] = pc[q] /\ grp'[q] = grp[q]
          /\ \A u \in Tasks : u # p[1] => state'[u] = state[u] /\ slot'[u] = slot[u] /\ locked'[u] = locked[u]
      BY <1>9, <1>a DEF HandToPool, groupVars, handleVars, Goto, Call
    <3>2. UNCHANGED <<tokens, locked>> /\ pc[p] # "pay" /\ pc'[p] # "pay"
      BY <1>9, <1>a, <2>3 DEF HandToPool, groupVars, handleVars, Goto, Call
    <3>3. \A h \in Groups : tokens'[h] + Weight(p, p[1], h)' = tokens[h] + Weight(p, p[1], h)
      BY <2>3, <3>2 DEF Weight, In, Claiming, RunningLocks, Counted, LockedHandles, Owing
    <3> QED BY <1>a, <3>1, <3>3, Balance
  <2> QED BY <2>1, <2>2, <2>3
<1>10. ASSUME NEW p \in Threads, ParkPublish(p) PROVE TokenAccounting'
  <2>0. state[p[1]] = "submitting" /\ ~slot[p[1]]
    <3>1. p = Submitter(p[1])
      BY <1>10, <1>b, ThreadForms, RoleForms DEF ParkPublish, SubmitLabels
    <3> QED BY <1>10, <1>b, <3>1 DEF ParkPublish, ProgressOK, BeforeParking, RolesOK, FastLabels
  <2>1. /\ tokens' \in [Groups -> Int]
        /\ \A q \in Threads : q # p => pc'[q] = pc[q] /\ grp'[q] = grp[q]
        /\ \A u \in Tasks : u # p[1] => state'[u] = state[u] /\ slot'[u] = slot[u] /\ locked'[u] = locked[u]
    BY <1>10, <1>a, <2>0 DEF ParkPublish, handleVars, localVars, Goto
  <2>2. \A h \in Groups : tokens'[h] + Weight(p, p[1], h)' = tokens[h] + Weight(p, p[1], h)
    BY <1>10, <1>a, <1>b, <1>c, <2>0 DEF ParkPublish, handleVars, localVars, Goto, RolesOK, FastLabels, SlowLabels, Weight, In, Claiming, RunningLocks, Counted, LockedHandles, Owing
  <2> QED BY <1>a, <2>0, <2>1, <2>2, Balance
<1>11. ASSUME NEW p \in Threads, ReconcileReserve(p) PROVE TokenAccounting'
  <2>1. /\ tokens' \in [Groups -> Int]
        /\ \A q \in Threads : q # p => pc'[q] = pc[q] /\ grp'[q] = grp[q]
        /\ \A u \in Tasks : u # p[1] => state'[u] = state[u] /\ slot'[u] = slot[u] /\ locked'[u] = locked[u]
    BY <1>11, <1>a DEF ReconcileReserve, handleVars, poolVars, localVars, Goto
  <2>2. \A h \in Groups : tokens'[h] + Weight(p, p[1], h)' = tokens[h] + Weight(p, p[1], h)
    BY <1>11, <1>a, <1>b, <1>c DEF ReconcileReserve, handleVars, poolVars, localVars, Goto, RolesOK, FastLabels, SlowLabels, Weight, In, Claiming, RunningLocks, Counted, LockedHandles, Owing
  <2> QED BY <1>a, <2>1, <2>2, Balance
<1>12. ASSUME NEW p \in Threads, ReconcileYield(p) PROVE TokenAccounting'
  <2>1. /\ tokens' \in [Groups -> Int]
        /\ \A q \in Threads : q # p => pc'[q] = pc[q] /\ grp'[q] = grp[q]
        /\ \A u \in Tasks : u # p[1] => state'[u] = state[u] /\ slot'[u] = slot[u] /\ locked'[u] = locked[u]
    BY <1>12, <1>a DEF ReconcileYield, groupVars, handleVars, poolVars, Goto, Call
  <2>2. \A h \in Groups : tokens'[h] + Weight(p, p[1], h)' = tokens[h] + Weight(p, p[1], h)
    BY <1>12, <1>a, <1>b, <1>c DEF ReconcileYield, groupVars, handleVars, poolVars, Goto, Call, RolesOK, FastLabels, SlowLabels, Weight, In, Claiming, RunningLocks, Counted, LockedHandles, Owing
  <2> QED BY <1>a, <2>1, <2>2, Balance
<1>13. ASSUME NEW p \in Threads, ReconcileClaim(p) PROVE TokenAccounting'
  <2>0. ~slot[p[1]] => state[p[1]] \in {"parked", "drained"}
    <3>1. p = Submitter(p[1])
      BY <1>13, <1>b, ThreadForms, RoleForms DEF ReconcileClaim, SubmitLabels
    <3> QED BY <1>13, <1>b, <3>1 DEF ReconcileClaim, ProgressOK, BeforeParking, RolesOK, FastLabels
  <2>9. p[1] \in Fast
    BY <1>13, <1>b DEF ReconcileClaim, RolesOK, FastLabels
  <2>1. CASE slot[p[1]]
    <3>1. /\ UNCHANGED <<tokens, grp, locked>>
          /\ pc[p] \in ClaimLabels
          /\ pc' = [pc EXCEPT ![p] = "rel_add"]
          /\ UNCHANGED state
          /\ slot' = [slot EXCEPT ![p[1]] = TRUE]
      BY <1>13, <2>0, <2>9, <2>1 DEF ReconcileClaim, groupVars, poolVars, Goto, Call, ClaimLabels
    <3>2. /\ \A q \in Threads : q # p => pc'[q] = pc[q]
          /\ \A u \in Tasks : u # p[1] => state'[u] = state[u] /\ slot'[u] = slot[u]
      BY <1>a, <3>1
    <3>3. FastWeight(p, p[1])' = FastWeight(p, p[1])
      BY <1>a, <1>c, <1>13, <2>0, <2>9, <2>1, <3>1 DEF FastWeight, ClaimLabels
    <3> QED BY <1>c, <1>13, <2>0, <2>9, <2>1, <3>1, <3>2, <3>3, FastBalance
  <2>2. CASE ~slot[p[1]]
    <3>1. /\ UNCHANGED <<tokens, grp, locked>>
          /\ pc[p] \in ClaimLabels
          /\ pc[p] # "pay"
          /\ pc' = [pc EXCEPT ![p] = "drain"] \/ pc' = [pc EXCEPT ![p] = "done"]
          /\ UNCHANGED state
          /\ slot' = [slot EXCEPT ![p[1]] = TRUE]
      BY <1>13, <2>0, <2>9, <2>2 DEF ReconcileClaim, groupVars, poolVars, Goto, Call, ClaimLabels
    <3>2. /\ \A q \in Threads : q # p => pc'[q] = pc[q]
          /\ \A u \in Tasks : u # p[1] => state'[u] = state[u] /\ slot'[u] = slot[u]
      BY <1>a, <3>1
    <3>3. FastWeight(p, p[1])' = FastWeight(p, p[1])
      BY <1>a, <1>c, <1>13, <2>0, <2>9, <2>2, <3>1 DEF FastWeight, ClaimLabels
    <3> QED BY <1>c, <1>13, <2>0, <2>9, <2>2, <3>1, <3>2, <3>3, FastBalance
  <2> QED BY <2>1, <2>2
<1>14. ASSUME NEW p \in Threads, ReleaseAdd(p) PROVE TokenAccounting'
  <2>1. /\ tokens' \in [Groups -> Int]
        /\ \A q \in Threads : q # p => pc'[q] = pc[q] /\ grp'[q] = grp[q]
        /\ \A u \in Tasks : u # p[1] => state'[u] = state[u] /\ slot'[u] = slot[u] /\ locked'[u] = locked[u]
    BY <1>14, <1>a DEF ReleaseAdd, handleVars, poolVars, localVars, Goto
  <2>2. \A h \in Groups : tokens'[h] + Weight(p, p[1], h)' = tokens[h] + Weight(p, p[1], h)
    BY <1>14, <1>a, <1>b, <1>c DEF ReleaseAdd, handleVars, poolVars, localVars, Goto, RolesOK, FastLabels, SlowLabels, Weight, In, Claiming, RunningLocks, Counted, LockedHandles, Owing
  <2> QED BY <1>a, <2>1, <2>2, Balance
<1>15. ASSUME NEW p \in Threads, ReleaseChoose(p) PROVE TokenAccounting'
  <2>1. /\ tokens' \in [Groups -> Int]
        /\ \A q \in Threads : q # p => pc'[q] = pc[q] /\ grp'[q] = grp[q]
        /\ \A u \in Tasks : u # p[1] => state'[u] = state[u] /\ slot'[u] = slot[u] /\ locked'[u] = locked[u]
    BY <1>15, <1>a DEF ReleaseChoose, groupVars, handleVars, poolVars, localVars, Goto
  <2>2. \A h \in Groups : tokens'[h] + Weight(p, p[1], h)' = tokens[h] + Weight(p, p[1], h)
    BY <1>15, <1>a, <1>b, <1>c DEF ReleaseChoose, groupVars, handleVars, poolVars, localVars, Goto, RolesOK, FastLabels, SlowLabels, Weight, In, Claiming, RunningLocks, Counted, LockedHandles, Owing
  <2> QED BY <1>a, <2>1, <2>2, Balance
<1>16. ASSUME NEW p \in Threads, NotifySlowPath(p) PROVE TokenAccounting'
  <2>1. /\ tokens' \in [Groups -> Int]
        /\ \A q \in Threads : q # p => pc'[q] = pc[q] /\ grp'[q] = grp[q]
        /\ \A u \in Tasks : u # p[1] => state'[u] = state[u] /\ slot'[u] = slot[u] /\ locked'[u] = locked[u]
    BY <1>16, <1>a DEF NotifySlowPath, groupVars, poolVars, Goto
  <2>2. \A h \in Groups : tokens'[h] + Weight(p, p[1], h)' = tokens[h] + Weight(p, p[1], h)
    BY <1>16, <1>a, <1>b, <1>c DEF NotifySlowPath, groupVars, poolVars, Goto, RolesOK, FastLabels, SlowLabels, Weight, In, Claiming, RunningLocks, Counted, LockedHandles, Owing
  <2> QED BY <1>a, <2>1, <2>2, Balance
<1>17. ASSUME NEW p \in Threads, DrainScan(p) PROVE TokenAccounting'
  <2>1. PICK g \in Groups, b \in Buckets : g = grp[p] /\ b = scan[p]
    BY GroupsOf, ScanIn
  <2>2. CASE wait_buckets[g][b] = <<>>
    <3>1. /\ UNCHANGED <<tokens, state, slot, locked, grp>>
          /\ pc[p] = "drain"
          /\ pc' = pc \/ pc' = [pc EXCEPT ![p] = ret[p]]
      BY <1>17, <2>1, <2>2 DEF DrainScan, Goto, Return, handleVars
    <3>2. /\ tokens' \in [Groups -> Int]
          /\ \A q \in Threads : q # p => pc'[q] = pc[q] /\ grp'[q] = grp[q]
      BY <1>a, <3>1
    <3>3. \A h \in Groups : tokens'[h] + Weight(p, p[1], h)' = tokens[h] + Weight(p, p[1], h)
      BY <1>a, <3>1 DEF Weight, In, Claiming, RunningLocks, Counted, LockedHandles, Owing
    <3> QED BY <1>a, <3>1, <3>2, <3>3, Balance
  <2>3. CASE wait_buckets[g][b] # <<>>
    <3>0. wait_buckets[g][b] \in Seq(Tasks) BY <2>1, BucketType
    <3>1. PICK t \in Fast : t = Head(wait_buckets[g][b]) /\ state[t] = "parked"
      <4>1. 1 \in 1 .. Len(wait_buckets[g][b]) /\ Head(wait_buckets[g][b]) = wait_buckets[g][b][1]
        BY <2>3, <3>0
      <4> QED BY <4>1, <2>1, <1>b DEF BucketsOK, WaitsIn
    <3>2. /\ UNCHANGED <<tokens, slot, locked, grp>>
          /\ pc[p] = "drain" /\ pc' = [pc EXCEPT ![p] = "claim"]
          /\ state' = [state EXCEPT ![t] = "drained"]
      BY <1>17, <2>1, <2>3, <3>1 DEF DrainScan, Goto, handleVars
    <3>3. /\ tokens' \in [Groups -> Int] /\ t \in Tasks
          /\ \A q \in Threads : q # p => pc'[q] = pc[q] /\ grp'[q] = grp[q]
          /\ \A u \in Tasks : u # t => state'[u] = state[u] /\ slot'[u] = slot[u] /\ locked'[u] = locked[u]
      BY <1>a, <3>2
    <3>4. \A h \in Groups : tokens'[h] + Weight(p, t, h)' = tokens[h] + Weight(p, t, h)
      BY <1>a, <1>c, <3>1, <3>2, <3>3 DEF Weight, In, Claiming, RunningLocks, Counted, LockedHandles, Owing
    <3> QED BY <3>3, <3>4, Balance
  <2> QED BY <2>2, <2>3
<1>18. ASSUME NEW p \in Threads, DrainClaim(p) PROVE TokenAccounting'
  <2>0. PICK t \in Fast : t = entry[p] /\ TaskGroups[t] = {grp[p]} /\ state[t] = "drained"
    BY <1>18, <1>b DEF DrainClaim, EntriesOK
  <2>9. ret[p] \notin ClaimLabels \cup {"pay"}
    BY <1>a DEF ClaimLabels
  <2>1. CASE slot[t]
    <3>1. /\ UNCHANGED <<tokens, grp, locked>>
          /\ pc[p] = "claim"
          /\ pc' = [pc EXCEPT ![p] = ret[p]]
          /\ slot' = [slot EXCEPT ![t] = TRUE]
          /\ state' = [state EXCEPT ![t] = "pooled"]
      BY <1>18, <2>0, <2>9, <2>1 DEF DrainClaim, groupVars, Goto, Return
    <3>2. /\ \A q \in Threads : q # p => pc'[q] = pc[q]
          /\ \A u \in Tasks : u # t => state'[u] = state[u] /\ slot'[u] = slot[u]
      BY <1>a, <3>1
    <3>3. FastWeight(p, t)' = FastWeight(p, t)
      BY <1>a, <1>c, <1>18, <2>0, <2>9, <2>1, <3>1 DEF FastWeight, ClaimLabels
    <3> QED BY <1>c, <1>18, <2>0, <2>9, <2>1, <3>1, <3>2, <3>3, FastBalance
  <2>2. CASE ~slot[t]
    <3>1. /\ UNCHANGED <<tokens, grp, locked>>
          /\ pc[p] = "claim"
          /\ pc' = [pc EXCEPT ![p] = "pay"]
          /\ slot' = [slot EXCEPT ![t] = TRUE]
          /\ state' = [state EXCEPT ![t] = "pooled"]
      BY <1>18, <2>0, <2>9, <2>2 DEF DrainClaim, groupVars, Goto, Return
    <3>2. /\ \A q \in Threads : q # p => pc'[q] = pc[q]
          /\ \A u \in Tasks : u # t => state'[u] = state[u] /\ slot'[u] = slot[u]
      BY <1>a, <3>1
    <3>3. FastWeight(p, t)' = FastWeight(p, t)
      BY <1>a, <1>c, <1>18, <2>0, <2>9, <2>2, <3>1 DEF FastWeight, ClaimLabels
    <3> QED BY <1>c, <1>18, <2>0, <2>9, <2>2, <3>1, <3>2, <3>3, FastBalance
  <2> QED BY <2>1, <2>2
<1>19. ASSUME NEW p \in Threads, DrainPay(p) PROVE TokenAccounting'
  <2>1. /\ tokens' \in [Groups -> Int]
        /\ \A q \in Threads : q # p => pc'[q] = pc[q] /\ grp'[q] = grp[q]
        /\ \A u \in Tasks : u # p[1] => state'[u] = state[u] /\ slot'[u] = slot[u] /\ locked'[u] = locked[u]
    BY <1>19, <1>a DEF DrainPay, handleVars, poolVars, localVars, Return, Goto
  <2>2. \A h \in Groups : tokens'[h] + Weight(p, p[1], h)' = tokens[h] + Weight(p, p[1], h)
    BY <1>19, <1>a, <1>b, <1>c DEF DrainPay, handleVars, poolVars, localVars, Return, Goto, RolesOK, FastLabels, SlowLabels, Weight, In, Claiming, RunningLocks, Counted, LockedHandles, Owing
  <2> QED BY <1>a, <2>1, <2>2, Balance
<1>20. ASSUME NEW p \in Threads, LockAnnounce(p) PROVE TokenAccounting'
  <2>1. /\ tokens' \in [Groups -> Int]
        /\ \A q \in Threads : q # p => pc'[q] = pc[q] /\ grp'[q] = grp[q]
        /\ \A u \in Tasks : u # p[1] => state'[u] = state[u] /\ slot'[u] = slot[u] /\ locked'[u] = locked[u]
    BY <1>20, <1>a DEF LockAnnounce, handleVars, poolVars, localVars, Goto
  <2>2. \A h \in Groups : tokens'[h] + Weight(p, p[1], h)' = tokens[h] + Weight(p, p[1], h)
    BY <1>20, <1>a, <1>b, <1>c DEF LockAnnounce, handleVars, poolVars, localVars, Goto, RolesOK, FastLabels, SlowLabels, Weight, In, Claiming, RunningLocks, Counted, LockedHandles, Owing
  <2> QED BY <1>a, <2>1, <2>2, Balance
<1>21. ASSUME NEW p \in Threads, LockInsert(p) PROVE TokenAccounting'
  <2>1. /\ tokens' \in [Groups -> Int]
        /\ \A q \in Threads : q # p => pc'[q] = pc[q] /\ grp'[q] = grp[q]
        /\ \A u \in Tasks : u # p[1] => state'[u] = state[u] /\ slot'[u] = slot[u] /\ locked'[u] = locked[u]
    BY <1>21, <1>a DEF LockInsert, poolVars, Goto
  <2>2. \A h \in Groups : tokens'[h] + Weight(p, p[1], h)' = tokens[h] + Weight(p, p[1], h)
    BY <1>21, <1>a, <1>b, <1>c DEF LockInsert, poolVars, Goto, RolesOK, FastLabels, SlowLabels, Weight, In, Claiming, RunningLocks, Counted, LockedHandles, Owing
  <2> QED BY <1>a, <2>1, <2>2, Balance
<1>22. ASSUME NEW p \in Threads, WorkerDequeue(p) PROVE TokenAccounting'
  <2>1. /\ tokens' \in [Groups -> Int]
        /\ \A q \in Threads : q # p => pc'[q] = pc[q] /\ grp'[q] = grp[q]
        /\ \A u \in Tasks : u # p[1] => state'[u] = state[u] /\ slot'[u] = slot[u] /\ locked'[u] = locked[u]
    BY <1>22, <1>a DEF WorkerDequeue, groupVars, handleVars, localVars, Goto
  <2>2. \A h \in Groups : tokens'[h] + Weight(p, p[1], h)' = tokens[h] + Weight(p, p[1], h)
    BY <1>22, <1>a, <1>b, <1>c DEF WorkerDequeue, groupVars, handleVars, localVars, Goto, RolesOK, FastLabels, SlowLabels, Weight, In, Claiming, RunningLocks, Counted, LockedHandles, Owing
  <2> QED BY <1>a, <2>1, <2>2, Balance
<1>23. ASSUME NEW p \in Threads, GroupLockTry(p) PROVE TokenAccounting'
  <2>1. /\ tokens' \in [Groups -> Int]
        /\ \A q \in Threads : q # p => pc'[q] = pc[q] /\ grp'[q] = grp[q]
        /\ \A u \in Tasks : u # p[1] => state'[u] = state[u] /\ slot'[u] = slot[u] /\ locked'[u] = locked[u]
    BY <1>23, <1>a DEF GroupLockTry, handleVars, Goto, LockNext
  <2>2. \A h \in Groups : tokens'[h] + Weight(p, p[1], h)' = tokens[h] + Weight(p, p[1], h)
    BY <1>23, <1>a, <1>b, <1>c DEF GroupLockTry, handleVars, Goto, LockNext, RolesOK, FastLabels, SlowLabels, Weight, In, Claiming, RunningLocks, Counted, LockedHandles, Owing
  <2> QED BY <1>a, <2>1, <2>2, Balance
<1>24. ASSUME NEW p \in Threads, GroupLockTake(p) PROVE TokenAccounting'
  <2>1. /\ tokens' \in [Groups -> Int]
        /\ \A q \in Threads : q # p => pc'[q] = pc[q] /\ grp'[q] = grp[q]
        /\ \A u \in Tasks : u # p[1] => state'[u] = state[u] /\ slot'[u] = slot[u] /\ locked'[u] = locked[u]
    BY <1>24, <1>a DEF GroupLockTake, LockNext, Goto
  <2>2. \A h \in Groups : tokens'[h] + Weight(p, p[1], h)' = tokens[h] + Weight(p, p[1], h)
    BY <1>24, <1>a, <1>b, <1>c DEF GroupLockTake, LockNext, Goto, RolesOK, FastLabels, SlowLabels, Weight, In, Claiming, RunningLocks, Counted, LockedHandles, Owing, TakeOK
  <2> QED BY <1>a, <2>1, <2>2, Balance
<1>25. ASSUME NEW p \in Threads, Finish(p) PROVE TokenAccounting'
  <2>0. p[1] \in Fast => state[p[1]] = "running"
    <3>1. p = Submitter(p[1]) \/ p = Worker(p[1])
      BY <1>25, <1>b, ThreadForms, RoleForms DEF Finish, SubmitLabels
    <3> QED BY <1>25, <1>b, <3>1 DEF Finish, ProgressOK, BeforeParking, RolesOK, FastLabels
  <2>1. CASE p[1] \in Fast
    <3>1. /\ UNCHANGED <<tokens, grp, locked>>
          /\ pc[p] = "run"
          /\ pc' = [pc EXCEPT ![p] = "rel_add"]
          /\ UNCHANGED slot
          /\ state' = [state EXCEPT ![p[1]] = "finished"]
      BY <1>25, <2>0, <2>1 DEF Finish, groupVars, handleVars, Call, Goto
    <3>2. /\ \A q \in Threads : q # p => pc'[q] = pc[q]
          /\ \A u \in Tasks : u # p[1] => state'[u] = state[u] /\ slot'[u] = slot[u]
      BY <1>a, <3>1
    <3>3. FastWeight(p, p[1])' = FastWeight(p, p[1])
      BY <1>a, <1>c, <1>25, <2>0, <2>1, <3>1 DEF FastWeight, ClaimLabels
    <3> QED BY <1>c, <1>25, <2>0, <2>1, <3>1, <3>2, <3>3, FastBalance
  <2>3. CASE p[1] \notin Fast
    <3>1. /\ tokens' \in [Groups -> Int]
          /\ \A q \in Threads : q # p => pc'[q] = pc[q] /\ grp'[q] = grp[q]
          /\ \A u \in Tasks : u # p[1] => state'[u] = state[u] /\ slot'[u] = slot[u] /\ locked'[u] = locked[u]
      BY <1>25, <1>a DEF Finish, groupVars, handleVars, Call, Goto
    <3>2. UNCHANGED <<tokens, locked>> /\ pc[p] # "pay" /\ pc'[p] # "pay"
      BY <1>25, <1>a, <2>3 DEF Finish, groupVars, handleVars, Call, Goto
    <3>3. \A h \in Groups : tokens'[h] + Weight(p, p[1], h)' = tokens[h] + Weight(p, p[1], h)
      BY <2>3, <3>2 DEF Weight, In, Claiming, RunningLocks, Counted, LockedHandles, Owing
    <3> QED BY <1>a, <3>1, <3>3, Balance
  <2> QED BY <2>1, <2>3
<1>26. ASSUME NEW p \in Threads, DestroyUnlock(p) PROVE TokenAccounting'
  <2>1. /\ tokens' \in [Groups -> Int]
        /\ \A q \in Threads : q # p => pc'[q] = pc[q] /\ grp'[q] = grp[q]
        /\ \A u \in Tasks : u # p[1] => state'[u] = state[u] /\ slot'[u] = slot[u] /\ locked'[u] = locked[u]
    BY <1>26, <1>a DEF DestroyUnlock, poolVars, Goto
  <2>2. \A h \in Groups : tokens'[h] + Weight(p, p[1], h)' = tokens[h] + Weight(p, p[1], h)
    BY <1>26, <1>a, <1>b, <1>c DEF DestroyUnlock, poolVars, Goto, RolesOK, FastLabels, SlowLabels, Weight, In, Claiming, RunningLocks, Counted, LockedHandles, Owing
  <2> QED BY <1>a, <2>1, <2>2, Balance
<1>27. ASSUME NEW p \in Threads, DestroyWalk(p) PROVE TokenAccounting'
  <2>1. /\ tokens' \in [Groups -> Int]
        /\ \A q \in Threads : q # p => pc'[q] = pc[q] /\ grp'[q] = grp[q]
        /\ \A u \in Tasks : u # p[1] => state'[u] = state[u] /\ slot'[u] = slot[u] /\ locked'[u] = locked[u]
    BY <1>27, <1>a DEF DestroyWalk, poolVars, Goto
  <2>2. \A h \in Groups : tokens'[h] + Weight(p, p[1], h)' = tokens[h] + Weight(p, p[1], h)
    BY <1>27, <1>a, <1>b, <1>c DEF DestroyWalk, poolVars, Goto, RolesOK, FastLabels, SlowLabels, Weight, In, Claiming, RunningLocks, Counted, LockedHandles, Owing
  <2> QED BY <1>a, <2>1, <2>2, Balance
<1>28. ASSUME NEW p \in Threads, DestroyPending(p) PROVE TokenAccounting'
  <2>1. /\ tokens' \in [Groups -> Int]
        /\ \A q \in Threads : q # p => pc'[q] = pc[q] /\ grp'[q] = grp[q]
        /\ \A u \in Tasks : u # p[1] => state'[u] = state[u] /\ slot'[u] = slot[u] /\ locked'[u] = locked[u]
    BY <1>28, <1>a DEF DestroyPending, handleVars, poolVars, localVars, Goto
  <2>2. \A h \in Groups : tokens'[h] + Weight(p, p[1], h)' = tokens[h] + Weight(p, p[1], h)
    BY <1>28, <1>a, <1>b, <1>c DEF DestroyPending, handleVars, poolVars, localVars, Goto, RolesOK, FastLabels, SlowLabels, Weight, In, Claiming, RunningLocks, Counted, LockedHandles, Owing
  <2> QED BY <1>a, <2>1, <2>2, Balance
<1>29. ASSUME NEW p \in Threads, Notify(p) PROVE TokenAccounting'
  <2>1. /\ tokens' \in [Groups -> Int]
        /\ \A q \in Threads : q # p => pc'[q] = pc[q] /\ grp'[q] = grp[q]
        /\ \A u \in Tasks : u # p[1] => state'[u] = state[u] /\ slot'[u] = slot[u] /\ locked'[u] = locked[u]
    BY <1>29, <1>a DEF Notify, groupVars, handleVars
  <2>2. \A h \in Groups : tokens'[h] + Weight(p, p[1], h)' = tokens[h] + Weight(p, p[1], h)
    BY <1>29, <1>a, <1>b, <1>c DEF Notify, groupVars, handleVars, RolesOK, FastLabels, SlowLabels, Weight, In, Claiming, RunningLocks, Counted, LockedHandles, Owing
  <2> QED BY <1>a, <2>1, <2>2, Balance
<1>30. ASSUME NEW p \in Threads, NotifyDone(p) PROVE TokenAccounting'
  <2>1. /\ tokens' \in [Groups -> Int]
        /\ \A q \in Threads : q # p => pc'[q] = pc[q] /\ grp'[q] = grp[q]
        /\ \A u \in Tasks : u # p[1] => state'[u] = state[u] /\ slot'[u] = slot[u] /\ locked'[u] = locked[u]
    BY <1>30, <1>a DEF NotifyDone, groupVars, handleVars, poolVars, Goto, Call, Return
  <2>2. \A h \in Groups : tokens'[h] + Weight(p, p[1], h)' = tokens[h] + Weight(p, p[1], h)
    BY <1>30, <1>a, <1>b, <1>c DEF NotifyDone, groupVars, handleVars, poolVars, Goto, Call, Return, RolesOK, FastLabels, SlowLabels, Weight, In, Claiming, RunningLocks, Counted, LockedHandles, Owing
  <2> QED BY <1>a, <2>1, <2>2, Balance
<1>31. ASSUME NEW p \in Threads, DestroySpare(p) PROVE TokenAccounting'
  <2>1. /\ tokens' \in [Groups -> Int]
        /\ \A q \in Threads : q # p => pc'[q] = pc[q] /\ grp'[q] = grp[q]
        /\ \A u \in Tasks : u # p[1] => state'[u] = state[u] /\ slot'[u] = slot[u] /\ locked'[u] = locked[u]
    BY <1>31, <1>a DEF DestroySpare, groupVars, handleVars, poolVars, Goto, Call
  <2>2. \A h \in Groups : tokens'[h] + Weight(p, p[1], h)' = tokens[h] + Weight(p, p[1], h)
    BY <1>31, <1>a, <1>b, <1>c DEF DestroySpare, groupVars, handleVars, poolVars, Goto, Call, RolesOK, FastLabels, SlowLabels, Weight, In, Claiming, RunningLocks, Counted, LockedHandles, Owing
  <2> QED BY <1>a, <2>1, <2>2, Balance
<1>32. ASSUME NEW p \in Threads, DestroyNext(p) PROVE TokenAccounting'
  <2>1. /\ tokens' \in [Groups -> Int]
        /\ \A q \in Threads : q # p => pc'[q] = pc[q] /\ grp'[q] = grp[q]
        /\ \A u \in Tasks : u # p[1] => state'[u] = state[u] /\ slot'[u] = slot[u] /\ locked'[u] = locked[u]
    BY <1>32, <1>a DEF DestroyNext, groupVars, handleVars, poolVars, Goto
  <2>2. \A h \in Groups : tokens'[h] + Weight(p, p[1], h)' = tokens[h] + Weight(p, p[1], h)
    BY <1>32, <1>a, <1>b, <1>c DEF DestroyNext, groupVars, handleVars, poolVars, Goto, RolesOK, FastLabels, SlowLabels, Weight, In, Claiming, RunningLocks, Counted, LockedHandles, Owing
  <2> QED BY <1>a, <2>1, <2>2, Balance
<1>33. ASSUME NEW p \in Threads, Discard(p) PROVE TokenAccounting'
  <2>1. CASE p[1] \in Fast
    <3>1. /\ UNCHANGED <<tokens, grp, locked>>
          /\ pc[p] = "wait"
          /\ pc' = [pc EXCEPT ![p] = "rel_add"]
          /\ UNCHANGED slot
          /\ state' = [state EXCEPT ![p[1]] = "discarded"]
          /\ state[p[1]] = "pooled"
      BY <1>33, <2>1 DEF Discard, groupVars, handleVars, Call, Goto
    <3>2. /\ \A q \in Threads : q # p => pc'[q] = pc[q]
          /\ \A u \in Tasks : u # p[1] => state'[u] = state[u] /\ slot'[u] = slot[u]
      BY <1>a, <3>1
    <3>3. FastWeight(p, p[1])' = FastWeight(p, p[1])
      BY <1>a, <1>c, <1>33, <2>1, <3>1 DEF FastWeight, ClaimLabels
    <3> QED BY <1>c, <1>33, <2>1, <3>1, <3>2, <3>3, FastBalance
  <2>3. CASE p[1] \notin Fast
    <3>1. /\ tokens' \in [Groups -> Int]
          /\ \A q \in Threads : q # p => pc'[q] = pc[q] /\ grp'[q] = grp[q]
          /\ \A u \in Tasks : u # p[1] => state'[u] = state[u] /\ slot'[u] = slot[u] /\ locked'[u] = locked[u]
      BY <1>33, <1>a DEF Discard, groupVars, handleVars, Call, Goto
    <3>2. UNCHANGED <<tokens, locked>> /\ pc[p] # "pay" /\ pc'[p] # "pay"
      BY <1>33, <1>a, <2>3 DEF Discard, groupVars, handleVars, Call, Goto
    <3>3. \A h \in Groups : tokens'[h] + Weight(p, p[1], h)' = tokens[h] + Weight(p, p[1], h)
      BY <2>3, <3>2 DEF Weight, In, Claiming, RunningLocks, Counted, LockedHandles, Owing
    <3> QED BY <1>a, <3>1, <3>3, Balance
  <2> QED BY <2>1, <2>3
<1>34. CASE UNCHANGED vars
  BY <1>34 DEF vars, groupVars, handleVars, poolVars, localVars, TokenAccounting, Claiming, RunningLocks, Counted, LockedHandles, Owing
<1>35. ASSUME NEW p \in Threads, Step(p) PROVE TokenAccounting'
  BY <1>35, <1>3, <1>4, <1>5, <1>6, <1>7, <1>8, <1>9, <1>10, <1>11, <1>12, <1>13, <1>14, <1>15, <1>16, <1>17, <1>18, <1>19, <1>20, <1>21, <1>22, <1>23, <1>24, <1>25, <1>26, <1>27, <1>28, <1>29, <1>30, <1>31, <1>32 DEF Step
<1>36. ASSUME NEW t \in Tasks, Discard(Worker(t)) PROVE TokenAccounting'
  BY <1>33, <1>36, ThreadsOf
<1> QED
  BY <1>1, <1>2, <1>34, <1>35, <1>36 DEF Next, Rest

-----------------------------------------------------------------------------
(* The bound of multi-group tasks.                                         *)

\* The counter of a group of multi-group tasks only never goes below zero.
NotOverdrawn == \A g \in Groups : MultiGroupOnly(g) => tokens[g] >= 0

LEMMA NotOverdrawnNext ==
  TypeOK /\ RolesOK /\ GroupOK /\ PayOK /\ TokenThere /\ NotOverdrawn /\ [Next]_vars => NotOverdrawn'
<1> SUFFICES ASSUME TypeOK, RolesOK, GroupOK, PayOK, TokenThere, NotOverdrawn, [Next]_vars
             PROVE  NotOverdrawn'
  OBVIOUS
<1>a. tokens \in [Groups -> Int] /\ grp \in [Threads -> Groups]
  BY DEF TypeOK
<1>1. ASSUME NEW t \in Tasks, Submit(t) PROVE NotOverdrawn'
  BY <1>1, <1>a DEF Submit, groupVars, NotOverdrawn
<1>2. ASSUME NEW t \in Tasks, StopPool(t) PROVE NotOverdrawn'
  BY <1>2, <1>a DEF StopPool, groupVars, NotOverdrawn
<1>3. ASSUME NEW p \in Threads, TryAcquireCheck(p) PROVE NotOverdrawn'
  BY <1>3, <1>a DEF TryAcquireCheck, groupVars, NotOverdrawn
<1>4. ASSUME NEW p \in Threads, TryAcquireTake(p) PROVE NotOverdrawn'
  <2>1. ~MultiGroupOnly(grp[p])
    BY <1>4, FastGroup DEF TryAcquireTake, FastLabels
  <2>2. \A h \in Groups : h # grp[p] => tokens'[h] = tokens[h]
    BY <1>4, <1>a DEF TryAcquireTake
  <2> QED BY <2>1, <2>2, <1>a DEF NotOverdrawn
<1>5. ASSUME NEW p \in Threads, TryAcquireRecheck(p) PROVE NotOverdrawn'
  BY <1>5, <1>a DEF TryAcquireRecheck, groupVars, NotOverdrawn
<1>6. ASSUME NEW p \in Threads, TrySubmitCheck(p) PROVE NotOverdrawn'
  BY <1>6, <1>a DEF TrySubmitCheck, groupVars, NotOverdrawn
<1>7. ASSUME NEW p \in Threads, TrySubmitTake(p) PROVE NotOverdrawn'
  <2>1. ~MultiGroupOnly(grp[p])
    BY <1>7, FastGroup DEF TrySubmitTake, FastLabels
  <2>2. \A h \in Groups : h # grp[p] => tokens'[h] = tokens[h]
    BY <1>7, <1>a DEF TrySubmitTake
  <2> QED BY <2>1, <2>2, <1>a DEF NotOverdrawn
<1>8. ASSUME NEW p \in Threads, TrySubmitRecheck(p) PROVE NotOverdrawn'
  BY <1>8, <1>a DEF TrySubmitRecheck, groupVars, NotOverdrawn
<1>9. ASSUME NEW p \in Threads, HandToPool(p) PROVE NotOverdrawn'
  BY <1>9, <1>a DEF HandToPool, groupVars, NotOverdrawn
<1>10. ASSUME NEW p \in Threads, ParkPublish(p) PROVE NotOverdrawn'
  BY <1>10, <1>a DEF ParkPublish, NotOverdrawn
<1>11. ASSUME NEW p \in Threads, ReconcileReserve(p) PROVE NotOverdrawn'
  <2>1. ~MultiGroupOnly(grp[p])
    BY <1>11, FastGroup DEF ReconcileReserve, FastLabels
  <2>2. \A h \in Groups : h # grp[p] => tokens'[h] = tokens[h]
    BY <1>11, <1>a DEF ReconcileReserve
  <2> QED BY <2>1, <2>2, <1>a DEF NotOverdrawn
<1>12. ASSUME NEW p \in Threads, ReconcileYield(p) PROVE NotOverdrawn'
  BY <1>12, <1>a DEF ReconcileYield, groupVars, NotOverdrawn
<1>13. ASSUME NEW p \in Threads, ReconcileClaim(p) PROVE NotOverdrawn'
  BY <1>13, <1>a DEF ReconcileClaim, groupVars, NotOverdrawn
<1>14. ASSUME NEW p \in Threads, ReleaseAdd(p) PROVE NotOverdrawn'
  BY <1>14, <1>a DEF ReleaseAdd, NotOverdrawn
<1>15. ASSUME NEW p \in Threads, ReleaseChoose(p) PROVE NotOverdrawn'
  BY <1>15, <1>a DEF ReleaseChoose, groupVars, NotOverdrawn
<1>16. ASSUME NEW p \in Threads, NotifySlowPath(p) PROVE NotOverdrawn'
  BY <1>16, <1>a DEF NotifySlowPath, groupVars, NotOverdrawn
<1>17. ASSUME NEW p \in Threads, DrainScan(p) PROVE NotOverdrawn'
  BY <1>17, <1>a DEF DrainScan, NotOverdrawn
<1>18. ASSUME NEW p \in Threads, DrainClaim(p) PROVE NotOverdrawn'
  BY <1>18, <1>a DEF DrainClaim, groupVars, NotOverdrawn
<1>19. ASSUME NEW p \in Threads, DrainPay(p) PROVE NotOverdrawn'
  <2>1. ~MultiGroupOnly(grp[p])
    BY <1>19 DEF DrainPay, PayOK, MultiGroupOnly
  <2>2. \A h \in Groups : h # grp[p] => tokens'[h] = tokens[h]
    BY <1>19, <1>a DEF DrainPay
  <2> QED BY <2>1, <2>2, <1>a DEF NotOverdrawn
<1>20. ASSUME NEW p \in Threads, LockAnnounce(p) PROVE NotOverdrawn'
  BY <1>20, <1>a DEF LockAnnounce, NotOverdrawn
<1>21. ASSUME NEW p \in Threads, LockInsert(p) PROVE NotOverdrawn'
  BY <1>21, <1>a DEF LockInsert, NotOverdrawn
<1>22. ASSUME NEW p \in Threads, WorkerDequeue(p) PROVE NotOverdrawn'
  BY <1>22, <1>a DEF WorkerDequeue, groupVars, NotOverdrawn
<1>23. ASSUME NEW p \in Threads, GroupLockTry(p) PROVE NotOverdrawn'
  BY <1>23, <1>a DEF GroupLockTry, NotOverdrawn
<1>24. ASSUME NEW p \in Threads, GroupLockTake(p) PROVE NotOverdrawn'
  BY <1>24, <1>a DEF GroupLockTake, TokenThere, NotOverdrawn
<1>25. ASSUME NEW p \in Threads, Finish(p) PROVE NotOverdrawn'
  BY <1>25, <1>a DEF Finish, groupVars, NotOverdrawn
<1>26. ASSUME NEW p \in Threads, DestroyUnlock(p) PROVE NotOverdrawn'
  BY <1>26, <1>a DEF DestroyUnlock, NotOverdrawn
<1>27. ASSUME NEW p \in Threads, DestroyWalk(p) PROVE NotOverdrawn'
  BY <1>27, <1>a DEF DestroyWalk, NotOverdrawn
<1>28. ASSUME NEW p \in Threads, DestroyPending(p) PROVE NotOverdrawn'
  BY <1>28, <1>a DEF DestroyPending, NotOverdrawn
<1>29. ASSUME NEW p \in Threads, Notify(p) PROVE NotOverdrawn'
  BY <1>29, <1>a DEF Notify, groupVars, NotOverdrawn
<1>30. ASSUME NEW p \in Threads, NotifyDone(p) PROVE NotOverdrawn'
  BY <1>30, <1>a DEF NotifyDone, groupVars, NotOverdrawn
<1>31. ASSUME NEW p \in Threads, DestroySpare(p) PROVE NotOverdrawn'
  BY <1>31, <1>a DEF DestroySpare, groupVars, NotOverdrawn
<1>32. ASSUME NEW p \in Threads, DestroyNext(p) PROVE NotOverdrawn'
  BY <1>32, <1>a DEF DestroyNext, groupVars, NotOverdrawn
<1>33. ASSUME NEW p \in Threads, Discard(p) PROVE NotOverdrawn'
  BY <1>33, <1>a DEF Discard, groupVars, NotOverdrawn
<1>34. CASE UNCHANGED vars
  BY <1>34 DEF vars, groupVars, NotOverdrawn
<1>35. ASSUME NEW p \in Threads, Step(p) PROVE NotOverdrawn'
  BY <1>35, <1>3, <1>4, <1>5, <1>6, <1>7, <1>8, <1>9, <1>10, <1>11, <1>12, <1>13, <1>14, <1>15, <1>16, <1>17, <1>18, <1>19, <1>20, <1>21, <1>22, <1>23, <1>24, <1>25, <1>26, <1>27, <1>28, <1>29, <1>30, <1>31, <1>32 DEF Step
<1>36. ASSUME NEW t \in Tasks, Discard(Worker(t)) PROVE NotOverdrawn'
  BY <1>33, <1>36, ThreadsOf
<1> QED
  BY <1>1, <1>2, <1>34, <1>35, <1>36 DEF Next, Rest

-----------------------------------------------------------------------------
(* The theorems.                                                           *)

LEMMA ShapeInit == Init => Shape /\ NotOverdrawn
<1> SUFFICES ASSUME Init PROVE Shape /\ NotOverdrawn OBVIOUS
<1>1. ASSUME NEW p \in Threads
      PROVE  /\ \/ pc[p] = "start" /\ p[2] = "submit"
                \/ pc[p] = "wait" /\ p[2] = "run"
             /\ ret[p] = "done" /\ grp[p] = First(TaskGroups[p[1]])
             /\ p[1] \in Tasks
  <2>1. p[1] \in Tasks /\ p[2] \in {"submit", "run"}
    BY ThreadsOf
  <2>2. pc[p] = IF p[2] = "submit" THEN "start" ELSE "wait"
    BY DEF Init
  <2>3. ret[p] = "done" /\ grp[p] = First(TaskGroups[p[1]])
    BY DEF Init
  <2> QED BY <2>1, <2>2, <2>3
<1>2. \A p \in Threads : pc[p] \in {"start", "wait"}
  BY <1>1
<1>3. RolesOK
  <2> SUFFICES ASSUME NEW p \in Threads
               PROVE  /\ pc[p] \in SubmitLabels => p[2] = "submit"
                      /\ pc[p] = "wait" => p[2] = "run"
                      /\ ret[p] \notin {"ts_check", "publish", "dtor_next"}
                      /\ pc[p] \notin FastLabels /\ pc[p] \notin SlowLabels
    BY DEF RolesOK
  <2> QED BY <1>1 DEF SubmitLabels, FastLabels, SlowLabels
<1>4. GroupOK
  <2> SUFFICES ASSUME NEW p \in Threads PROVE grp[p] \in TaskGroups[p[1]]
    BY DEF GroupOK
  <2>1. grp[p] = First(TaskGroups[p[1]]) /\ p[1] \in Tasks
    BY <1>1
  <2> QED BY <2>1, FirstGroups
<1>5. ProgressOK
  <2>1. \A t \in Tasks : pc[Submitter(t)] \in {"start", "wait"} /\ pc[Worker(t)] \in {"start", "wait"}
    BY <1>2, ThreadsOf
  <2>2. \A t \in Tasks : state[t] = "new" /\ ~slot[t]
    BY DEF Init
  <2> QED BY <2>1, <2>2, Paths DEF ProgressOK, BeforeParking
<1>6. BucketsOK
  BY DEF BucketsOK, Init
<1>7. EntriesOK /\ PayOK /\ MutexOK /\ TakeOK /\ TokenThere
  BY <1>2 DEF EntriesOK, PayOK, MutexOK, TakeOK, TokenThere
<1>8. NotOverdrawn
  BY ConcurrencyAssumption DEF Init, NotOverdrawn
<1> QED BY <1>3, <1>4, <1>5, <1>6, <1>7, <1>8 DEF Shape

LEMMA AccountInit == Init => TokenAccounting
<1> SUFFICES ASSUME Init, NEW h \in Groups
             PROVE  tokens[h] = Concurrency[h] - Cardinality(Claiming(h)) - Cardinality(RunningLocks(h))
                       - Cardinality(Counted(h)) - Cardinality(LockedHandles(h)) + Cardinality(Owing(h))
  BY DEF TokenAccounting
<1>1. \A p \in Threads : pc[p] \in {"start", "wait"}
  BY DEF Init
<1>2. /\ Claiming(h) = {} /\ RunningLocks(h) = {} /\ Counted(h) = {}
      /\ LockedHandles(h) = {} /\ Owing(h) = {}
  BY <1>1, FiniteThreads DEF Init, Claiming, RunningLocks, Counted, LockedHandles, Owing
<1>3. Cardinality({}) = 0
  BY FS_EmptySet
<1> QED BY <1>2, <1>3, ConcurrencyAssumption DEF Init

\* The invariant, whole: the types, the shape of the threads' states and the
\* accounts.
Inv == TypeOK /\ Shape /\ NotOverdrawn /\ TokenAccounting

LEMMA Invariance == Spec => []Inv
<1>1. Init => Inv
  BY TypeInit, ShapeInit, AccountInit DEF Inv
<1>2. Inv /\ [Next]_vars => Inv'
  <2> SUFFICES ASSUME Inv, [Next]_vars PROVE Inv' OBVIOUS
  <2>1. TypeOK /\ Shape /\ NotOverdrawn /\ TokenAccounting BY DEF Inv
  <2>2. /\ RolesOK /\ GroupOK /\ ProgressOK /\ BucketsOK /\ EntriesOK /\ PayOK
        /\ MutexOK /\ TakeOK /\ TokenThere
    BY <2>1 DEF Shape
  <2>3. RolesOK' /\ GroupOK' /\ ProgressOK' /\ BucketsOK' /\ EntriesOK'
    BY <2>1, <2>2, RolesNext, GroupNext, ProgressNext, BucketsNext, EntriesNext
  <2>4. PayOK' /\ MutexOK' /\ TakeOK' /\ TokenThere' /\ NotOverdrawn'
    BY <2>1, <2>2, PayNext, MutexNext, TakeNext, TokenNext, NotOverdrawnNext
  <2>5. TypeOK' /\ TokenAccounting'
    BY <2>1, TypeNext, AccountNext
  <2> QED BY <2>3, <2>4, <2>5 DEF Inv, Shape
<1> QED BY <1>1, <1>2, PTL DEF Spec

\* Every decrement of a group's counter has exactly one owner, in every state
\* and for any groups, tasks and priorities: no release, drain, reservation
\* or claim of Group.cpp loses a token or returns one twice.
THEOREM Accounting == Spec => []TokenAccounting
<1>1. Inv => TokenAccounting BY DEF Inv
<1> QED BY <1>1, Invariance, PTL

\* A group that only multi-group tasks use never has more of its handles
\* locked than its concurrency, whatever the interleaving.
THEOREM MultiGroupExclusion == Spec => []MultiGroupBound
<1>1. Inv => MultiGroupBound
  <2> SUFFICES ASSUME Inv, NEW g \in Groups, MultiGroupOnly(g)
               PROVE  Cardinality(LockedHandles(g)) <= Concurrency[g]
    BY DEF MultiGroupBound, MultiGroupOnly
  <2>1. TypeOK /\ Shape /\ RolesOK /\ GroupOK /\ PayOK /\ tokens[g] >= 0 /\ TokenAccounting
    BY DEF Inv, Shape, NotOverdrawn
  <2>2. Claiming(g) = {}
    <3> SUFFICES ASSUME NEW p \in Claiming(g) PROVE FALSE OBVIOUS
    <3>1. p \in Threads /\ grp[p] = g /\ p[1] \in Fast
      BY DEF Claiming
    <3>2. g \in TaskGroups[p[1]]
      BY <2>1, <3>1 DEF GroupOK
    <3> QED BY <3>1, <3>2 DEF Fast, MultiGroupOnly
  <2>3. RunningLocks(g) = {} /\ Counted(g) = {}
    BY DEF RunningLocks, Counted, MultiGroupOnly
  <2>4. Owing(g) = {}
    BY <2>1 DEF Owing, PayOK, MultiGroupOnly
  <2>5. Cardinality({}) = 0 /\ Cardinality(LockedHandles(g)) \in Nat
    BY FS_EmptySet, FiniteParts, FS_CardinalityType
  <2>6. tokens[g] = Concurrency[g] - Cardinality(LockedHandles(g))
    <3>1. tokens[g] = Concurrency[g] - Cardinality(Claiming(g)) - Cardinality(RunningLocks(g))
                      - Cardinality(Counted(g)) - Cardinality(LockedHandles(g)) + Cardinality(Owing(g))
      BY <2>1 DEF TokenAccounting
    <3>2. /\ Cardinality(Claiming(g)) = 0 /\ Cardinality(RunningLocks(g)) = 0
          /\ Cardinality(Counted(g)) = 0 /\ Cardinality(Owing(g)) = 0
      BY <2>2, <2>3, <2>4, <2>5
    <3>3. Concurrency[g] \in Int
      BY ConcurrencyAssumption
    <3> QED BY <3>1, <3>2, <3>3, <2>5
  <2> QED BY <2>1, <2>5, <2>6, ConcurrencyAssumption DEF TypeOK
<1> QED BY <1>1, Invariance, PTL

-----------------------------------------------------------------------------
(* What the slow path registers.                                           *)

\* Where ~CombinedLock can be.
DtorLabels == {"dtor", "dtor_walk", "dtor_pending", "notify", "dtor_spare", "drain", "claim", "pay",
               "dtor_next"}
BothThreads(t) == {Submitter(t), Worker(t)}

\* A multi-group task is in the hands of one thread at a time, which agrees with
\* where the task is; a walk over its groups starts at the first.
HandleOK(t) ==
  LET s == Submitter(t)
      w == Worker(t) IN
  /\ pc[s] \in {"start", "slow_add", "slow_insert", "lock", "lock_take", "hand", "run", "done"}
                 \cup DtorLabels
  /\ pc[w] \in {"wait", "lock", "lock_take", "run", "done"} \cup DtorLabels
  /\ pc[s] # "done" => pc[w] = "wait"
  /\ pc[s] = "start" => state[t] = "new"
  /\ pc[s] \in {"slow_add", "slow_insert", "lock", "lock_take", "hand"} => state[t] = "submitting"
  /\ pc[s] = "done" /\ pc[w] \in {"lock", "lock_take"} => state[t] = "pooled"
  /\ pc[s] = "done" /\ pc[w] = "wait" => state[t] = "pooled" \/ Ended(t)
  /\ pc[s] = "run" \/ pc[w] = "run" => state[t] = "running"
  /\ pc[s] \in DtorLabels \/ pc[w] \in DtorLabels \cup {"done"} => Ended(t)
  /\ \A p \in BothThreads(t) :
       /\ pc[p] \in {"start", "wait", "hand", "run"} => grp[p] = First(TaskGroups[t])
       /\ pc[p] \in {"drain", "claim", "pay"} => ret[p] = "dtor_next"
HandlesOK == \A t \in Slow : HandleOK(t)

\* The walk of Group::lock has not come to g, the one of ~CombinedLock has gone
\* past the labels L of g.
Ahead(t, g) ==
  LET s == Submitter(t) IN
  pc[s] = "start" \/ (pc[s] \in {"slow_add", "slow_insert"} /\ g >= grp[s])
Past(t, g, L) ==
  /\ Ended(t)
  /\ \A p \in BothThreads(t) :
       pc[p] \in DtorLabels => g < grp[p] \/ (g = grp[p] /\ pc[p] \notin L)

Queued(t, g) ==
  g \in TaskGroups[t] /\ ~Ahead(t, g) /\ ~Past(t, g, {"dtor", "dtor_walk"})
Announced(t, g) ==
  /\ g \in TaskGroups[t]
  /\ ~Ahead(t, g) \/ (pc[Submitter(t)] = "slow_insert" /\ g = grp[Submitter(t)])
  /\ ~Past(t, g, {"dtor", "dtor_walk", "dtor_pending"})

\* The queue and slow_pending are what the walks have made of them, and a lock
\* is held between GroupLock::lock and ~GroupLock.
QueueOK == \A g \in Groups : queue[g] = {t \in Slow : Queued(t, g)}
PendingOK == \A g \in Groups : slow_pending[g] = Cardinality({t \in Slow : Announced(t, g)})
LocksOK ==
  \A t \in Tasks : \A g \in locked[t] :
    t \in Slow /\ g \in TaskGroups[t] /\ ~Past(t, g, {"dtor"})

HInv == HandlesOK /\ QueueOK /\ PendingOK /\ LocksOK

-----------------------------------------------------------------------------
(* The walks.                                                              *)

\* A walk takes the groups in their order and leaves none out.
LEMMA FirstLeast ==
  ASSUME NEW S, S \subseteq Nat, S # {}
  PROVE  First(S) \in S /\ \A x \in S : First(S) <= x
<1> DEFINE R == {ss \in Nat \X Nat : ss[1] < ss[2]}
<1>1. IsWellFoundedOn(R, Nat)
  BY NatLessThanWellFounded DEF OpToRel
<1>2. \E x \in S : \A y \in S : <<y, x>> \notin R
  <2> HIDE DEF R
  <2> QED BY <1>1, WFMin
<1>3. \A x, y \in Nat : y < x => <<y, x>> \in R
  OBVIOUS
<1>4. PICK x \in S : \A y \in S : ~(y < x)
  <2> HIDE DEF R
  <2> QED BY <1>2, <1>3
<1>5. \A y \in S : x <= y
  BY <1>4
<1> QED BY <1>5 DEF First

LEMMA Walk ==
  ASSUME NEW t \in Tasks, NEW g \in Groups
  PROVE  /\ TaskGroups[t] \subseteq Nat
         /\ First(TaskGroups[t]) \in TaskGroups[t]
         /\ \A h \in TaskGroups[t] : First(TaskGroups[t]) <= h
         /\ Later(t, g) = {} => \A h \in TaskGroups[t] : h <= g
         /\ Later(t, g) # {} =>
              /\ First(Later(t, g)) \in TaskGroups[t] /\ g < First(Later(t, g))
              /\ \A h \in TaskGroups[t] : h > g => First(Later(t, g)) <= h
<1>1. TaskGroups[t] \subseteq Nat /\ TaskGroups[t] # {} /\ g \in Nat
  BY TaskGroupsAssumption, GroupsAssumption
<1>2. First(TaskGroups[t]) \in TaskGroups[t] /\ \A h \in TaskGroups[t] : First(TaskGroups[t]) <= h
  BY <1>1, FirstLeast
<1>3. Later(t, g) \subseteq Nat /\ (Later(t, g) # {} => /\ First(Later(t, g)) \in Later(t, g)
                                                        /\ \A h \in Later(t, g) : First(Later(t, g)) <= h)
  BY <1>1, FirstLeast DEF Later
<1> QED BY <1>1, <1>2, <1>3 DEF Later

-----------------------------------------------------------------------------
(* What a step touches.                                                    *)

\* A step of the thread p, of whatever kind.
Moving(p) == Step(p) \/ Discard(p) \/ (p = Submitter(p[1]) /\ Submit(p[1]))

LEMMA WaitersAreFast ==
  ASSUME TypeOK, Shape, NEW g \in Groups, NEW b \in Buckets, wait_buckets[g][b] # <<>>
  PROVE  Head(wait_buckets[g][b]) \in Fast
<1>1. wait_buckets[g][b] \in Seq(Tasks)
  BY BucketType
<1>2. 1 \in 1 .. Len(wait_buckets[g][b]) /\ Head(wait_buckets[g][b]) = wait_buckets[g][b][1]
  BY <1>1
<1> QED BY <1>2 DEF Shape, BucketsOK, WaitsIn

LEMMA Frame ==
  ASSUME TypeOK, Shape, NEW p \in Threads, Moving(p)
  PROVE  /\ \A q \in Threads : q # p => pc'[q] = pc[q] /\ grp'[q] = grp[q] /\ ret'[q] = ret[q]
         /\ \A u \in Slow : u # p[1] => state'[u] = state[u]
         /\ \A u \in Tasks : u # p[1] => locked'[u] = locked[u]
         /\ p[1] \in Fast => UNCHANGED <<queue, slow_pending, locked>>
<1>a. /\ pc \in [Threads -> Labels] /\ grp \in [Threads -> Groups]
      /\ ret \in [Threads -> {"done", "ts_check", "publish", "dtor_next"}]
      /\ state \in [Tasks -> States] /\ locked \in [Tasks -> SUBSET Groups]
      /\ p[1] \in Tasks /\ Slow \subseteq Tasks
  BY TaskOf DEF TypeOK, Slow
<1>b. pc[p] \in SlowLabels => p[1] \notin Fast
  BY DEF Shape, RolesOK, Slow
<1> USE <1>a, <1>b DEF Goto, Call, Return, groupVars, handleVars, poolVars, localVars
<1>1. CASE TryAcquireCheck(p) BY <1>1 DEF TryAcquireCheck
<1>2. CASE TryAcquireTake(p) BY <1>2 DEF TryAcquireTake
<1>3. CASE TryAcquireRecheck(p) BY <1>3 DEF TryAcquireRecheck
<1>4. CASE TrySubmitCheck(p) BY <1>4 DEF TrySubmitCheck
<1>5. CASE TrySubmitTake(p) BY <1>5 DEF TrySubmitTake
<1>6. CASE TrySubmitRecheck(p) BY <1>6 DEF TrySubmitRecheck
<1>7. CASE HandToPool(p) BY <1>7 DEF HandToPool
<1>8. CASE ParkPublish(p) BY <1>8 DEF ParkPublish
<1>9. CASE ReconcileReserve(p) BY <1>9 DEF ReconcileReserve
<1>10. CASE ReconcileYield(p) BY <1>10 DEF ReconcileYield
<1>11. CASE ReconcileClaim(p) BY <1>11 DEF ReconcileClaim
<1>12. CASE ReleaseAdd(p) BY <1>12 DEF ReleaseAdd
<1>13. CASE ReleaseChoose(p) BY <1>13 DEF ReleaseChoose
<1>14. CASE NotifySlowPath(p) BY <1>14 DEF NotifySlowPath
<1>15. CASE DrainScan(p)
  <2>1. PICK h \in Groups, b \in Buckets : h = grp[p] /\ b = scan[p]
    BY DEF TypeOK
  <2>2. wait_buckets[h][b] # <<>> => Head(wait_buckets[h][b]) \in Fast
    BY WaitersAreFast
  <2>3. state' = state \/ \E u \in Fast : state' = [state EXCEPT ![u] = "drained"]
    BY <1>15, <2>1, <2>2 DEF DrainScan
  <2>4. \A u \in Slow : state'[u] = state[u]
    BY <2>3 DEF Slow
  <2> QED BY <1>15, <2>4 DEF DrainScan
<1>16. CASE DrainClaim(p)
  <2>1. \A u \in Slow : state'[u] = state[u]
    BY <1>16 DEF DrainClaim, Shape, EntriesOK, Slow
  <2> QED BY <1>16, <2>1 DEF DrainClaim
<1>17. CASE DrainPay(p) BY <1>17 DEF DrainPay
<1>18. CASE LockAnnounce(p) BY <1>18 DEF LockAnnounce, SlowLabels
<1>19. CASE LockInsert(p) BY <1>19 DEF LockInsert, SlowLabels
<1>20. CASE WorkerDequeue(p) BY <1>20 DEF WorkerDequeue
<1>21. CASE GroupLockTry(p) BY <1>21 DEF GroupLockTry, LockNext
<1>22. CASE GroupLockTake(p) BY <1>22 DEF GroupLockTake, LockNext, SlowLabels
<1>23. CASE Finish(p) BY <1>23 DEF Finish
<1>24. CASE DestroyUnlock(p) BY <1>24 DEF DestroyUnlock, SlowLabels
<1>25. CASE DestroyWalk(p) BY <1>25 DEF DestroyWalk, SlowLabels
<1>26. CASE DestroyPending(p) BY <1>26 DEF DestroyPending, SlowLabels
<1>27. CASE Notify(p) BY <1>27 DEF Notify
<1>28. CASE NotifyDone(p) BY <1>28 DEF NotifyDone
<1>29. CASE DestroySpare(p) BY <1>29 DEF DestroySpare
<1>30. CASE DestroyNext(p) BY <1>30 DEF DestroyNext
<1>31. CASE Discard(p) BY <1>31 DEF Discard
<1>32. CASE p = Submitter(p[1]) /\ Submit(p[1]) BY <1>32 DEF Submit
<1>33. CASE Step(p)
  BY <1>33, <1>1, <1>2, <1>3, <1>4, <1>5, <1>6, <1>7, <1>8, <1>9, <1>10, <1>11, <1>12, <1>13, <1>14, <1>15, <1>16, <1>17, <1>18, <1>19, <1>20, <1>21, <1>22, <1>23, <1>24, <1>25, <1>26, <1>27, <1>28, <1>29, <1>30 DEF Step
<1> QED BY <1>31, <1>32, <1>33 DEF Moving

\* What the thread p of a multi-group task does: it goes to l, at group h, and its task
\* becomes x.  A walk of Group::lock, ...
Entering(p, l, h, x) ==
  /\ pc[p] = "start" /\ l = "slow_add" /\ h = grp[p] /\ x = "submitting"
  /\ UNCHANGED <<queue, slow_pending, locked>>
Announcing(p, l, h, x) ==
  /\ pc[p] = "slow_add" /\ l = "slow_insert" /\ h = grp[p] /\ x = state[p[1]]
  /\ slow_pending' = [slow_pending EXCEPT ![grp[p]] = @ + 1]
  /\ UNCHANGED <<queue, locked>>
Inserting(p, l, h, x) ==
  /\ pc[p] = "slow_insert" /\ x = state[p[1]]
  /\ \/ Later(p[1], grp[p]) # {} /\ l = "slow_add" /\ h = First(Later(p[1], grp[p]))
     \/ Later(p[1], grp[p]) = {} /\ l \in {"lock", "hand"} /\ h = First(TaskGroups[p[1]])
  /\ queue' = [queue EXCEPT ![grp[p]] = @ \cup {p[1]}]
  /\ UNCHANGED <<slow_pending, locked>>
\* ... the life of the task, in which its handles take their locks, ...
Living(p, l, h, x) ==
  /\ \/ pc[p] = "hand" /\ l = "done" /\ x = "pooled"
     \/ pc[p] = "wait" /\ l = "lock" /\ state[p[1]] = "pooled" /\ x = "pooled"
     \/ pc[p] \in {"lock", "lock_take"} /\ l = "run" /\ x = "running" /\ h = First(TaskGroups[p[1]])
     \/ pc[p] \in {"lock", "lock_take"} /\ l \in {"lock", "lock_take"} /\ x = state[p[1]]
     \/ /\ pc[p] = "lock" /\ x = state[p[1]] /\ h = First(TaskGroups[p[1]])
        /\ l = IF p = Worker(p[1]) THEN "wait" ELSE "hand"
  /\ h \in TaskGroups[p[1]]
  /\ locked' = locked \/ locked' = [locked EXCEPT ![p[1]] = @ \cup {grp[p]}]
  /\ UNCHANGED <<queue, slow_pending>>
\* ... its end, ...
Ending(p, l, h, x) ==
  /\ pc[p] \in {"hand", "run", "wait"} /\ (pc[p] = "wait" => state[p[1]] = "pooled")
  /\ l = "dtor" /\ h = First(TaskGroups[p[1]])
  /\ x \in {"finished", "rejected", "discarded"}
  /\ UNCHANGED <<queue, slow_pending, locked>>
\* ... and the walk of ~CombinedLock.
Unlocking(p, l, h, x) ==
  /\ pc[p] = "dtor" /\ l = "dtor_walk" /\ h = grp[p] /\ x = state[p[1]]
  /\ locked' = [locked EXCEPT ![p[1]] = @ \ {grp[p]}]
  /\ UNCHANGED <<queue, slow_pending>>
Leaving(p, l, h, x) ==
  /\ pc[p] = "dtor_walk" /\ l = "dtor_pending" /\ h = grp[p] /\ x = state[p[1]]
  /\ queue' = [queue EXCEPT ![grp[p]] = @ \ {p[1]}]
  /\ UNCHANGED <<slow_pending, locked>>
Retracting(p, l, h, x) ==
  /\ pc[p] = "dtor_pending" /\ l = "notify" /\ h = grp[p] /\ x = state[p[1]]
  /\ slow_pending' = [slow_pending EXCEPT ![grp[p]] = @ - 1]
  /\ UNCHANGED <<queue, locked>>
Passing(p, l, h, x) ==
  /\ pc[p] \in {"notify", "dtor_spare", "drain", "claim", "pay"} /\ h = grp[p] /\ x = state[p[1]]
  /\ l \in {"notify", "dtor_spare", "drain", "claim", "pay", "dtor_next"}
  /\ l \in {"drain", "claim", "pay"} => ret'[p] = "dtor_next"
  /\ UNCHANGED <<queue, slow_pending, locked>>
Turning(p, l, h, x) ==
  /\ pc[p] = "dtor_next" /\ x = state[p[1]]
  /\ \/ Later(p[1], grp[p]) # {} /\ l = "dtor" /\ h = First(Later(p[1], grp[p]))
     \/ Later(p[1], grp[p]) = {} /\ l = "done" /\ h = First(TaskGroups[p[1]])
  /\ UNCHANGED <<queue, slow_pending, locked>>

Move(p, l, h, x) ==
  \/ Entering(p, l, h, x) \/ Announcing(p, l, h, x) \/ Inserting(p, l, h, x) \/ Living(p, l, h, x)
  \/ Ending(p, l, h, x) \/ Unlocking(p, l, h, x) \/ Leaving(p, l, h, x) \/ Retracting(p, l, h, x)
  \/ Passing(p, l, h, x) \/ Turning(p, l, h, x)

LEMMA SlowMoves ==
  ASSUME TypeOK, Shape, HandlesOK, NEW p \in Threads, p[1] \in Slow, Moving(p)
  PROVE  Move(p, pc'[p], grp'[p], state'[p[1]])
<1>a. /\ pc \in [Threads -> Labels] /\ grp \in [Threads -> Groups]
      /\ ret \in [Threads -> {"done", "ts_check", "publish", "dtor_next"}]
      /\ state \in [Tasks -> States] /\ locked \in [Tasks -> SUBSET Groups]
      /\ queue \in [Groups -> SUBSET Tasks] /\ slow_pending \in [Groups -> Int]
      /\ p[1] \in Tasks /\ p[1] \notin Fast
  BY TaskOf DEF TypeOK, Slow
<1>b. /\ pc[p] \notin FastLabels /\ grp[p] \in TaskGroups[p[1]]
      /\ pc[p] \in {"drain", "claim", "pay"} => ret[p] = "dtor_next"
      /\ pc[p] \in {"hand", "run", "wait"} => grp[p] = First(TaskGroups[p[1]])
  BY ThreadForms DEF Shape, RolesOK, GroupOK, Slow, HandlesOK, HandleOK, BothThreads
<1>c. First(TaskGroups[p[1]]) \in TaskGroups[p[1]]
  BY <1>a, FirstGroups
<1>d. Later(p[1], grp[p]) # {} => First(Later(p[1], grp[p])) \in TaskGroups[p[1]]
  BY <1>a, <1>b, FirstGroups
<1> USE <1>a, <1>b, <1>c, <1>d DEF Goto, Call, Return, groupVars, handleVars, poolVars, localVars, Move
<1>1. ~(TryAcquireCheck(p) \/ TryAcquireTake(p) \/ TryAcquireRecheck(p) \/ TrySubmitCheck(p) \/ TrySubmitTake(p) \/ TrySubmitRecheck(p) \/ ParkPublish(p)
        \/ ReconcileReserve(p) \/ ReconcileYield(p) \/ ReconcileClaim(p) \/ ReleaseAdd(p) \/ ReleaseChoose(p) \/ NotifySlowPath(p))
  BY DEF TryAcquireCheck, TryAcquireTake, TryAcquireRecheck, TrySubmitCheck, TrySubmitTake, TrySubmitRecheck, ParkPublish,
         ReconcileReserve, ReconcileYield, ReconcileClaim, ReleaseAdd, ReleaseChoose, NotifySlowPath, FastLabels
<1>2. CASE HandToPool(p) BY <1>2 DEF HandToPool, Living, Ending
<1>3. CASE DrainScan(p)
  <2>1. state'[p[1]] = state[p[1]]
    <3>1. PICK h \in Groups, b \in Buckets : h = grp[p] /\ b = scan[p]
      BY DEF TypeOK
    <3>2. wait_buckets[h][b] # <<>> => Head(wait_buckets[h][b]) \in Fast
      BY WaitersAreFast
    <3> QED BY <1>3, <3>1, <3>2 DEF DrainScan
  <2> QED BY <1>3, <2>1 DEF DrainScan, Passing
<1>4. CASE DrainClaim(p)
  <2>1. state'[p[1]] = state[p[1]]
    <3> QED BY <1>4 DEF DrainClaim, Shape, EntriesOK
  <2> QED BY <1>4, <2>1 DEF DrainClaim, Passing
<1>5. CASE DrainPay(p) BY <1>5 DEF DrainPay, Passing
<1>6. CASE LockAnnounce(p) BY <1>6 DEF LockAnnounce, Announcing
<1>7. CASE LockInsert(p) BY <1>7 DEF LockInsert, Inserting
<1>8. CASE WorkerDequeue(p) BY <1>8 DEF WorkerDequeue, Living
<1>9. CASE GroupLockTry(p) BY <1>9 DEF GroupLockTry, LockNext, Living
<1>10. CASE GroupLockTake(p) BY <1>10 DEF GroupLockTake, LockNext, Living
<1>11. CASE Finish(p) BY <1>11 DEF Finish, Ending
<1>12. CASE DestroyUnlock(p) BY <1>12 DEF DestroyUnlock, Unlocking
<1>13. CASE DestroyWalk(p) BY <1>13 DEF DestroyWalk, Leaving
<1>14. CASE DestroyPending(p) BY <1>14 DEF DestroyPending, Retracting
<1>15. CASE Notify(p) BY <1>15 DEF Notify, Passing
<1>16. CASE NotifyDone(p) BY <1>16 DEF NotifyDone, Passing
<1>17. CASE DestroySpare(p) BY <1>17 DEF DestroySpare, Passing
<1>18. CASE DestroyNext(p) BY <1>18 DEF DestroyNext, Turning
<1>19. CASE Discard(p) BY <1>19 DEF Discard, Ending
<1>20. CASE p = Submitter(p[1]) /\ Submit(p[1]) BY <1>20 DEF Submit, Entering
<1>21. CASE Step(p)
  BY <1>21, <1>1, <1>2, <1>3, <1>4, <1>5, <1>6, <1>7, <1>8, <1>9, <1>10, <1>11, <1>12, <1>13, <1>14, <1>15, <1>16, <1>17, <1>18 DEF Step
<1> QED BY <1>19, <1>20, <1>21 DEF Moving

LEMMA HandlesStep ==
  ASSUME TypeOK, Shape, HandlesOK, NEW p \in Threads, Moving(p), NEW t \in Slow
  PROVE  HandleOK(t)'
<1>a. /\ pc \in [Threads -> Labels] /\ grp \in [Threads -> Groups] /\ state \in [Tasks -> States]
      /\ t \in Tasks /\ HandleOK(t)
  BY DEF TypeOK, Slow, HandlesOK
<1>b. PICK s \in Threads, w \in Threads :
        s = Submitter(t) /\ w = Worker(t) /\ s # w /\ BothThreads(t) = {s, w}
  BY <1>a, ThreadsOf, ThreadForms DEF BothThreads
<1>c. \A q \in Threads : q # p => pc'[q] = pc[q] /\ grp'[q] = grp[q] /\ ret'[q] = ret[q]
  BY Frame
<1>d. BothThreads(t)' = {s, w} /\ s = Submitter(t)' /\ w = Worker(t)'
  BY <1>b DEF BothThreads, Submitter, Worker
<1>1. CASE p[1] # t
  <2>1. s # p /\ w # p /\ state'[t] = state[t]
    BY <1>a, <1>b, <1>1, ThreadForms, Frame
  <2> QED BY <1>a, <1>b, <1>c, <1>d, <2>1 DEF HandleOK, Ended
<1>2. CASE p[1] = t
  <2>1. PICK l, h, x : l = pc'[p] /\ h = grp'[p] /\ x = state'[t] /\ Move(p, l, h, x)
    BY <1>2, SlowMoves
  <2>2. p = s \/ p = w
    BY <1>b, <1>2, ThreadForms
  <2>3. /\ p = s => pc'[w] = pc[w] /\ grp'[w] = grp[w] /\ ret'[w] = ret[w]
        /\ p = w => pc'[s] = pc[s] /\ grp'[s] = grp[s] /\ ret'[s] = ret[s]
    BY <1>b, <1>c
  <2>14. /\ pc'[s] = IF p = s THEN l ELSE pc[s]
         /\ pc'[w] = IF p = w THEN l ELSE pc[w]
         /\ grp'[s] = IF p = s THEN h ELSE grp[s]
         /\ grp'[w] = IF p = w THEN h ELSE grp[w]
         /\ state'[t] = x
    BY <2>1, <2>3, <1>b, <2>2
  <2> USE <1>a, <1>b, <1>d, <1>2, <2>2, <2>3, <2>14 DEF HandleOK, Ended, DtorLabels
  <2>4. CASE Entering(p, l, h, x) BY <2>4 DEF Entering
  <2>5. CASE Announcing(p, l, h, x) BY <2>5 DEF Announcing
  <2>6. CASE Inserting(p, l, h, x) BY <2>6 DEF Inserting
  <2>7. CASE Living(p, l, h, x) BY <2>7 DEF Living
  <2>8. CASE Ending(p, l, h, x) BY <2>8 DEF Ending
  <2>9. CASE Unlocking(p, l, h, x) BY <2>9 DEF Unlocking
  <2>10. CASE Leaving(p, l, h, x) BY <2>10 DEF Leaving
  <2>11. CASE Retracting(p, l, h, x) BY <2>11 DEF Retracting
  <2>12. CASE Passing(p, l, h, x) BY <2>12 DEF Passing
  <2>13. CASE Turning(p, l, h, x) BY <2>13 DEF Turning
  <2> QED BY <2>1, <2>4, <2>5, <2>6, <2>7, <2>8, <2>9, <2>10, <2>11, <2>12, <2>13 DEF Move
<1> QED BY <1>1, <1>2

-----------------------------------------------------------------------------
(* The registrations.                                                      *)

\* Other tasks' walks are where they were.
LEMMA OthersStay ==
  ASSUME TypeOK, Shape, NEW p \in Threads, Moving(p), NEW t \in Slow, t # p[1]
  PROVE  /\ \A g \in Groups : Queued(t, g)' = Queued(t, g) /\ Announced(t, g)' = Announced(t, g)
         /\ \A g \in Groups : Past(t, g, {"dtor"})' = Past(t, g, {"dtor"})
<1>1. /\ state'[t] = state[t]
      /\ \A q \in Threads : q # p => pc'[q] = pc[q] /\ grp'[q] = grp[q]
  BY Frame
<1>2. PICK s \in Threads, w \in Threads : s = Submitter(t) /\ w = Worker(t)
  BY ThreadsOf DEF Slow
<1>3. s # p /\ w # p
  BY <1>2, ThreadForms DEF Slow
<1>4. pc'[s] = pc[s] /\ grp'[s] = grp[s] /\ pc'[w] = pc[w] /\ grp'[w] = grp[w]
  BY <1>1, <1>3
<1>5. BothThreads(t) = {s, w}
  BY <1>2 DEF BothThreads
<1>6. ASSUME NEW g, NEW L PROVE Ahead(t, g)' = Ahead(t, g) /\ Past(t, g, L)' = Past(t, g, L)
  BY <1>1, <1>2, <1>4, <1>5 DEF Ahead, Past, Ended
<1> QED BY <1>2, <1>4, <1>6 DEF Queued, Announced

\* A walk registers, and takes back, at the group it is at.
LEMMA WalkStep ==
  ASSUME TypeOK, Shape, HandlesOK, QueueOK, LocksOK, NEW p \in Threads, Moving(p), p[1] \in Slow,
         NEW g \in Groups
  PROVE  /\ p[1] \in queue'[g] <=> Queued(p[1], g)'
         /\ slow_pending'[g] = slow_pending[g] + (IF Announced(p[1], g)' THEN 1 ELSE 0)
                                               - (IF Announced(p[1], g) THEN 1 ELSE 0)
         /\ g \in locked'[p[1]] => g \in TaskGroups[p[1]] /\ ~Past(p[1], g, {"dtor"})'
<1>1. PICK t \in Slow, k \in Groups : t = p[1] /\ k = grp[p]
  BY DEF TypeOK
<1>2. PICK s \in Threads, w \in Threads :
        s = Submitter(t) /\ w = Worker(t) /\ s # w /\ BothThreads(t) = {s, w}
  BY ThreadsOf, ThreadForms DEF BothThreads, Slow
<1>3. /\ t \in Tasks /\ HandleOK(t) /\ k \in TaskGroups[t] /\ g \in Nat /\ k \in Nat
      /\ p = s \/ p = w
  BY <1>1, <1>2, ThreadForms, GroupsAssumption DEF HandlesOK, Shape, GroupOK, Slow
<1>4. PICK l, h, x : l = pc'[p] /\ h = grp'[p] /\ x = state'[t] /\ Move(p, l, h, x)
  BY <1>1, SlowMoves
<1>5. /\ pc'[s] = IF p = s THEN l ELSE pc[s]
      /\ pc'[w] = IF p = w THEN l ELSE pc[w]
      /\ grp'[s] = IF p = s THEN h ELSE grp[s]
      /\ grp'[w] = IF p = w THEN h ELSE grp[w]
      /\ state'[t] = x
  BY <1>2, <1>3, <1>4, Frame
<1>6. /\ TaskGroups[t] \subseteq Nat
      /\ First(TaskGroups[t]) \in TaskGroups[t]
      /\ \A n \in TaskGroups[t] : First(TaskGroups[t]) <= n
      /\ Later(t, k) = {} => \A n \in TaskGroups[t] : n <= k
      /\ Later(t, k) # {} =>
           /\ First(Later(t, k)) \in TaskGroups[t] /\ k < First(Later(t, k))
           /\ \A n \in TaskGroups[t] : n > k => First(Later(t, k)) <= n
  BY <1>3, Walk
<1>7. /\ t \in queue[g] <=> Queued(t, g)
      /\ g \in locked[t] => g \in TaskGroups[t] /\ ~Past(t, g, {"dtor"})
      /\ locked \in [Tasks -> SUBSET Groups] /\ queue \in [Groups -> SUBSET Tasks]
      /\ slow_pending \in [Groups -> Int]
  BY <1>3 DEF QueueOK, LocksOK, TypeOK
<1> USE <1>1, <1>2, <1>3, <1>5, <1>6, <1>7
        DEF HandleOK, Ended, DtorLabels, Queued, Announced, Past, Ahead
<1>8. CASE Entering(p, l, h, x) BY <1>8 DEF Entering
<1>9. CASE Announcing(p, l, h, x) BY <1>9 DEF Announcing
<1>10. CASE Inserting(p, l, h, x) BY <1>10 DEF Inserting
<1>11. CASE Living(p, l, h, x) BY <1>11 DEF Living
<1>12. CASE Ending(p, l, h, x) BY <1>12 DEF Ending
<1>13. CASE Unlocking(p, l, h, x) BY <1>13 DEF Unlocking
<1>14. CASE Leaving(p, l, h, x) BY <1>14 DEF Leaving
<1>15. CASE Retracting(p, l, h, x) BY <1>15 DEF Retracting
<1>16. CASE Passing(p, l, h, x) BY <1>16 DEF Passing
<1>17. CASE Turning(p, l, h, x) BY <1>17 DEF Turning
<1> QED BY <1>4, <1>8, <1>9, <1>10, <1>11, <1>12, <1>13, <1>14, <1>15, <1>16, <1>17 DEF Move

\* Only its own task's handle comes into a queue or leaves it.
LEMMA SlowQueue ==
  ASSUME TypeOK, Shape, HandlesOK, NEW p \in Threads, Moving(p), NEW g \in Groups
  PROVE  \A t : t # p[1] => (t \in queue'[g] <=> t \in queue[g])
<1>1. CASE p[1] \in Fast
  BY <1>1, Frame
<1>2. CASE p[1] \in Slow
  <2>1. Move(p, pc'[p], grp'[p], state'[p[1]])
    BY <1>2, SlowMoves
  <2>2. \/ queue' = queue
        \/ queue' = [queue EXCEPT ![grp[p]] = queue[grp[p]] \cup {p[1]}]
        \/ queue' = [queue EXCEPT ![grp[p]] = queue[grp[p]] \ {p[1]}]
    BY <2>1 DEF Move, Entering, Announcing, Inserting, Living, Ending, Unlocking, Leaving,
                Retracting, Passing, Turning
  <2>3. queue \in [Groups -> SUBSET Tasks] /\ grp[p] \in Groups
    BY DEF TypeOK
  <2> QED BY <2>2, <2>3
<1> QED BY <1>1, <1>2, TaskOf DEF Slow

LEMMA HandlesNext == TypeOK /\ Shape /\ HInv /\ [Next]_vars => HInv'
<1> SUFFICES ASSUME TypeOK, Shape, HInv, [Next]_vars PROVE HInv'
  OBVIOUS
<1>0. HandlesOK /\ QueueOK /\ PendingOK /\ LocksOK /\ locked \in [Tasks -> SUBSET Groups]
      /\ queue \in [Groups -> SUBSET Tasks] /\ slow_pending \in [Groups -> Int]
  BY DEF HInv, TypeOK
<1>1. ASSUME NEW p \in Threads, Moving(p) PROVE HInv'
  <2>1. HandlesOK'
    <3>1. \A t \in Slow : HandleOK(t)'
      BY <1>0, <1>1, HandlesStep
    <3> QED BY <3>1 DEF HandlesOK
  <2>2. p[1] \in Tasks /\ (p[1] \in Fast \/ p[1] \in Slow) /\ Fast \cap Slow = {}
        /\ Slow \subseteq Tasks /\ IsFiniteSet(Tasks)
    BY TaskOf, FiniteThreads DEF Slow
  <2>3. \A u \in Tasks : u # p[1] => locked'[u] = locked[u]
    BY <1>1, Frame
  <2>4. p[1] \in Fast => UNCHANGED <<queue, slow_pending, locked>>
    BY <1>1, Frame
  <2>5. \A t \in Slow : t # p[1] => \A g \in Groups :
          /\ Queued(t, g)' = Queued(t, g) /\ Announced(t, g)' = Announced(t, g)
          /\ Past(t, g, {"dtor"})' = Past(t, g, {"dtor"})
    BY <1>1, OthersStay
  <2>6. p[1] \in Slow => \A g \in Groups :
          /\ p[1] \in queue'[g] <=> Queued(p[1], g)'
          /\ slow_pending'[g] = slow_pending[g] + (IF Announced(p[1], g)' THEN 1 ELSE 0)
                                                - (IF Announced(p[1], g) THEN 1 ELSE 0)
          /\ g \in locked'[p[1]] => g \in TaskGroups[p[1]] /\ ~Past(p[1], g, {"dtor"})'
    BY <1>0, <1>1, WalkStep
  <2>7. QueueOK'
    <3> SUFFICES ASSUME NEW g \in Groups PROVE queue'[g] = {t \in Slow : Queued(t, g)'}
      BY DEF QueueOK
    <3>1. \A t \in Slow : t # p[1] => (t \in queue'[g] <=> t \in queue[g])
      BY <1>0, <1>1, SlowQueue
    <3>2. queue'[g] \subseteq Slow
      <4>1. \A t \in queue'[g] : t # p[1] => t \in Slow
        BY <1>0, <1>1, SlowQueue DEF QueueOK
      <4>2. p[1] \in Fast => queue'[g] \subseteq Slow
        BY <1>0, <2>4 DEF QueueOK
      <4> QED BY <2>2, <4>1, <4>2
    <3>3. \A t \in Slow : t # p[1] => (t \in queue'[g] <=> Queued(t, g)')
      BY <1>0, <2>5, <3>1 DEF QueueOK
    <3> QED BY <2>6, <3>2, <3>3
  <2>8. PendingOK'
    <3> SUFFICES ASSUME NEW g \in Groups
                 PROVE  slow_pending'[g] = Cardinality({t \in Slow : Announced(t, g)'})
      BY DEF PendingOK
    <3>1. PICK A, A2 : A = {t \in Slow : Announced(t, g)} /\ A2 = {t \in Slow : Announced(t, g)'}
      OBVIOUS
    <3>2. IsFiniteSet(A) /\ slow_pending[g] = Cardinality(A)
      <4>1. IsFiniteSet(A)
        BY <2>2, <3>1, FS_Subset
      <4> QED BY <1>0, <3>1, <4>1 DEF PendingOK
    <3>3. \A y : y # p[1] => (y \in A <=> y \in A2)
      BY <2>5, <3>1
    <3>4. Cardinality(A2) = Cardinality(A) + In(p[1], A2) - In(p[1], A) /\ Cardinality(A) \in Nat
      BY <3>2, <3>3, OneChange
    <3>5. CASE p[1] \in Fast
      <4>1. p[1] \notin A /\ p[1] \notin A2
        BY <2>2, <3>1, <3>5
      <4> QED BY <2>4, <3>1, <3>2, <3>4, <3>5, <4>1 DEF In
    <3>6. CASE p[1] \in Slow
      <4>1. /\ In(p[1], A2) = (IF Announced(p[1], g)' THEN 1 ELSE 0)
            /\ In(p[1], A) = (IF Announced(p[1], g) THEN 1 ELSE 0)
        BY <3>1, <3>6 DEF In
      <4>2. slow_pending'[g] = slow_pending[g] + In(p[1], A2) - In(p[1], A)
        BY <2>6, <3>6, <4>1
      <4> QED BY <3>1, <3>2, <3>4, <4>2
    <3> QED BY <2>2, <3>5, <3>6
  <2>9. LocksOK'
    <3> SUFFICES ASSUME NEW t \in Tasks, NEW g \in locked'[t]
                 PROVE  t \in Slow /\ g \in TaskGroups[t] /\ ~Past(t, g, {"dtor"})'
      BY DEF LocksOK
    <3>1. \A u \in Tasks : locked[u] \subseteq Groups
      BY <1>0
    <3>2. CASE t # p[1] \/ p[1] \in Fast
      <4>1. g \in locked[t]
        BY <2>2, <2>3, <2>4, <3>2
      <4>2. t \in Slow /\ t # p[1]
        BY <1>0, <2>2, <3>2, <4>1 DEF LocksOK
      <4> QED BY <1>0, <2>5, <3>1, <4>1, <4>2 DEF LocksOK
    <3>3. CASE t = p[1] /\ p[1] \in Slow
      <4>1. g \in Groups
        BY <1>1, TypeNext DEF TypeOK
      <4> QED BY <2>6, <3>3, <4>1
    <3> QED BY <2>2, <3>2, <3>3
  <2> QED BY <2>1, <2>7, <2>8, <2>9 DEF HInv
<1>2. CASE UNCHANGED <<groupVars, handleVars, state, pc, localVars>>
  BY <1>0, <1>2 DEF groupVars, handleVars, localVars, HInv, HandlesOK, HandleOK, QueueOK, PendingOK,
     LocksOK, Queued, Announced, Past, Ahead, Ended
<1>3. ASSUME NEW t \in Tasks, Submit(t) PROVE \E p \in Threads : Moving(p)
  <2>1. Submitter(t) \in Threads /\ Submitter(t)[1] = t
    BY ThreadsOf, ThreadForms
  <2> QED BY <1>3, <2>1 DEF Moving
<1>4. ASSUME NEW t \in Tasks, Discard(Worker(t)) PROVE \E p \in Threads : Moving(p)
  BY <1>4, ThreadsOf DEF Moving
<1>5. ASSUME NEW t \in Tasks, StopPool(t) PROVE HInv'
  BY <1>2, <1>5 DEF StopPool
<1>6. CASE UNCHANGED vars
  BY <1>2, <1>6 DEF vars, poolVars
<1> QED BY <1>1, <1>3, <1>4, <1>5, <1>6 DEF Next, Rest, Moving

LEMMA HandlesInit == Init => HInv
<1> SUFFICES ASSUME Init PROVE HInv
  OBVIOUS
<1>1. ASSUME NEW t \in Tasks
      PROVE  /\ pc[Submitter(t)] = "start" /\ pc[Worker(t)] = "wait" /\ state[t] = "new"
             /\ locked[t] = {}
             /\ grp[Submitter(t)] = First(TaskGroups[t]) /\ grp[Worker(t)] = First(TaskGroups[t])
  <2>1. /\ Submitter(t) \in Threads /\ Submitter(t)[1] = t /\ Submitter(t)[2] = "submit"
        /\ Worker(t) \in Threads /\ Worker(t)[1] = t /\ Worker(t)[2] = "run"
    BY ThreadsOf DEF Submitter, Worker
  <2> QED BY <2>1 DEF Init
<1>2. Slow \subseteq Tasks
  BY DEF Slow
<1>3. HandlesOK
  BY <1>1, <1>2 DEF HandlesOK, HandleOK, BothThreads, DtorLabels
<1>4. \A t \in Slow : \A g \in Groups : ~Queued(t, g) /\ ~Announced(t, g)
  BY <1>1, <1>2 DEF Queued, Announced, Ahead
<1>5. \A g \in Groups : queue[g] = {} /\ slow_pending[g] = 0
  BY DEF Init
<1>6. Cardinality({}) = 0
  BY FS_EmptySet
<1>7. \A g \in Groups : {t \in Slow : Queued(t, g)} = {} /\ {t \in Slow : Announced(t, g)} = {}
  BY <1>4
<1>8. QueueOK /\ PendingOK
  BY <1>5, <1>6, <1>7 DEF QueueOK, PendingOK
<1>9. LocksOK
  BY <1>1 DEF LocksOK
<1> QED BY <1>3, <1>8, <1>9 DEF HInv

LEMMA HandlesInvariance == Spec => []HInv
<1>1. Inv /\ HInv /\ [Next]_vars => HInv'
  BY HandlesNext DEF Inv
<1> QED BY <1>1, HandlesInit, Invariance, PTL DEF Spec

\* A multi-group task is announced in slow_pending for as long as it has a handle
\* in the queue, whatever its two threads and the others do in between, so that a
\* single-group submit that reads zero overtakes no handle; and when the tasks
\* have ended, the counters, the queues and the wait buckets are as they were.
THEOREM SlowPathTidyHolds == Spec => []SlowPathTidy
<1>1. ASSUME HInv PROVE PendingCoversQueue
  <2> SUFFICES ASSUME NEW g \in Groups PROVE slow_pending[g] >= Cardinality(queue[g])
    BY DEF PendingCoversQueue
  <2>1. PICK A, Q : A = {t \in Slow : Announced(t, g)} /\ Q = {t \in Slow : Queued(t, g)}
    OBVIOUS
  <2>2. slow_pending[g] = Cardinality(A) /\ queue[g] = Q
    BY <1>1, <2>1 DEF HInv, QueueOK, PendingOK
  <2>3. Q \subseteq A
    BY <2>1 DEF Queued, Announced, Past
  <2>4. IsFiniteSet(A)
    BY <2>1, FiniteThreads, FS_Subset
  <2> QED BY <2>2, <2>3, <2>4, FS_Subset, FS_CardinalityType
<1>2. ASSUME Inv, HInv PROVE Settled
  <2> SUFFICES ASSUME Quiescent
               PROVE  /\ tokens = Concurrency
                      /\ \A g \in Groups : /\ slow_pending[g] = 0
                                           /\ queue[g] = {}
                                            /\ \A b \in Buckets : wait_buckets[g][b] = <<>>
    BY DEF Settled
  <2>1. /\ \A t \in Tasks : Ended(t)
        /\ \A p \in Threads : pc[p] \in {"done", "wait"}
        /\ Cardinality({}) = 0
    BY FS_EmptySet DEF Quiescent, Ended
  <2>2. ASSUME NEW t \in Tasks, NEW g \in Groups, NEW L PROVE Past(t, g, L)
    BY <2>1, ThreadsOf DEF Past, BothThreads, DtorLabels
  <2>3. ASSUME NEW g \in Groups PROVE slow_pending[g] = 0 /\ queue[g] = {}
    <3>1. {t \in Slow : Queued(t, g)} = {} /\ {t \in Slow : Announced(t, g)} = {}
      BY <2>2, FiniteThreads DEF Queued, Announced
    <3> QED BY <1>2, <2>1, <3>1 DEF HInv, QueueOK, PendingOK
  <2>4. ASSUME NEW g \in Groups, NEW b \in Buckets PROVE wait_buckets[g][b] = <<>>
    <3>1. wait_buckets[g][b] \in Seq(Tasks) /\ (wait_buckets[g][b] # <<>> => 1 \in 1 .. Len(wait_buckets[g][b]))
      BY <1>2, BucketType DEF Inv
    <3>2. wait_buckets[g][b] # <<>> => state[wait_buckets[g][b][1]] = "parked" /\ wait_buckets[g][b][1] \in Tasks
      BY <1>2, <3>1, FiniteThreads DEF Inv, Shape, BucketsOK, WaitsIn
    <3> QED BY <2>1, <3>2 DEF Ended
  <2>5. ASSUME NEW g \in Groups PROVE tokens[g] = Concurrency[g]
    <3>1. Claiming(g) = {} /\ Owing(g) = {} /\ RunningLocks(g) = {} /\ Counted(g) = {}
      BY <2>1, FiniteThreads DEF Claiming, Owing, RunningLocks, Counted, Ended
    <3>2. LockedHandles(g) = {}
      BY <1>2, <2>2, FiniteThreads DEF HInv, LocksOK, LockedHandles
    <3>3. tokens[g] = Concurrency[g] - 0 - 0 - 0 - 0 + 0
      BY <1>2, <2>1, <3>1, <3>2 DEF Inv, TokenAccounting
    <3> QED BY <3>3, ConcurrencyAssumption
  <2>6. tokens = Concurrency
    BY <1>2, <2>5, ConcurrencyAssumption DEF Inv, TypeOK
  <2> QED BY <2>3, <2>4, <2>6
<1>3. Inv /\ HInv => SlowPathTidy
  BY <1>1, <1>2 DEF SlowPathTidy
<1> QED BY <1>3, Invariance, HandlesInvariance, PTL
=============================================================================

-------------------------- MODULE PowerPlantProofs --------------------------
(***************************************************************************)
(* Proofs about PowerPlant, for any pools, threads and tasks, and any      *)
(* scenario made of them: the counting locks are exact and never say that  *)
(* the system is idle when it is not, and a shutdown reaches every pool,   *)
(* after the reactions to it and the work of the persistent pools.         *)
(***************************************************************************)
EXTENDS PowerPlant, FiniteSetTheorems, SequenceTheorems, TLAPS

-----------------------------------------------------------------------------
(* What a thread has left to do.                                           *)

OnTask == {"submit", "route", "done", "bindall", "unbindall"} \X Tasks
Entering == {"accept", "enqueue"} \X Tasks \X BOOLEAN
Telling == {"notify"} \X Pools \X BOOLEAN \X SUBSET Tasks
OnPool == {"unregister", "build", "await", "join"} \X Pools
Binding == {"bind", "unbind", "add"} \X Tasks \X Pools
Ending == {"shutdown", "stop"} \X {"NORMAL", "FORCE"}
Halt == {"halt"} \X Pools \X {"NORMAL", "FORCE", "FINAL"}
Simple == {<<"poll">>, <<"wait">>, <<"start">>, <<"mainpool">>, <<"finals">>, <<"begin">>}
Op == OnTask \cup Entering \cup Telling \cup OnPool \cup Binding \cup Ending \cup Halt \cup Simple

Left(th) == Range(todo[th])
Has(th, kind) == \E o \in Left(th) : o[1] = kind

\* What is left is in the order of these ranks: the end of a submission comes
\* before the rest of a callback, that before the end of its task, that before
\* the loop of the pool, that before the last stops of the pools; and there is
\* one of each, except of those of rank 0, 2, 7 and 8.
Closing(o) == o[1] = "join" \/ (o[1] = "halt" /\ o[3] = "FINAL")
Rank(o, lasting) ==
  IF o[1] \in {"enqueue", "notify"} THEN 0
  ELSE IF o[1] \in {"unregister", "build"} THEN 1
  ELSE IF o[1] = "done" THEN 3
  ELSE IF o[1] = "start" THEN 4
  ELSE IF o[1] = "wait" THEN 5
  ELSE IF o[1] \in {"mainpool", "poll"} THEN 6
  ELSE IF o[1] = "finals" THEN 9
  ELSE IF Closing(o) THEN IF o[2] \in lasting THEN 8 ELSE 7
  ELSE 2
Follows(r, q) == q < r \/ (q = r /\ r \in {0, 2, 7, 8})
InOrder(s, lasting) ==
  \A i, j \in DOMAIN s : i < j => Follows(Rank(s[j], lasting), Rank(s[i], lasting))

-----------------------------------------------------------------------------
(* The invariant.                                                          *)

Types ==
  /\ scenario \in Scenarios
  /\ scheduler \in [started : BOOLEAN, running : BOOLEAN, building : Pools \cup {Nobody},
                    idle_tasks : SUBSET Tasks]
  /\ pool \in [Pools -> [made : BOOLEAN, running : BOOLEAN, accept : BOOLEAN, live : BOOLEAN,
                         pending_idle : BOOLEAN, discard : BOOLEAN, external_waiters : Int,
                         queue : Seq(Tasks), idle_tasks : SUBSET Tasks]]
  /\ idle \in [active : [Pools -> Int], thread : [Threads -> BOOLEAN],
               active_pools : Int, pool : [Pools -> BOOLEAN]]
  /\ group \in [taken : BOOLEAN, waiting : Seq(Tasks \X BOOLEAN)]
  /\ todo \in [Threads -> Seq(Op)]
  /\ sleeping \in [Pools -> SUBSET Threads]
  /\ forced \in BOOLEAN /\ ran \subseteq Tasks /\ owed \subseteq Tasks

\* Who does what, and in which order: the main thread sets up, starts, serves
\* its pool and stops the others for good; a worker polls until its pool ends.
Scripts ==
  /\ \A th \in Threads : InOrder(todo[th], scenario.persistent)
  /\ \A th \in Threads : \A o \in Left(th) :
       /\ o[1] \in {"start", "mainpool", "finals"} \/ Closing(o) => th = "main"
       /\ o[1] \in {"poll", "wait"} => \E p \in Pools : th \in Workers(p)
       /\ o[1] = "done" => th \in Workers(Home(o[2]))
       /\ o[1] \in {"done", "wait"} => Has(th, "poll")
  /\ Has("main", "start") => Has("main", "mainpool")
  /\ Has("main", "mainpool") \/ Has("main", "poll") => Has("main", "finals")
  /\ Has("main", "finals") => \A o \in Left("main") : ~Closing(o)

\* Tasks, calls and waiters are about pools that have been made.
Places ==
  /\ pool["main"].made
  /\ \A p \in Pools : \A t \in Range(pool[p].queue) : Home(t) = p /\ pool[p].made
  /\ \A i \in DOMAIN group.waiting : pool[Home(group.waiting[i][1])].made
  /\ \A th \in Threads : \A o \in Left(th) :
       /\ o[1] = "route" => pool[Home(o[2])].made \/ <<"build", Home(o[2])>> \in Left(th)
       /\ o[1] \in {"accept", "enqueue"} => pool[Home(o[2])].made
       /\ o[1] \in {"halt", "join"} => pool[o[2]].made
       /\ o[1] = "build" => scheduler.building = o[2]
  /\ \A th, other \in Threads : Has(th, "build") /\ Has(other, "build") => th = other
  /\ \A p \in Pools : scheduler.building = p => ~pool[p].made

\* The workers of a pool have been started.
Begun(p) == IF p = "main" THEN ~Has("main", "mainpool") ELSE pool[p].made /\ scheduler.started
Starting ==
  /\ scheduler.started <=> ~Has("main", "start")
  /\ \A p \in Pools \ {"main"} : \A w \in Workers(p) : todo[w] # <<>> => Begun(p)
  /\ \A p \in Pools : ~Begun(p) => idle.active[p] = 0 /\ \A w \in Workers(p) : ~idle.thread[w]

\* The counting locks.
Busy(p) == {w \in Workers(p) : ~idle.thread[w]}
CountedIn(p) == (pool[p].made /\ ~idle.pool[p]) \/ scheduler.building = p
Counting ==
  /\ \A p \in Pools : IF Counts(p) THEN Begun(p) => idle.active[p] = Cardinality(Busy(p))
                      ELSE idle.active[p] = 0 /\ \A w \in Workers(p) : ~idle.thread[w]
  /\ idle.active_pools = Cardinality({p \in scenario.counts : CountedIn(p)})
  /\ \A p \in Pools : idle.pool[p] => pool[p].made /\ Counts(p)

\* Who runs a task is busy, and so is the pool that has a task to run.
Working ==
  /\ \A p \in scenario.counts : \A w \in Workers(p) : Has(w, "done") => ~idle.thread[w] /\ ~idle.pool[p]
  /\ \A t \in owed : /\ t \in Range(pool[Home(t)].queue) /\ pool[Home(t)].live
                     /\ ~idle.pool[Home(t)]

\* Until the scheduler stops all pools run and accept; from then on each that is
\* not persistent has been stopped, or is about to be.
Halting(p) == \E th \in Threads : \E o \in Left(th) : o[1] = "halt" /\ o[2] = p
Stopping ==
  /\ scheduler.running =>
       /\ \A p \in Pools : pool[p].accept /\ pool[p].running /\ ~Halting(p)
       /\ Has("main", "mainpool") \/ Has("main", "poll")
  /\ ~scheduler.running =>
       /\ scheduler.building = Nobody
       /\ \A p \in Pools : pool[p].made => Persistent(p) \/ ~pool[p].running \/ Halting(p)

\* Without a forced stop nothing is dropped.
Gentle ==
  ~forced =>
    /\ \A p \in Pools : ~pool[p].discard /\ (Persistent(p) => pool[p].accept)
    /\ \A th \in Threads : \A o \in Left(th) : o[1] = "halt" => o[3] # "FORCE"

\* The main thread joins the pools one by one, the persistent ones last.
Gone(p) == \A w \in Workers(p) \ {"main"} : todo[w] = <<>>
Lasts(p) == ~Has("main", "finals") /\ \A q \in Pools : pool[q].made /\ ~Persistent(q) => Gone(q)
Closed ==
  /\ ~Has("main", "finals") => \A p \in Pools : pool[p].made => Gone(p) \/ <<"join", p>> \in Left("main")
  /\ ~forced => \A p \in Pools : pool[p].made /\ Persistent(p) /\ ~pool[p].running => Lasts(p)

\* A task that has been accepted, and not just by a call still to put it in the
\* queue, is not lost; a call still to do so is there.
OnItsWay(o, t) == o[1] \in {"submit", "route", "accept", "enqueue"} /\ o[2] = t
HandedOver(th, t) == /\ \E o \in Left(th) : o[1] = "enqueue" /\ o[2] = t
                     /\ <<"unregister", Home(t)>> \in Left(th)
Safe(t) ==
  \/ t \in ran \/ t \in Range(pool[Home(t)].queue)
  \/ \E i \in DOMAIN group.waiting : group.waiting[i][1] = t
  \/ \E th \in Threads : <<"done", t>> \in Left(th) \/ HandedOver(th, t)

\* What a task gives to the persistent pools.
Bequest(t) ==
  {u \in Tasks : Persistent(Home(u)) /\ ~Persistent(Home(t)) /\ <<"submit", u>> \in Range(scenario.body[t])}

\* Before a stop of the scheduler in a thread comes what will put the task in its
\* queue; a pool that is left by its workers has nothing more to come.
Covered(ops, t) ==
  \A j \in DOMAIN ops : ops[j][1] = "stop" => \E i \in 1 .. (j - 1) : OnItsWay(ops[i], t)
Exited(p) == Begun(p) /\ \A w \in Workers(p) : ~Has(w, "poll")
Kept ==
  ~forced =>
    /\ ~scheduler.running => \A s \in scenario.shutdown : Safe(s)
    /\ \A th \in Threads : \A s \in scenario.shutdown : Safe(s) \/ Covered(todo[th], s)
    /\ \A th \in Threads : \A t \in Tasks : <<"done", t>> \in Left(th) =>
         \A u \in Bequest(t) : Safe(u) \/ \E o \in Left(th) : OnItsWay(o, u)
    /\ \A t \in ran : \A u \in Bequest(t) : Safe(u)
    /\ \A p \in Pools : Exited(p) =>
         /\ ~scheduler.running /\ (Persistent(p) => Lasts(p))
         /\ \A s \in scenario.shutdown : Home(s) = p => s \in ran
         /\ \A t \in ran : \A u \in Bequest(t) : Home(u) = p => u \in ran

\* What the counting locks need to be exact.
Sound == Types /\ Scripts /\ Places /\ Starting /\ Counting /\ Working /\ WaitersCount

\* What a stop needs to reach everyone.
Inv == Sound /\ Stopping /\ Gentle /\ Closed /\ Kept

\* BEGIN PROOFS
-----------------------------------------------------------------------------
(* Sequences.                                                              *)

\* The elements of the sequences the actions write down.
LEMMA RangeOf ==
  /\ Range(<<>>) = {}
  /\ \A a : Range(<<a>>) = {a}
  /\ \A a, b : Range(<<a, b>>) = {a, b}
  BY DEF Range

LEMMA RangeSplit ==
  ASSUME NEW S, NEW s \in Seq(S), s # <<>>
  PROVE  /\ Head(s) \in S /\ Tail(s) \in Seq(S) /\ Head(s) = s[1] /\ Head(s) \in Range(s)
         /\ Range(s) = {Head(s)} \cup Range(Tail(s))
<1>1. /\ Len(s) \in Nat /\ Len(s) > 0 /\ DOMAIN s = 1 .. Len(s) /\ Head(s) \in S /\ Tail(s) \in Seq(S)
      /\ DOMAIN Tail(s) = 1 .. (Len(s) - 1) /\ Head(s) = s[1]
      /\ \A i \in 1 .. (Len(s) - 1) : Tail(s)[i] = s[i + 1]
  BY HeadTailProperties, LenProperties, EmptySeq
<1>2. \A i \in 1 .. Len(s) : i = 1 \/ (i - 1 \in 1 .. (Len(s) - 1) /\ s[i] = Tail(s)[i - 1])
  BY <1>1
<1>3. 1 \in DOMAIN s /\ \A i \in 1 .. (Len(s) - 1) : i + 1 \in DOMAIN s
  BY <1>1
<1>4. Head(s) \in Range(s) /\ \A x \in Range(Tail(s)) : x \in Range(s)
  BY <1>1, <1>3 DEF Range
<1>5. ASSUME NEW x \in Range(s)
      PROVE  x = Head(s) \/ x \in Range(Tail(s))
  <2>1. PICK i \in 1 .. Len(s) : x = s[i]
    BY <1>1 DEF Range
  <2>2. CASE i = 1
    BY <2>1, <2>2, <1>1
  <2>3. CASE i # 1
    <3>1. i - 1 \in DOMAIN Tail(s) /\ x = Tail(s)[i - 1]
      BY <2>1, <2>3, <1>1, <1>2
    <3> QED BY <3>1 DEF Range
  <2> QED BY <2>2, <2>3
<1> QED BY <1>1, <1>4, <1>5

LEMMA RangeJoin ==
  ASSUME NEW S, NEW x \in Seq(S), NEW y \in Seq(S)
  PROVE  /\ x \o y \in Seq(S) /\ Range(x \o y) = Range(x) \cup Range(y)
         /\ Range(x) \subseteq S
<1>1. /\ Len(x) \in Nat /\ Len(y) \in Nat /\ DOMAIN x = 1 .. Len(x) /\ DOMAIN y = 1 .. Len(y)
      /\ x \o y \in Seq(S) /\ DOMAIN (x \o y) = 1 .. Len(x) + Len(y)
      /\ \A i \in 1 .. Len(x) + Len(y) : (x \o y)[i] = IF i <= Len(x) THEN x[i] ELSE y[i - Len(x)]
      /\ \A i \in 1 .. Len(x) : x[i] \in S
  BY ConcatProperties, LenProperties, ElementOfSeq
<1>2. \A i \in 1 .. Len(x) : i \in 1 .. Len(x) + Len(y) /\ (x \o y)[i] = x[i]
  BY <1>1
<1>3. \A i \in 1 .. Len(y) : i + Len(x) \in 1 .. Len(x) + Len(y) /\ (x \o y)[i + Len(x)] = y[i]
  BY <1>1
<1>4. \A i \in 1 .. Len(x) + Len(y) : \/ i \in 1 .. Len(x)
                                      \/ i - Len(x) \in 1 .. Len(y) /\ (x \o y)[i] = y[i - Len(x)]
  BY <1>1
<1>5. PICK z : z = x \o y /\ DOMAIN z = 1 .. Len(x) + Len(y)
  BY <1>1
<1>6. ASSUME NEW v \in Range(z) PROVE v \in Range(x) \cup Range(y)
  <2>1. PICK i \in 1 .. Len(x) + Len(y) : v = z[i]
    BY <1>5 DEF Range
  <2>2. CASE i \in 1 .. Len(x)
    <3>1. v = x[i]
      BY <1>2, <1>5, <2>1, <2>2
    <3> QED BY <1>1, <2>2, <3>1 DEF Range
  <2>3. CASE i - Len(x) \in 1 .. Len(y) /\ z[i] = y[i - Len(x)]
    <3>1. PICK j \in DOMAIN y : v = y[j]
      BY <1>1, <2>1, <2>3
    <3> QED BY <3>1 DEF Range
  <2> QED BY <1>4, <1>5, <2>2, <2>3
<1>7. ASSUME NEW v \in Range(x) PROVE v \in Range(z) /\ v \in S
  <2>1. PICK i \in 1 .. Len(x) : v = x[i]
    BY <1>1 DEF Range
  <2>2. i \in DOMAIN z /\ v = z[i]
    BY <1>2, <1>5, <2>1
  <2> QED BY <1>1, <2>1, <2>2 DEF Range
<1>8. ASSUME NEW v \in Range(y) PROVE v \in Range(z)
  <2>1. PICK i \in 1 .. Len(y) : v = y[i]
    BY <1>1 DEF Range
  <2>2. i + Len(x) \in DOMAIN z /\ v = z[i + Len(x)]
    BY <1>3, <1>5, <2>1
  <2> QED BY <2>2 DEF Range
<1>9. Range(z) = Range(x) \cup Range(y) /\ Range(x) \subseteq S
  BY <1>6, <1>7, <1>8
<1> QED BY <1>1, <1>5, <1>9

\* SetToSeq lists a finite set.
LEMMA Listed ==
  ASSUME NEW S, IsFiniteSet(S)
  PROVE  /\ SetToSeq(S) \in Seq(S) /\ DOMAIN SetToSeq(S) = 1 .. Len(SetToSeq(S))
         /\ Len(SetToSeq(S)) \in Nat /\ Range(SetToSeq(S)) = S
<1> DEFINE n == Cardinality(S)
<1>1. n \in Nat /\ ExistsBijection(1 .. n, S)
  BY FS_CardinalityType
<1>2. IsFiniteSet(1 .. n) /\ Cardinality(1 .. n) = n
  BY <1>1, FS_Interval
<1>3. PICK g : g \in Bijection(1 .. n, S)
  BY <1>1 DEF ExistsBijection
<1>4. g \in [1 .. n -> S] /\ IsInjective(g)
  BY <1>3 DEF Bijection, Injection, IsInjective
<1>5. SetToSeq(S) \in [1 .. n -> S] /\ IsInjective(SetToSeq(S))
  BY <1>4 DEF SetToSeq
<1>6. SetToSeq(S) \in Injection(1 .. n, S)
  BY <1>5 DEF Injection, IsInjective
<1>7. SetToSeq(S) \in Surjection(1 .. n, S)
  BY <1>1, <1>2, <1>6, FS_Injection
<1>8. Range(SetToSeq(S)) = S
  BY <1>7 DEF Surjection, Range
<1> QED BY <1>1, <1>5, <1>8, LenProperties, SeqDef

-----------------------------------------------------------------------------
(* What a step leaves of a thread's work.                                  *)

Rest_(th, kept) == IF kept THEN todo[th] ELSE Tail(todo[th])
Rewrites(th, ops, kept) == todo' = [todo EXCEPT ![th] = ops \o Rest_(th, kept)]

LEMMA RewritesLeft ==
  ASSUME todo \in [Threads -> Seq(Op)], NEW th \in Threads, todo[th] # <<>>,
         NEW ops \in Seq(Op), NEW kept \in BOOLEAN, Rewrites(th, ops, kept)
  PROVE  /\ todo' \in [Threads -> Seq(Op)]
         /\ Head(todo[th]) \in Op /\ Head(todo[th]) = todo[th][1]
         /\ Left(th) = {Head(todo[th])} \cup Range(Tail(todo[th]))
         /\ Left(th)' = Range(ops) \cup Range(Rest_(th, kept))
         /\ Range(ops) \subseteq Op
         /\ \A x \in Threads \ {th} : todo'[x] = todo[x] /\ Left(x)' = Left(x)
<1>1. todo[th] \in Seq(Op)
  OBVIOUS
<1>2. Rest_(th, kept) \in Seq(Op)
  BY <1>1, RangeSplit DEF Rest_
<1>3. ops \o Rest_(th, kept) \in Seq(Op)
      /\ Range(ops \o Rest_(th, kept)) = Range(ops) \cup Range(Rest_(th, kept)) /\ Range(ops) \subseteq Op
  BY <1>2, RangeJoin
<1>4. todo'[th] = ops \o Rest_(th, kept) /\ \A x \in Threads \ {th} : todo'[x] = todo[x]
  BY DEF Rewrites
<1>5. todo' \in [Threads -> Seq(Op)]
  BY <1>3 DEF Rewrites
<1>6. Head(todo[th]) \in Op /\ Head(todo[th]) = todo[th][1]
      /\ Left(th) = {Head(todo[th])} \cup Range(Tail(todo[th]))
  BY <1>1, RangeSplit DEF Left
<1> QED BY <1>3, <1>4, <1>5, <1>6 DEF Left

\* Work put before the rest, of ranks no later than what it replaces, or before what
\* it is put before, keeps the order.
LEMMA RewritesOrder ==
  ASSUME todo \in [Threads -> Seq(Op)], NEW th \in Threads, todo[th] # <<>>,
         NEW ops \in Seq(Op), NEW kept \in BOOLEAN, Rewrites(th, ops, kept),
         NEW lasting, InOrder(todo[th], lasting), InOrder(ops, lasting),
         \A o \in Range(ops) :
           IF kept THEN Follows(Rank(Head(todo[th]), lasting), Rank(o, lasting))
           ELSE Rank(o, lasting) <= Rank(Head(todo[th]), lasting)
  PROVE  InOrder(todo'[th], lasting)
<1> DEFINE s == todo[th]
           r == Rest_(th, kept)
           R(o) == Rank(o, lasting)
<1>1. s \in Seq(Op) /\ Tail(s) \in Seq(Op) /\ Head(s) = s[1] /\ r \in Seq(Op)
  BY RangeSplit DEF Rest_
<1>2. /\ Len(s) \in Nat /\ Len(s) > 0 /\ DOMAIN s = 1 .. Len(s)
      /\ DOMAIN Tail(s) = 1 .. (Len(s) - 1)
      /\ \A i \in 1 .. (Len(s) - 1) : Tail(s)[i] = s[i + 1]
  BY <1>1, HeadTailProperties, LenProperties, EmptySeq
<1>3. /\ Len(ops) \in Nat /\ Len(r) \in Nat /\ DOMAIN ops = 1 .. Len(ops) /\ DOMAIN r = 1 .. Len(r)
      /\ DOMAIN (ops \o r) = 1 .. (Len(ops) + Len(r))
      /\ \A i \in 1 .. (Len(ops) + Len(r)) : (ops \o r)[i] = IF i <= Len(ops) THEN ops[i] ELSE r[i - Len(ops)]
  BY <1>1, ConcatProperties, LenProperties
<1>4. \A o : R(o) \in 0 .. 9
  BY DEF Rank
<1>5. ASSUME NEW i \in DOMAIN r, NEW j \in DOMAIN r, i < j
      PROVE  Follows(R(r[j]), R(r[i]))
  <2>1. CASE kept
    BY <2>1, <1>5 DEF Rest_, InOrder
  <2>2. CASE ~kept
    <3>1. r = Tail(s)
      BY <2>2 DEF Rest_
    <3>2. r[i] = s[i + 1] /\ r[j] = s[j + 1] /\ i + 1 \in DOMAIN s /\ j + 1 \in DOMAIN s /\ i + 1 < j + 1
      BY <3>1, <1>2, <1>5
    <3> QED BY <3>2 DEF InOrder
  <2> QED BY <2>1, <2>2
<1>6. ASSUME NEW i \in DOMAIN ops, NEW j \in DOMAIN r
      PROVE  Follows(R(r[j]), R(ops[i]))
  <2>1. ops[i] \in Range(ops)
    BY DEF Range
  <2>2. CASE kept
    <3>1. Follows(R(s[1]), R(ops[i]))
      BY <2>1, <2>2, <1>1
    <3>2. r = s /\ (j = 1 \/ Follows(R(s[j]), R(s[1])))
      BY <2>2, <1>2 DEF Rest_, InOrder
    <3>3. R(r[j]) \in 0 .. 9 /\ R(s[1]) \in 0 .. 9 /\ R(ops[i]) \in 0 .. 9
      BY <1>4, Zenon
    <3> QED BY <3>1, <3>2, <3>3, SMTT(30) DEF Follows
  <2>3. CASE ~kept
    <3>1. R(ops[i]) <= R(s[1])
      BY <2>1, <2>3, <1>1
    <3>2. r[j] = s[j + 1] /\ 1 \in DOMAIN s /\ j + 1 \in DOMAIN s /\ 1 < j + 1
      BY <2>3, <1>2 DEF Rest_
    <3>3. Follows(R(r[j]), R(s[1]))
      BY <3>2 DEF InOrder
    <3>4. R(r[j]) \in 0 .. 9 /\ R(s[1]) \in 0 .. 9 /\ R(ops[i]) \in 0 .. 9
      BY <1>4, Zenon
    <3> QED BY <3>1, <3>3, <3>4, SMTT(30) DEF Follows
  <2> QED BY <2>2, <2>3
<1>7. ASSUME NEW i \in DOMAIN (ops \o r), NEW j \in DOMAIN (ops \o r), i < j
      PROVE  Follows(R((ops \o r)[j]), R((ops \o r)[i]))
  <2>1. CASE j <= Len(ops)
    <3>1. i \in DOMAIN ops /\ j \in DOMAIN ops /\ (ops \o r)[i] = ops[i] /\ (ops \o r)[j] = ops[j]
      BY <2>1, <1>3, <1>7
    <3> QED BY <3>1, <1>7 DEF InOrder
  <2>2. CASE j > Len(ops) /\ i <= Len(ops)
    <3>1. /\ i \in DOMAIN ops /\ j - Len(ops) \in DOMAIN r
          /\ (ops \o r)[i] = ops[i] /\ (ops \o r)[j] = r[j - Len(ops)]
      BY <2>2, <1>3, <1>7
    <3> QED BY <3>1, <1>6
  <2>3. CASE i > Len(ops)
    <3>1. /\ i - Len(ops) \in DOMAIN r /\ j - Len(ops) \in DOMAIN r /\ i - Len(ops) < j - Len(ops)
          /\ (ops \o r)[i] = r[i - Len(ops)] /\ (ops \o r)[j] = r[j - Len(ops)]
      BY <2>3, <1>3, <1>7
    <3> QED BY <3>1, <1>5
  <2> QED BY <2>1, <2>2, <2>3, <1>3
<1>8. todo'[th] = ops \o r
  BY DEF Rewrites
<1> QED BY <1>7, <1>8 DEF InOrder

-----------------------------------------------------------------------------
(* The scenario and the operations.                                        *)

\* What a scenario is made of.
LEMMA Cast ==
  ASSUME Types
  PROVE  /\ \A p \in Pools : Workers(p) \subseteq Threads /\ Workers(p) # {}
         /\ \A p \in Pools : "main" \in Workers(p) => p = "main"
         /\ \A p \in Pools : \A w \in Workers(p) : PoolOf(w) = p
         /\ \A p \in Pools : \A w \in Workers(p) : scenario.outside[w] = <<>>
         /\ "main" \in Pools /\ "main" \in Threads /\ Nobody \notin Pools /\ Workers("main") = {"main"}
         /\ \A p \in Pools : \A w \in Workers(p) : w # "main" => p # "main"
         /\ \A th \in Threads : PoolOf(th) \in Pools => th \in Workers(PoolOf(th))
         /\ \A th \in Threads : PoolOf(th) \in Pools \/ PoolOf(th) = Nobody
         /\ \A t \in Tasks : Home(t) \in Pools /\ scenario.body[t] \in Seq(Calls)
         /\ scenario.setup \in Seq(Calls) /\ \A th \in Threads : scenario.outside[th] \in Seq(Calls)
         /\ scenario.counts \subseteq Pools /\ scenario.shutdown \subseteq Tasks
<1> DEFINE s == scenario
<1>1. s \in Scenarios
  BY DEF Types
<1>2. /\ "main" \in Pools /\ "main" \in Threads /\ Nobody \notin Pools
      /\ s.workers \in [Pools -> (SUBSET Threads) \ {{}}] /\ s.workers["main"] = {"main"}
      /\ \A p, q \in Pools : p # q => s.workers[p] \cap s.workers[q] = {}
      /\ s.counts \subseteq Pools /\ s.low \subseteq Tasks /\ s.shutdown \subseteq s.low
      /\ s.home \in [Tasks -> Pools] /\ s.body \in [Tasks -> Seq(Calls)]
      /\ s.setup \in Seq(Calls) /\ s.outside \in [Threads -> Seq(Calls)]
      /\ \A p \in Pools : \A th \in s.workers[p] : s.outside[th] = <<>>
  BY <1>1, PowerPlantAssumption
<1>3. \A p \in Pools : Workers(p) \subseteq Threads /\ Workers(p) # {}
  <2>1. \A p \in Pools : s.workers[p] \in (SUBSET Threads) \ {{}}
    BY <1>2
  <2> QED BY <2>1 DEF Workers
<1>4. \A p, q \in Pools : \A w \in Workers(p) \cap Workers(q) : p = q
  BY <1>2 DEF Workers
<1>5. Workers("main") = {"main"}
  BY <1>2 DEF Workers
<1>6. ASSUME NEW p \in Pools, NEW w \in Workers(p)
      PROVE  PoolOf(w) = p /\ scenario.outside[w] = <<>>
  <2>1. \E q \in Pools : w \in Workers(q)
    OBVIOUS
  <2>2. PoolOf(w) \in Pools /\ w \in Workers(PoolOf(w))
    BY <2>1 DEF PoolOf
  <2> QED BY <2>2, <1>2, <1>4 DEF Workers
<1>7. ASSUME NEW th \in Threads
      PROVE  /\ PoolOf(th) \in Pools => th \in Workers(PoolOf(th))
             /\ PoolOf(th) \in Pools \/ PoolOf(th) = Nobody
  BY <1>2 DEF PoolOf
<1>8. \A t \in Tasks : Home(t) \in Pools /\ scenario.body[t] \in Seq(Calls)
  BY <1>2 DEF Home
<1> QED BY <1>2, <1>3, <1>4, <1>5, <1>6, <1>7, <1>8

LEMMA PoolOfWorker ==
  ASSUME Types, NEW p \in Pools, NEW w \in Workers(p)
  PROVE  PoolOf(w) = p /\ w \in Threads /\ PoolOf(w) \in Pools
  BY Cast

\* The arguments of an operation.
LEMMA Arguments ==
  ASSUME NEW o \in Op
  PROVE  /\ o[1] \in {"submit", "route", "done", "bindall", "unbindall"} => o[2] \in Tasks /\ o = <<o[1], o[2]>>
         /\ o[1] \in {"accept", "enqueue"} => o[2] \in Tasks /\ o[3] \in BOOLEAN /\ o = <<o[1], o[2], o[3]>>
         /\ o[1] = "notify" => /\ o[2] \in Pools /\ o[3] \in BOOLEAN /\ o[4] \subseteq Tasks
                              /\ o = <<o[1], o[2], o[3], o[4]>>
         /\ o[1] \in {"unregister", "build", "await", "join"} => o[2] \in Pools /\ o = <<o[1], o[2]>>
         /\ o[1] \in {"bind", "unbind", "add"} => o[2] \in Tasks /\ o[3] \in Pools /\ o = <<o[1], o[2], o[3]>>
         /\ o[1] \in {"shutdown", "stop"} => o[2] \in {"NORMAL", "FORCE"} /\ o = <<o[1], o[2]>>
         /\ o[1] = "halt" => /\ o[2] \in Pools /\ o[3] \in {"NORMAL", "FORCE", "FINAL"}
                            /\ o = <<o[1], o[2], o[3]>>
         /\ o[1] \in {"poll", "wait", "start", "mainpool", "finals", "begin"} => o = <<o[1]>>
<1>1. ASSUME o \in OnTask
      PROVE  o[1] \in {"submit", "route", "done", "bindall", "unbindall"} /\ o[2] \in Tasks /\ o = <<o[1], o[2]>>
  BY <1>1 DEF OnTask
<1>2. ASSUME o \in Entering
      PROVE o[1] \in {"accept", "enqueue"} /\ o[2] \in Tasks /\ o[3] \in BOOLEAN /\ o = <<o[1], o[2], o[3]>>
  BY <1>2 DEF Entering
<1>3. ASSUME o \in Telling
      PROVE o[1] = "notify" /\ o[2] \in Pools /\ o[3] \in BOOLEAN /\ o[4] \subseteq Tasks /\ o = <<o[1], o[2], o[3], o[4]>>
  BY <1>3 DEF Telling
<1>4. ASSUME o \in OnPool
      PROVE o[1] \in {"unregister", "build", "await", "join"} /\ o[2] \in Pools /\ o = <<o[1], o[2]>>
  BY <1>4 DEF OnPool
<1>5. ASSUME o \in Binding
      PROVE o[1] \in {"bind", "unbind", "add"} /\ o[2] \in Tasks /\ o[3] \in Pools /\ o = <<o[1], o[2], o[3]>>
  BY <1>5 DEF Binding
<1>6. ASSUME o \in Ending
      PROVE o[1] \in {"shutdown", "stop"} /\ o[2] \in {"NORMAL", "FORCE"} /\ o = <<o[1], o[2]>>
  BY <1>6 DEF Ending
<1>7. ASSUME o \in Halt
      PROVE o[1] = "halt" /\ o[2] \in Pools /\ o[3] \in {"NORMAL", "FORCE", "FINAL"} /\ o = <<o[1], o[2], o[3]>>
  BY <1>7 DEF Halt
<1>8. ASSUME o \in Simple
      PROVE o[1] \in {"poll", "wait", "start", "mainpool", "finals", "begin"} /\ o = <<o[1]>>
  BY <1>8 DEF Simple
<1> QED BY <1>1, <1>2, <1>3, <1>4, <1>5, <1>6, <1>7, <1>8 DEF Op

\* How operations are written.
LEMMA Operations ==
  /\ \A t \in Tasks : \A k \in {"submit", "route", "done", "bindall", "unbindall"} : <<k, t>> \in Op
  /\ \A t \in Tasks : \A b \in BOOLEAN : \A k \in {"accept", "enqueue"} : <<k, t, b>> \in Op
  /\ \A p \in Pools : \A b \in BOOLEAN : \A T \in SUBSET Tasks : <<"notify", p, b, T>> \in Op
  /\ \A p \in Pools : \A k \in {"unregister", "build", "await", "join"} : <<k, p>> \in Op
  /\ \A t \in Tasks : \A p \in Pools : \A k \in {"bind", "unbind", "add"} : <<k, t, p>> \in Op
  /\ \A x \in {"NORMAL", "FORCE"} : \A k \in {"shutdown", "stop"} : <<k, x>> \in Op
  /\ \A p \in Pools : \A x \in {"NORMAL", "FORCE", "FINAL"} : <<"halt", p, x>> \in Op
  /\ Simple \subseteq Op
<1>1. \A t \in Tasks : \A k \in {"submit", "route", "done", "bindall", "unbindall"} : <<k, t>> \in OnTask
  BY DEF OnTask
<1>2. \A t \in Tasks : \A b \in BOOLEAN : \A k \in {"accept", "enqueue"} : <<k, t, b>> \in Entering
  BY DEF Entering
<1>3. \A p \in Pools : \A b \in BOOLEAN : \A T \in SUBSET Tasks : <<"notify", p, b, T>> \in Telling
  BY DEF Telling
<1>4. \A p \in Pools : \A k \in {"unregister", "build", "await", "join"} : <<k, p>> \in OnPool
  BY DEF OnPool
<1>5. \A t \in Tasks : \A p \in Pools : \A k \in {"bind", "unbind", "add"} : <<k, t, p>> \in Binding
  BY DEF Binding
<1>6. \A x \in {"NORMAL", "FORCE"} : \A k \in {"shutdown", "stop"} : <<k, x>> \in Ending
  BY DEF Ending
<1>7. \A p \in Pools : \A x \in {"NORMAL", "FORCE", "FINAL"} : <<"halt", p, x>> \in Halt
  BY DEF Halt
<1> QED BY <1>1, <1>2, <1>3, <1>4, <1>5, <1>6, <1>7 DEF Op


\* The calls of a script are operations, of the middle rank.
LEMMA CallsAreOps ==
  /\ Calls \subseteq Op
  /\ \A o \in Calls : /\ o[1] \in {"submit", "bindall", "unbindall", "bind", "unbind", "shutdown"}
                      /\ \A lasting : Rank(o, lasting) = 2
<1>1. ASSUME NEW o \in {"submit", "bindall", "unbindall"} \X Tasks
      PROVE  o \in OnTask /\ o[1] \in {"submit", "bindall", "unbindall"}
  BY DEF OnTask
<1>2. ASSUME NEW o \in {"bind", "unbind"} \X Tasks \X Pools
      PROVE  o \in Binding /\ o[1] \in {"bind", "unbind"}
  BY DEF Binding
<1>3. ASSUME NEW o \in {"shutdown"} \X {"NORMAL", "FORCE"}
      PROVE  o \in Ending /\ o[1] = "shutdown"
  BY DEF Ending
<1>4. /\ Calls \subseteq Op
      /\ \A o \in Calls : o[1] \in {"submit", "bindall", "unbindall", "bind", "unbind", "shutdown"}
  BY <1>1, <1>2, <1>3 DEF Op, Calls
<1> QED BY <1>4 DEF Rank, Closing

-----------------------------------------------------------------------------
(* Ordinary steps: those that neither set a thread to work nor end what    *)
(* only the system's own scripts hold.                                     *)

Marks == {"start", "mainpool", "finals", "poll"}
Lasting == scenario.persistent
RankOf(o) == Rank(o, Lasting)

Ordinary(th, ops, kept) ==
  /\ todo[th] # <<>> /\ ops \in Seq(Op) /\ Rewrites(th, ops, kept)
  /\ InOrder(ops, Lasting)
  /\ \A o \in Range(ops) :
       /\ o[1] \notin Marks /\ ~Closing(o)
       /\ o[1] \in {"wait", "done"} => kept
       /\ o[1] = "done" => th \in Workers(Home(o[2]))
       /\ IF kept THEN RankOf(o) < 6 ELSE RankOf(o) <= RankOf(Head(todo[th]))
  /\ IF kept THEN Head(todo[th])[1] = "poll" ELSE Head(todo[th])[1] \notin Marks
Moved(th, new, kept) == \E ops : Ordinary(th, ops, kept) /\ Range(ops) = new
After(th, kept) == IF kept THEN Left(th) ELSE Range(Tail(todo[th]))

\* A thread whose work an ordinary step changes.
LEMMA OrdinaryLeft ==
  ASSUME Types, NEW th \in Threads, NEW new, NEW kept \in BOOLEAN, Moved(th, new, kept)
  PROVE  /\ todo' \in [Threads -> Seq(Op)] /\ todo[th] # <<>> /\ new \subseteq Op
         /\ Head(todo[th]) \in Op /\ Left(th) = {Head(todo[th])} \cup Range(Tail(todo[th]))
         /\ Left(th)' = new \cup After(th, kept)
         /\ \A x \in Threads \ {th} : todo'[x] = todo[x] /\ Left(x)' = Left(x)
         /\ \A x \in Threads : \A k \in Marks : Has(x, k)' <=> Has(x, k)
         /\ \A x \in Threads : \A o : Closing(o) => (o \in Left(x)' => o \in Left(x))
         /\ \A o \in new : o[1] \notin Marks
<1>1. PICK ops : Ordinary(th, ops, kept) /\ Range(ops) = new
  BY DEF Moved
<1>2. todo \in [Threads -> Seq(Op)]
  BY DEF Types
<1>3. ops \in Seq(Op) /\ todo[th] # <<>> /\ Rewrites(th, ops, kept)
      /\ \A o \in new : o[1] \notin Marks /\ ~Closing(o)
  BY <1>1 DEF Ordinary
<1>4. /\ todo' \in [Threads -> Seq(Op)]
      /\ Head(todo[th]) \in Op /\ Left(th) = {Head(todo[th])} \cup Range(Tail(todo[th]))
      /\ Left(th)' = new \cup Range(Rest_(th, kept)) /\ new \subseteq Op
      /\ \A x \in Threads \ {th} : todo'[x] = todo[x] /\ Left(x)' = Left(x)
  BY <1>1, <1>2, <1>3, RewritesLeft
<1>5. Left(th)' = new \cup After(th, kept)
  BY <1>4 DEF Rest_, After, Left
<1>6. After(th, kept) \subseteq Left(th) /\ (kept => After(th, kept) = Left(th))
      /\ Left(th) \ {Head(todo[th])} \subseteq After(th, kept)
  BY <1>4 DEF After
<1>7. ~kept => Head(todo[th])[1] \notin Marks
  BY <1>1 DEF Ordinary
<1>8. ASSUME NEW k \in Marks
      PROVE  (\E o \in Left(th)' : o[1] = k) <=> (\E o \in Left(th) : o[1] = k)
  BY <1>3, <1>5, <1>6, <1>7
<1>9. \A x \in Threads : \A k \in Marks : Has(x, k)' <=> Has(x, k)
  BY <1>4, <1>8 DEF Has
<1>10. \A x \in Threads : \A o : Closing(o) => (o \in Left(x)' => o \in Left(x))
  BY <1>3, <1>4, <1>5, <1>6
<1> QED BY <1>3, <1>4, <1>5, <1>9, <1>10

\* Such a step keeps the scripts as they should be.
LEMMA OrdinaryScripts ==
  ASSUME Types, Scripts, NEW th \in Threads, NEW new, NEW kept \in BOOLEAN, Moved(th, new, kept),
         UNCHANGED scenario
  PROVE  Scripts'
<1>1. PICK ops : Ordinary(th, ops, kept) /\ Range(ops) = new
  BY DEF Moved
<1>2. /\ todo[th] # <<>> /\ Left(th)' = new \cup After(th, kept)
      /\ Head(todo[th]) \in Op /\ Left(th) = {Head(todo[th])} \cup Range(Tail(todo[th]))
      /\ \A x \in Threads \ {th} : todo'[x] = todo[x] /\ Left(x)' = Left(x)
      /\ \A x \in Threads : \A k \in Marks : Has(x, k)' <=> Has(x, k)
      /\ \A x \in Threads : \A o : Closing(o) => (o \in Left(x)' => o \in Left(x))
  BY OrdinaryLeft
<1>3. /\ \A o \in new : /\ o[1] \notin Marks /\ ~Closing(o)
                        /\ o[1] \in {"wait", "done"} => kept
                        /\ o[1] = "done" => th \in Workers(Home(o[2]))
      /\ kept => Head(todo[th])[1] = "poll"
  BY <1>1 DEF Ordinary
<1>4. After(th, kept) \subseteq Left(th) /\ (kept => Has(th, "poll")) /\ "main" \in Threads
  BY <1>2, <1>3, Cast DEF After, Has
<1>5. InOrder(todo'[th], Lasting)
  <2>1. todo \in [Threads -> Seq(Op)]
    BY DEF Types
  <2>2. /\ ops \in Seq(Op) /\ Rewrites(th, ops, kept) /\ InOrder(todo[th], Lasting) /\ InOrder(ops, Lasting)
    BY <1>1 DEF Ordinary, Scripts, Lasting
  <2>3. \A o \in Range(ops) :
          IF kept THEN RankOf(Head(todo[th])) = 6 /\ RankOf(o) < 6
          ELSE RankOf(o) <= RankOf(Head(todo[th]))
    BY <1>1 DEF Ordinary, RankOf, Rank
  <2>4. \A o \in Range(ops) :
          IF kept THEN Follows(Rank(Head(todo[th]), Lasting), Rank(o, Lasting))
          ELSE Rank(o, Lasting) <= Rank(Head(todo[th]), Lasting)
    BY <2>3 DEF Follows, RankOf
  <2> QED BY <1>2, <2>1, <2>2, <2>4, RewritesOrder
<1>6. \A x \in Threads : InOrder(todo'[x], Lasting)
  BY <1>2, <1>5 DEF Scripts, Lasting
<1>7. ASSUME NEW x \in Threads, NEW o \in Left(x)'
      PROVE  /\ o[1] \in {"start", "mainpool", "finals"} \/ Closing(o) => x = "main"
             /\ o[1] \in {"poll", "wait"} => \E p \in Pools : x \in Workers(p)
             /\ o[1] = "done" => x \in Workers(Home(o[2]))
             /\ o[1] \in {"done", "wait"} => Has(x, "poll")
  <2>1. CASE o \in Left(x)
    BY <2>1 DEF Scripts
  <2>2. CASE o \notin Left(x)
    <3>1. x = th /\ o \in new
      BY <2>2, <1>2, <1>4
    <3>2. Has(th, "poll") => \E p \in Pools : th \in Workers(p)
      BY DEF Scripts, Has
    <3> QED BY <3>1, <3>2, <1>3, <1>4 DEF Marks
  <2> QED BY <2>1, <2>2
<1>8. \A x \in Threads : Has(x, "poll") <=> Has(x, "poll")'
  BY <1>2 DEF Marks
<1>9. \A x \in Threads : \A o \in Left(x)' :
       /\ o[1] \in {"start", "mainpool", "finals"} \/ Closing(o) => x = "main"
       /\ o[1] \in {"poll", "wait"} => \E p \in Pools : x \in Workers(p)'
       /\ o[1] = "done" => x \in Workers(Home(o[2]))'
       /\ o[1] \in {"done", "wait"} => Has(x, "poll")'
  BY <1>7, <1>8 DEF Workers, Home
<1>10. /\ Has("main", "start")' <=> Has("main", "start")
       /\ Has("main", "mainpool")' <=> Has("main", "mainpool")
       /\ Has("main", "poll")' <=> Has("main", "poll")
       /\ Has("main", "finals")' <=> Has("main", "finals")
  BY <1>2, <1>4 DEF Marks
<1>11. Has("main", "finals")' => \A o \in Left("main")' : ~Closing(o)
  BY <1>2, <1>4, <1>10 DEF Scripts
<1> QED BY <1>6, <1>9, <1>10, <1>11 DEF Scripts, Lasting

\* The sequences that the actions put before the rest of a thread's work.
LEMMA Uniform ==
  ASSUME NEW s \in Seq(Op), NEW lasting, \A o \in Range(s) : Rank(o, lasting) = 2
  PROVE  InOrder(s, lasting)
<1>1. \A i \in DOMAIN s : s[i] \in Range(s)
  BY DEF Range
<1> QED BY <1>1 DEF InOrder, Follows

LEMMA UniformThen ==
  ASSUME NEW s \in Seq(Op), NEW b \in Op, NEW lasting, \A o \in Range(s) : Rank(o, lasting) = 2,
         Rank(b, lasting) \in {2, 3}
  PROVE  s \o <<b>> \in Seq(Op) /\ InOrder(s \o <<b>>, lasting) /\ Range(s \o <<b>>) = Range(s) \cup {b}
<1>1. <<b>> \in Seq(Op) /\ Range(<<b>>) = {b}
  <2>1. <<b>> \in Seq(Op)
    OBVIOUS
  <2> QED BY <2>1, RangeOf
<1>2. s \o <<b>> \in Seq(Op) /\ Range(s \o <<b>>) = Range(s) \cup {b}
  <2>1. \A x, y \in Seq(Op) : x \o y \in Seq(Op) /\ Range(x \o y) = Range(x) \cup Range(y)
    BY RangeJoin
  <2>2. s \in Seq(Op) /\ <<b>> \in Seq(Op)
    BY <1>1
  <2>3. s \o <<b>> \in Seq(Op) /\ Range(s \o <<b>>) = Range(s) \cup Range(<<b>>)
    BY <2>1, <2>2, Zenon
  <2> QED BY <1>1, <2>3
<1>3. /\ Len(s) \in Nat /\ DOMAIN s = 1 .. Len(s) /\ DOMAIN (s \o <<b>>) = 1 .. (Len(s) + 1)
      /\ \A i \in 1 .. (Len(s) + 1) : (s \o <<b>>)[i] = IF i <= Len(s) THEN s[i] ELSE <<b>>[i - Len(s)]
  BY <1>1, ConcatProperties, LenProperties
<1>4. \A i \in 1 .. Len(s) : Rank((s \o <<b>>)[i], lasting) = 2
  BY <1>3 DEF Range
<1>5. (s \o <<b>>)[Len(s) + 1] = b
  BY <1>3
<1>6. \A i, j \in 1 .. (Len(s) + 1) : i < j => Follows(Rank((s \o <<b>>)[j], lasting), Rank((s \o <<b>>)[i], lasting))
  BY <1>3, <1>4, <1>5 DEF Follows
<1> QED BY <1>2, <1>3, <1>6 DEF InOrder

LEMMA Pair ==
  ASSUME NEW a, NEW b
  PROVE  <<a>> \o <<b>> = <<a, b>>
<1> DEFINE S == {a, b}
<1>1. <<a>> \in Seq(S) /\ <<b>> \in Seq(S) /\ <<a, b>> \in Seq(S)
  OBVIOUS
<1>2. Len(<<a>>) = 1 /\ Len(<<b>>) = 1 /\ Len(<<a, b>>) = 2
  OBVIOUS
<1>3. <<a>> \o <<b>> \in Seq(S) /\ Len(<<a>> \o <<b>>) = 2
      /\ \A i \in 1 .. 2 : (<<a>> \o <<b>>)[i] = IF i <= 1 THEN <<a>>[i] ELSE <<b>>[i - 1]
  BY <1>1, <1>2, ConcatProperties
<1>4. \A i \in 1 .. 2 : (<<a>> \o <<b>>)[i] = <<a, b>>[i]
  BY <1>3
<1> QED BY <1>1, <1>2, <1>3, <1>4, SeqEqual

LEMMA OpsOf ==
  ASSUME NEW S, IsFiniteSet(S), NEW k, \A x \in S : <<k, x>> \in Op
  PROVE  Ops(k, S) \in Seq(Op) /\ Range(Ops(k, S)) = {<<k, x>> : x \in S}
<1> DEFINE s == SetToSeq(S)
<1>1. s \in Seq(S) /\ DOMAIN s = 1 .. Len(s) /\ Len(s) \in Nat /\ Range(s) = S
  BY Listed
<1>2. Ops(k, S) = [i \in 1 .. Len(s) |-> <<k, s[i]>>]
  BY <1>1 DEF Ops
<1>3. \A i \in 1 .. Len(s) : s[i] \in S /\ Ops(k, S)[i] = <<k, s[i]>>
  BY <1>1, <1>2 DEF Range
<1>4. Ops(k, S) \in Seq(Op)
  BY <1>1, <1>2, <1>3
<1>5. \A x \in S : \E i \in 1 .. Len(s) : x = s[i]
  BY <1>1 DEF Range
<1>6. DOMAIN Ops(k, S) = 1 .. Len(s)
  BY <1>2
<1>7. \A y \in Range(Ops(k, S)) : \E x \in S : y = <<k, x>>
  BY <1>3, <1>6 DEF Range
<1>8. \A x \in S : <<k, x>> \in Range(Ops(k, S))
  BY <1>3, <1>5, <1>6 DEF Range
<1> QED BY <1>4, <1>7, <1>8

LEMMA HaltsOf ==
  ASSUME NEW S \in SUBSET Pools, NEW type \in {"NORMAL", "FORCE", "FINAL"}
  PROVE  Halts(type, S) \in Seq(Op) /\ Range(Halts(type, S)) = {<<"halt", p, type>> : p \in S}
<1> DEFINE s == SetToSeq(S)
<1>1. IsFiniteSet(S)
  BY PowerPlantAssumption, FS_Subset
<1>2. s \in Seq(S) /\ DOMAIN s = 1 .. Len(s) /\ Len(s) \in Nat /\ Range(s) = S
  BY <1>1, Listed
<1>3. Halts(type, S) = [i \in 1 .. Len(s) |-> <<"halt", s[i], type>>]
  BY <1>2 DEF Halts
<1>4. \A i \in 1 .. Len(s) : s[i] \in S /\ Halts(type, S)[i] = <<"halt", s[i], type>>
  BY <1>2, <1>3 DEF Range
<1>5. \A i \in 1 .. Len(s) : Halts(type, S)[i] \in Op
  BY <1>4, Operations
<1>6. Halts(type, S) \in Seq(Op)
  BY <1>2, <1>3, <1>5
<1>7. \A p \in S : \E i \in 1 .. Len(s) : p = s[i]
  BY <1>2 DEF Range
<1>8. DOMAIN Halts(type, S) = 1 .. Len(s)
  BY <1>3
<1>9. \A y \in Range(Halts(type, S)) : \E p \in S : y = <<"halt", p, type>>
  BY <1>4, <1>8 DEF Range
<1>10. \A p \in S : <<"halt", p, type>> \in Range(Halts(type, S))
  BY <1>4, <1>7, <1>8 DEF Range
<1> QED BY <1>6, <1>9, <1>10

\* The end of the pools comes late.
LEMMA ClosingIsLate ==
  ASSUME NEW o, Closing(o)
  PROVE  RankOf(o) \in {7, 8}
<1>1. o[1] \in {"join", "halt"}
  BY DEF Closing
<1> QED BY <1>1 DEF RankOf, Rank

\* A call that is over, is replaced by one or two of its steps, or by a list of
\* calls.
LEMMA Ends ==
  ASSUME NEW th \in Threads, todo[th] # <<>>, Head(todo[th])[1] \notin Marks, Do(th, <<>>)
  PROVE  Moved(th, {}, FALSE)
<1>1. <<>> \in Seq(Op) /\ Range(<<>>) = {} /\ InOrder(<<>>, Lasting)
  BY RangeOf DEF InOrder
<1>2. Ordinary(th, <<>>, FALSE)
  BY <1>1 DEF Ordinary, Do, Rewrites, Rest_
<1> QED BY <1>1, <1>2 DEF Moved

LEMMA Becomes ==
  ASSUME NEW th \in Threads, todo[th] # <<>>, Head(todo[th])[1] \notin Marks,
         NEW a \in Op, Do(th, <<a>>), a[1] \notin Marks \cup {"wait", "done"}, ~Closing(a),
         RankOf(a) <= RankOf(Head(todo[th]))
  PROVE  Moved(th, {a}, FALSE)
<1>1. <<a>> \in Seq(Op) /\ Range(<<a>>) = {a} /\ InOrder(<<a>>, Lasting)
  BY RangeOf DEF InOrder
<1>2. Ordinary(th, <<a>>, FALSE)
  BY <1>1 DEF Ordinary, Do, Rewrites, Rest_
<1> QED BY <1>1, <1>2 DEF Moved

LEMMA BecomesTwo ==
  ASSUME NEW th \in Threads, todo[th] # <<>>, Head(todo[th])[1] \notin Marks,
         NEW a \in Op, NEW b \in Op, Do(th, <<a, b>>),
         a[1] \notin Marks \cup {"wait", "done"}, ~Closing(a),
         b[1] \notin Marks \cup {"wait", "done"}, ~Closing(b),
         RankOf(a) < RankOf(b), RankOf(b) <= RankOf(Head(todo[th]))
  PROVE  Moved(th, {a, b}, FALSE)
<1>1. <<a, b>> \in Seq(Op) /\ Range(<<a, b>>) = {a, b}
  BY RangeOf
<1>2. InOrder(<<a, b>>, Lasting)
  BY DEF InOrder, Follows, RankOf
<1>3. RankOf(a) \in Nat /\ RankOf(b) \in Nat /\ RankOf(Head(todo[th])) \in Nat
  BY DEF RankOf, Rank
<1>4. Ordinary(th, <<a, b>>, FALSE)
  BY <1>1, <1>2, <1>3 DEF Ordinary, Do, Rewrites, Rest_
<1> QED BY <1>1, <1>4 DEF Moved

LEMMA BecomesCalls ==
  ASSUME NEW th \in Threads, todo[th] # <<>>, Head(todo[th])[1] \notin Marks,
         NEW ops \in Seq(Op), Do(th, ops), InOrder(ops, Lasting), RankOf(Head(todo[th])) = 2,
         \A o \in Range(ops) : o[1] \notin Marks \cup {"wait", "done"} /\ RankOf(o) = 2
  PROVE  Moved(th, Range(ops), FALSE)
<1>1. \A o \in Range(ops) : ~Closing(o)
  BY ClosingIsLate
<1>2. Ordinary(th, ops, FALSE)
  BY <1>1 DEF Ordinary, Do, Rewrites, Rest_
<1> QED BY <1>2 DEF Moved

\* What a worker does before it looks for work again.
LEMMA Serving ==
  ASSUME NEW th \in Threads, todo[th] # <<>>, Head(todo[th])[1] = "poll",
         NEW ops \in Seq(Op), todo' = [todo EXCEPT ![th] = ops \o @], InOrder(ops, Lasting),
         \A o \in Range(ops) : /\ o[1] \notin Marks /\ RankOf(o) < 6
                               /\ o[1] = "done" => th \in Workers(Home(o[2]))
  PROVE  Moved(th, Range(ops), TRUE)
<1>1. \A o \in Range(ops) : ~Closing(o)
  BY ClosingIsLate
<1>2. Ordinary(th, ops, TRUE)
  BY <1>1 DEF Ordinary, Rewrites, Rest_
<1> QED BY <1>2 DEF Moved

LEMMA ServingOne ==
  ASSUME NEW th \in Threads, todo[th] # <<>>, Head(todo[th])[1] = "poll",
         NEW a \in Op, todo' = [todo EXCEPT ![th] = <<a>> \o @],
         a[1] \notin Marks \cup {"done"}, RankOf(a) < 6
  PROVE  Moved(th, {a}, TRUE)
<1>1. <<a>> \in Seq(Op) /\ Range(<<a>>) = {a} /\ InOrder(<<a>>, Lasting) /\ ~Closing(a)
  BY RangeOf, ClosingIsLate DEF InOrder
<1>2. Ordinary(th, <<a>>, TRUE)
  BY <1>1 DEF Ordinary, Rewrites, Rest_
<1> QED BY <1>1, <1>2 DEF Moved

-----------------------------------------------------------------------------
(* What each action does to the work of its thread.                        *)

LEMMA HeadOp ==
  ASSUME Types, NEW th \in Threads, todo[th] # <<>>
  PROVE  /\ Head(todo[th]) \in Op /\ Head(todo[th]) \in Left(th) /\ todo[th] \in Seq(Op)
         /\ Left(th) = {Head(todo[th])} \cup Range(Tail(todo[th]))
         /\ Head(todo[th]) = todo[th][1] /\ 1 \in DOMAIN todo[th]
<1>1. todo[th] \in Seq(Op)
  BY DEF Types
<1>2. Len(todo[th]) > 0
  BY <1>1, EmptySeq, LenProperties
<1> QED BY <1>1, <1>2, RangeSplit, LenProperties DEF Left

LEMMA NotifyMoves ==
  ASSUME Types, NEW th \in Threads, Notify(th)
  PROVE  Head(todo[th]) \in Op /\ Head(todo[th])[1] = "notify" /\ Moved(th, {}, FALSE)
<1>1. At(th, "notify") /\ Do(th, <<>>)
  BY DEF Notify
<1>2. todo[th] # <<>> /\ Head(todo[th])[1] = "notify" /\ Head(todo[th])[1] \notin Marks
  BY <1>1 DEF At, Marks
<1> QED BY <1>1, <1>2, Ends, HeadOp

LEMMA UnregisterMoves ==
  ASSUME Types, NEW th \in Threads, Unregister(th)
  PROVE  Head(todo[th]) \in Op /\ Head(todo[th])[1] = "unregister" /\ Moved(th, {}, FALSE)
<1>1. At(th, "unregister") /\ Do(th, <<>>)
  BY DEF Unregister
<1>2. todo[th] # <<>> /\ Head(todo[th])[1] = "unregister" /\ Head(todo[th])[1] \notin Marks
  BY <1>1 DEF At, Marks
<1> QED BY <1>1, <1>2, Ends, HeadOp

LEMMA AddIdleMoves ==
  ASSUME Types, NEW th \in Threads, AddIdle(th)
  PROVE  Head(todo[th]) \in Op /\ Head(todo[th])[1] = "add" /\ Moved(th, {}, FALSE)
<1>1. At(th, "add") /\ Do(th, <<>>)
  BY DEF AddIdle
<1>2. todo[th] # <<>> /\ Head(todo[th])[1] = "add" /\ Head(todo[th])[1] \notin Marks
  BY <1>1 DEF At, Marks
<1> QED BY <1>1, <1>2, Ends, HeadOp

LEMMA RemoveIdleMoves ==
  ASSUME Types, NEW th \in Threads, RemoveIdle(th)
  PROVE  Head(todo[th]) \in Op /\ Head(todo[th])[1] = "unbind" /\ Moved(th, {}, FALSE)
<1>1. At(th, "unbind") /\ Do(th, <<>>)
  BY DEF RemoveIdle
<1>2. todo[th] # <<>> /\ Head(todo[th])[1] = "unbind" /\ Head(todo[th])[1] \notin Marks
  BY <1>1 DEF At, Marks
<1> QED BY <1>1, <1>2, Ends, HeadOp

LEMMA RemoveIdleFromAllMoves ==
  ASSUME Types, NEW th \in Threads, RemoveIdleFromAll(th)
  PROVE  Head(todo[th]) \in Op /\ Head(todo[th])[1] = "unbindall" /\ Moved(th, {}, FALSE)
<1>1. At(th, "unbindall") /\ Do(th, <<>>)
  BY DEF RemoveIdleFromAll
<1>2. todo[th] # <<>> /\ Head(todo[th])[1] = "unbindall" /\ Head(todo[th])[1] \notin Marks
  BY <1>1 DEF At, Marks
<1> QED BY <1>1, <1>2, Ends, HeadOp

LEMMA BeginMoves ==
  ASSUME Types, NEW th \in Threads, Begin(th)
  PROVE  Head(todo[th]) \in Op /\ Head(todo[th])[1] = "begin" /\ Moved(th, {}, FALSE)
<1>1. At(th, "begin") /\ Do(th, <<>>)
  BY DEF Begin
<1>2. todo[th] # <<>> /\ Head(todo[th])[1] = "begin" /\ Head(todo[th])[1] \notin Marks
  BY <1>1 DEF At, Marks
<1> QED BY <1>1, <1>2, Ends, HeadOp

LEMMA AddIdleToAllMoves ==
  ASSUME Types, NEW th \in Threads, AddIdleToAll(th)
  PROVE  /\ Head(todo[th]) \in Op /\ Head(todo[th])[1] = "bindall"
         /\ Moved(th, {<<"notify", "main", TRUE, {}>>}, FALSE)
<1> DEFINE h == Head(todo[th])
           a == <<"notify", "main", TRUE, {}>>
<1>1. At(th, "bindall") /\ Do(th, <<a>>)
  BY DEF AddIdleToAll, Arg
<1>2. todo[th] # <<>> /\ h \in Op /\ h[1] = "bindall" /\ h[1] \notin Marks
  BY <1>1, HeadOp DEF At, Marks
<1>3. a \in Op
  BY <1>2, Arguments, Operations, Cast
<1>4. a[1] \notin Marks \cup {"wait", "done"} /\ ~Closing(a) /\ RankOf(a) <= RankOf(h)
  BY <1>2 DEF Marks, Closing, RankOf, Rank
<1> QED BY <1>1, <1>2, <1>3, <1>4, Becomes

LEMMA EnqueueMoves ==
  ASSUME Types, NEW th \in Threads, Enqueue(th)
  PROVE  /\ Head(todo[th]) \in Op /\ Head(todo[th])[1] = "enqueue"
         /\ Moved(th, {<<"notify", Home(Head(todo[th])[2]), Head(todo[th])[3], {Head(todo[th])[2]}>>}, FALSE)
<1> DEFINE h == Head(todo[th])
           a == <<"notify", Home(h[2]), h[3], {h[2]}>>
<1>1. At(th, "enqueue") /\ Do(th, <<a>>)
  BY DEF Enqueue, Arg
<1>2. todo[th] # <<>> /\ h \in Op /\ h[1] = "enqueue" /\ h[1] \notin Marks
  BY <1>1, HeadOp DEF At, Marks
<1>3. h[2] \in Tasks /\ h[3] \in BOOLEAN /\ Home(h[2]) \in Pools
  BY <1>2, Arguments, Cast
<1>4. a \in Op
  BY <1>3, Operations
<1>5. a[1] \notin Marks \cup {"wait", "done"} /\ ~Closing(a) /\ RankOf(a) <= RankOf(h)
  BY <1>2 DEF Marks, Closing, RankOf, Rank
<1> QED BY <1>1, <1>2, <1>4, <1>5, Becomes

LEMMA GetPoolMoves ==
  ASSUME Types, NEW th \in Threads, GetPool(th)
  PROVE  /\ Head(todo[th]) \in Op
         /\ \/ /\ Head(todo[th])[1] = "submit"
               /\ Moved(th, {<<"route", Head(todo[th])[2]>>}, FALSE)
            \/ /\ Head(todo[th])[1] = "bind"
               /\ Moved(th, {<<"add", Head(todo[th])[2], Head(todo[th])[3]>>}, FALSE)
<1> DEFINE h == Head(todo[th])
           a == IF h[1] = "submit" THEN <<"route", h[2]>> ELSE <<"add", h[2], h[3]>>
<1>1. todo[th] # <<>> /\ h \in Op /\ h[1] \in {"submit", "bind"} /\ Do(th, Got(th))
  BY HeadOp DEF GetPool, Wants, At
<1>2. Do(th, <<a>>)
  BY <1>1 DEF Got, Arg
<1>3. a \in Op
  BY <1>1, Arguments, Operations
<1>4. /\ a[1] \notin Marks \cup {"wait", "done"} /\ ~Closing(a) /\ RankOf(a) <= RankOf(h)
      /\ h[1] \notin Marks
  BY <1>1 DEF Marks, Closing, RankOf, Rank
<1>5. Moved(th, {a}, FALSE)
  BY <1>1, <1>2, <1>3, <1>4, Becomes
<1> QED BY <1>1, <1>5

LEMMA MakePoolMoves ==
  ASSUME Types, NEW th \in Threads, MakePool(th)
  PROVE  /\ Head(todo[th]) \in Op /\ Wanted(th) \in Pools
         /\ \/ /\ Head(todo[th])[1] = "submit" /\ Wanted(th) = Home(Head(todo[th])[2])
               /\ Moved(th, {<<"build", Wanted(th)>>, <<"route", Head(todo[th])[2]>>}, FALSE)
            \/ /\ Head(todo[th])[1] = "bind"
               /\ Moved(th, {<<"build", Wanted(th)>>, <<"add", Head(todo[th])[2], Head(todo[th])[3]>>}, FALSE)
<1> DEFINE h == Head(todo[th])
           a == <<"build", Wanted(th)>>
           b == IF h[1] = "submit" THEN <<"route", h[2]>> ELSE <<"add", h[2], h[3]>>
<1>1. todo[th] # <<>> /\ h \in Op /\ h[1] \in {"submit", "bind"} /\ Do(th, <<a>> \o Got(th))
  BY HeadOp DEF MakePool, Wants, At
<1>2. Wanted(th) \in Pools /\ (h[1] = "submit" => Wanted(th) = Home(h[2]))
  BY <1>1, Arguments, Cast DEF Wanted, Arg
<1>3. Got(th) = <<b>>
  BY <1>1 DEF Got, Arg
<1>4. <<a>> \o <<b>> = <<a, b>>
  BY Pair
<1>5. Do(th, <<a, b>>)
  BY <1>1, <1>3, <1>4
<1>6. a \in Op /\ b \in Op
  BY <1>1, <1>2, Arguments, Operations
<1>7. /\ a[1] \notin Marks \cup {"wait", "done"} /\ ~Closing(a)
      /\ b[1] \notin Marks \cup {"wait", "done"} /\ ~Closing(b) /\ RankOf(b) <= RankOf(h)
      /\ h[1] \notin Marks /\ RankOf(a) < RankOf(b)
  BY <1>1 DEF Marks, Closing, RankOf, Rank
<1>8. Moved(th, {a, b}, FALSE)
  BY <1>1, <1>5, <1>6, <1>7, BecomesTwo
<1> QED BY <1>1, <1>2, <1>8

LEMMA RouteMoves ==
  ASSUME Types, NEW th \in Threads, Route(th)
  PROVE  /\ Head(todo[th]) \in Op /\ Head(todo[th])[1] = "route"
         /\ IF Head(todo[th])[2] \in scenario.sync /\ group.taken THEN Moved(th, {}, FALSE)
            ELSE Moved(th, {<<"accept", Head(todo[th])[2], ~CurrentIdle(th)>>}, FALSE)
<1> DEFINE h == Head(todo[th])
           a == <<"accept", h[2], ~CurrentIdle(th)>>
<1>1. todo[th] # <<>> /\ h \in Op /\ h[1] = "route" /\ h[1] \notin Marks
  BY HeadOp DEF Route, At, Marks
<1>2. CASE h[2] \in scenario.sync /\ group.taken
  BY <1>1, <1>2, Ends DEF Route, Arg
<1>3. CASE ~(h[2] \in scenario.sync /\ group.taken)
  <2>1. Do(th, <<a>>)
    BY <1>3 DEF Route, Arg
  <2>2. CurrentIdle(th) \in BOOLEAN
    BY DEF CurrentIdle
  <2>3. a \in Op
    BY <1>1, <2>2, Arguments, Operations
  <2>4. a[1] \notin Marks \cup {"wait", "done"} /\ ~Closing(a) /\ RankOf(a) <= RankOf(h)
    BY <1>1 DEF Marks, Closing, RankOf, Rank
  <2>5. Moved(th, {a}, FALSE)
    BY <1>1, <2>1, <2>3, <2>4, Becomes
  <2> QED BY <1>1, <1>3, <2>5
<1> QED BY <1>2, <1>3


\* Handing the token over ends a task or a submission.
HandedSet == IF group.waiting = <<>> THEN {}
             ELSE {<<"enqueue", Head(group.waiting)[1], Head(group.waiting)[2]>>,
                   <<"unregister", Home(Head(group.waiting)[1])>>}
LEMMA HandoverMoves ==
  ASSUME Types, NEW th \in Threads, todo[th] # <<>>, Head(todo[th])[1] \in {"accept", "done"}, Do(th, Handover)
  PROVE  /\ Moved(th, HandedSet, FALSE)
         /\ group.waiting # <<>> => /\ Head(group.waiting)[1] \in Tasks /\ Head(group.waiting)[2] \in BOOLEAN
                                    /\ Home(Head(group.waiting)[1]) \in Pools
<1> DEFINE h == Head(todo[th])
           w == Head(group.waiting)
           a == <<"enqueue", w[1], w[2]>>
           b == <<"unregister", Home(w[1])>>
<1>1. h[1] \notin Marks
  BY DEF Marks
<1>2. CASE group.waiting = <<>>
  BY <1>1, <1>2, Ends DEF Handover, HandedSet
<1>3. CASE group.waiting # <<>>
  <2>1. group.waiting \in Seq(Tasks \X BOOLEAN)
    BY DEF Types
  <2>2. w \in Tasks \X BOOLEAN
    BY <1>3, <2>1, RangeSplit
  <2>3. w[1] \in Tasks /\ w[2] \in BOOLEAN /\ Home(w[1]) \in Pools
    BY <2>2, Cast
  <2>4. a \in Op /\ b \in Op
    BY <2>3, Operations
  <2>5. /\ a[1] \notin Marks \cup {"wait", "done"} /\ ~Closing(a)
        /\ b[1] \notin Marks \cup {"wait", "done"} /\ ~Closing(b) /\ RankOf(b) <= RankOf(h)
        /\ RankOf(a) < RankOf(b)
    BY DEF Marks, Closing, RankOf, Rank
  <2>6. Do(th, <<a, b>>)
    BY <1>3 DEF Handover
  <2>7. Moved(th, {a, b}, FALSE)
    BY <1>1, <2>4, <2>5, <2>6, BecomesTwo
  <2> QED BY <1>3, <2>3, <2>7 DEF HandedSet
<1> QED BY <1>2, <1>3

LEMMA AcceptMoves ==
  ASSUME Types, NEW th \in Threads, Accept(th)
  PROVE  /\ Head(todo[th]) \in Op /\ Head(todo[th])[1] = "accept"
         /\ IF pool[Home(Head(todo[th])[2])].accept
            THEN Moved(th, {<<"enqueue", Head(todo[th])[2], Head(todo[th])[3]>>}, FALSE)
            ELSE IF Head(todo[th])[2] \in scenario.sync THEN Moved(th, HandedSet, FALSE)
            ELSE Moved(th, {}, FALSE)
<1> DEFINE h == Head(todo[th])
           a == <<"enqueue", h[2], h[3]>>
<1>1. todo[th] # <<>> /\ h \in Op /\ h[1] = "accept" /\ h[1] \notin Marks
  BY HeadOp DEF Accept, At, Marks
<1>2. CASE pool[Home(h[2])].accept
  <2>1. Do(th, <<a>>)
    BY <1>2 DEF Accept, Arg
  <2>2. a \in Op
    BY <1>1, Arguments, Operations
  <2>3. a[1] \notin Marks \cup {"wait", "done"} /\ ~Closing(a) /\ RankOf(a) <= RankOf(h)
    BY <1>1 DEF Marks, Closing, RankOf, Rank
  <2>4. Moved(th, {a}, FALSE)
    BY <1>1, <2>1, <2>2, <2>3, Becomes
  <2> QED BY <1>1, <1>2, <2>4
<1>3. CASE ~pool[Home(h[2])].accept /\ h[2] \in scenario.sync
  <2>1. Do(th, Handover)
    BY <1>3 DEF Accept, Arg
  <2> QED BY <1>1, <1>3, <2>1, HandoverMoves
<1>4. CASE ~pool[Home(h[2])].accept /\ h[2] \notin scenario.sync
  <2>1. Do(th, <<>>)
    BY <1>4 DEF Accept, Arg
  <2> QED BY <1>1, <1>4, <2>1, Ends
<1> QED BY <1>2, <1>3, <1>4

LEMMA DoneMoves ==
  ASSUME Types, NEW th \in Threads, Done(th)
  PROVE  /\ Head(todo[th]) \in Op /\ Head(todo[th])[1] = "done"
         /\ IF Head(todo[th])[2] \in scenario.sync THEN Moved(th, HandedSet, FALSE)
            ELSE Moved(th, {}, FALSE)
<1> DEFINE h == Head(todo[th])
<1>1. todo[th] # <<>> /\ h \in Op /\ h[1] = "done" /\ h[1] \notin Marks
  BY HeadOp DEF Done, At, Marks
<1>2. CASE h[2] \in scenario.sync
  <2>1. Do(th, Handover)
    BY <1>2 DEF Done, Arg
  <2> QED BY <1>1, <1>2, <2>1, HandoverMoves
<1>3. CASE h[2] \notin scenario.sync
  <2>1. Do(th, <<>>)
    BY <1>3 DEF Done, Arg
  <2> QED BY <1>1, <1>3, <2>1, Ends
<1> QED BY <1>2, <1>3

LEMMA SubmitsOf ==
  ASSUME NEW S \in SUBSET Tasks
  PROVE  /\ Submits(S) \in Seq(Op) /\ Range(Submits(S)) = {<<"submit", t>> : t \in S}
         /\ InOrder(Submits(S), Lasting) /\ \A o \in Range(Submits(S)) : o[1] = "submit" /\ RankOf(o) = 2
<1>1. IsFiniteSet(S) /\ \A t \in S : <<"submit", t>> \in Op
  BY PowerPlantAssumption, FS_Subset, Operations
<1>2. Submits(S) \in Seq(Op) /\ Range(Submits(S)) = {<<"submit", t>> : t \in S}
  BY <1>1, OpsOf DEF Submits
<1>3. \A o \in Range(Submits(S)) : o[1] = "submit"
  BY <1>2
<1>4. \A o \in Range(Submits(S)) : Rank(o, Lasting) = 2
  BY <1>3 DEF Rank, Closing
<1> QED BY <1>2, <1>3, <1>4, Uniform DEF RankOf

\* A worker at the loop of its pool.
LEMMA AtPoll ==
  ASSUME Types, Scripts, NEW th \in Threads, At(th, "poll")
  PROVE  /\ todo[th] # <<>> /\ Head(todo[th]) = <<"poll">> /\ Head(todo[th])[1] = "poll"
         /\ PoolOf(th) \in Pools /\ th \in Workers(PoolOf(th))
<1>1. todo[th] # <<>> /\ Head(todo[th])[1] = "poll"
  BY DEF At
<1>2. Head(todo[th]) \in Op /\ Head(todo[th]) \in Left(th)
  BY <1>1, HeadOp
<1>3. Head(todo[th]) = <<"poll">>
  BY <1>1, <1>2, Arguments
<1>4. PICK p \in Pools : th \in Workers(p)
  BY <1>1, <1>2 DEF Scripts
<1>5. PoolOf(th) = p
  BY <1>4, PoolOfWorker
<1> QED BY <1>1, <1>3, <1>4, <1>5

LEMMA PollLatchedMoves ==
  ASSUME Types, NEW th \in Threads, Scripts, PollLatched(th)
  PROVE  /\ todo[th] # <<>> /\ Head(todo[th]) = <<"poll">> /\ PoolOf(th) \in Pools
         /\ Moved(th, {<<"submit", t>> : t \in pool[PoolOf(th)].idle_tasks}, TRUE)
<1> DEFINE p == PoolOf(th)
           S == pool[p].idle_tasks
<1>1. todo[th] # <<>> /\ Head(todo[th]) = <<"poll">> /\ p \in Pools /\ Head(todo[th])[1] = "poll"
  BY AtPoll DEF PollLatched, Serves
<1>2. S \subseteq Tasks /\ todo' = [todo EXCEPT ![th] = Submits(S) \o @]
  BY <1>1 DEF PollLatched, Types
<1>3. /\ Submits(S) \in Seq(Op) /\ Range(Submits(S)) = {<<"submit", t>> : t \in S}
      /\ InOrder(Submits(S), Lasting) /\ \A o \in Range(Submits(S)) : o[1] = "submit" /\ RankOf(o) = 2
  BY <1>2, SubmitsOf
<1>4. \A o \in Range(Submits(S)) : /\ o[1] \notin Marks /\ RankOf(o) < 6
                                   /\ o[1] = "done" => th \in Workers(Home(o[2]))
  BY <1>3 DEF Marks
<1>5. Moved(th, Range(Submits(S)), TRUE)
  BY <1>1, <1>2, <1>3, <1>4, Serving
<1> QED BY <1>1, <1>3, <1>5

LEMMA PollTakeMoves ==
  ASSUME Types, NEW th \in Threads, Scripts, Places, PollTake(th)
  PROVE  /\ todo[th] # <<>> /\ Head(todo[th]) = <<"poll">> /\ PoolOf(th) \in Pools
         /\ Head(pool[PoolOf(th)].queue) \in Range(pool[PoolOf(th)].queue)
         /\ Head(pool[PoolOf(th)].queue) \in Tasks
         /\ Range(pool[PoolOf(th)].queue) = {Head(pool[PoolOf(th)].queue)} \cup Range(Tail(pool[PoolOf(th)].queue))
         /\ Moved(th, Range(scenario.body[Head(pool[PoolOf(th)].queue)])
                        \cup {<<"done", Head(pool[PoolOf(th)].queue)>>}, TRUE)
<1> DEFINE p == PoolOf(th)
           t == Head(pool[p].queue)
           body == scenario.body[t]
           d == <<"done", t>>
<1>1. /\ todo[th] # <<>> /\ Head(todo[th]) = <<"poll">> /\ p \in Pools /\ Head(todo[th])[1] = "poll"
      /\ th \in Workers(p)
  BY AtPoll DEF PollTake, Serves
<1>2. pool[p].queue \in Seq(Tasks) /\ pool[p].queue # <<>>
  BY <1>1 DEF PollTake, Take, Types
<1>3. /\ t \in Range(pool[p].queue) /\ t \in Tasks /\ Home(t) = p
      /\ Range(pool[p].queue) = {t} \cup Range(Tail(pool[p].queue))
  BY <1>1, <1>2, RangeSplit DEF Places
<1>4. body \in Seq(Calls)
  BY <1>3, Cast
<1>5. body \in Seq(Op) /\ \A o \in Range(body) : o \in Calls
  <2>1. \A i \in DOMAIN body : body[i] \in Calls
    BY <1>4, ElementOfSeq, LenProperties
  <2> QED BY <1>4, <2>1, CallsAreOps, LenProperties DEF Range
<1>6. \A o \in Range(body) : Rank(o, Lasting) = 2 /\ o[1] \notin Marks \cup {"wait", "done"}
  BY <1>5, CallsAreOps DEF Marks
<1>7. d \in Op /\ RankOf(d) = 3 /\ d[1] = "done" /\ d[2] = t /\ d[1] \notin Marks
  BY <1>3, Operations DEF RankOf, Rank, Marks
<1>8. body \o <<d>> \in Seq(Op) /\ InOrder(body \o <<d>>, Lasting) /\ Range(body \o <<d>>) = Range(body) \cup {d}
  BY <1>5, <1>6, <1>7, UniformThen DEF RankOf
<1>9. todo' = [todo EXCEPT ![th] = body \o <<d>> \o @]
  BY DEF PollTake
<1>10. \A o \in Range(body \o <<d>>) : /\ o[1] \notin Marks /\ RankOf(o) < 6
                                       /\ o[1] = "done" => th \in Workers(Home(o[2]))
  BY <1>1, <1>3, <1>6, <1>7, <1>8 DEF RankOf
<1>11. Moved(th, Range(body \o <<d>>), TRUE)
  BY <1>1, <1>8, <1>9, <1>10, Serving
<1> QED BY <1>1, <1>3, <1>8, <1>11


\* What a worker that finds nothing fires.
FiredBy(th) ==
  LET p == PoolOf(th)
      i == Latched(th)
      j == IF Countable(p) THEN ThreadIdle(i, p, th) ELSE i
      out == Countable(p) /\ j.active[p] = 0 /\ ~j.pool[p]
      k == IF out THEN PoolIdle(j, p) ELSE j
  IN (IF LocalFires(i, j, p) THEN pool[p].idle_tasks ELSE {})
     \cup (IF out /\ k.active_pools = 0 THEN scheduler.idle_tasks ELSE {})

LEMMA PollIdleMoves ==
  ASSUME Types, NEW th \in Threads, Scripts, PollIdle(th)
  PROVE  /\ todo[th] # <<>> /\ Head(todo[th]) = <<"poll">> /\ PoolOf(th) \in Pools
         /\ IF FiredBy(th) = {} THEN Moved(th, {<<"wait">>}, TRUE)
            ELSE Moved(th, {<<"submit", t>> : t \in FiredBy(th)}, TRUE)
<1> DEFINE p == PoolOf(th)
           S == FiredBy(th)
<1>1. todo[th] # <<>> /\ Head(todo[th]) = <<"poll">> /\ p \in Pools /\ Head(todo[th])[1] = "poll"
  BY AtPoll DEF PollIdle, Serves
<1>2. IF S = {} THEN todo' = [todo EXCEPT ![th] = <<<<"wait">>>> \o @]
      ELSE todo' = [todo EXCEPT ![th] = Submits(S) \o @]
  BY DEF PollIdle, FiredBy
<1>3. pool[p].idle_tasks \subseteq Tasks /\ scheduler.idle_tasks \subseteq Tasks
  BY <1>1 DEF Types
<1>4. S \subseteq Tasks
  BY <1>3 DEF FiredBy
<1>5. CASE S = {}
  <2>1. <<"wait">> \in Op /\ RankOf(<<"wait">>) = 5
    BY Operations DEF RankOf, Rank, Simple
  <2>2. todo' = [todo EXCEPT ![th] = <<<<"wait">>>> \o @]
    BY <1>2, <1>5
  <2>3. <<"wait">>[1] \notin Marks \cup {"done"} /\ RankOf(<<"wait">>) < 6
    BY <2>1 DEF Marks
  <2>4. \A a \in Op : /\ todo' = [todo EXCEPT ![th] = <<a>> \o @]
                      /\ a[1] \notin Marks \cup {"done"} /\ RankOf(a) < 6
                      => Moved(th, {a}, TRUE)
    BY <1>1, ServingOne
  <2>5. Moved(th, {<<"wait">>}, TRUE)
    BY <2>1, <2>2, <2>3, <2>4
  <2> QED BY <1>1, <1>5, <2>5
<1>6. CASE S # {}
  <2>1. /\ Submits(S) \in Seq(Op) /\ Range(Submits(S)) = {<<"submit", t>> : t \in S}
        /\ InOrder(Submits(S), Lasting) /\ \A o \in Range(Submits(S)) : o[1] = "submit" /\ RankOf(o) = 2
    BY <1>4, SubmitsOf
  <2>2. \A o \in Range(Submits(S)) : /\ o[1] \notin Marks /\ RankOf(o) < 6
                                     /\ o[1] = "done" => th \in Workers(Home(o[2]))
    BY <2>1 DEF Marks
  <2>3. todo' = [todo EXCEPT ![th] = Submits(S) \o @]
    BY <1>2, <1>6
  <2>4. Moved(th, Range(Submits(S)), TRUE)
    BY <1>1, <2>1, <2>2, <2>3, Serving
  <2> QED BY <1>1, <1>6, <2>1, <2>4
<1> QED BY <1>5, <1>6

LEMMA WakeMoves ==
  ASSUME Types, NEW th \in Threads, Scripts, Wake(th)
  PROVE  /\ Head(todo[th]) \in Op /\ todo[th] # <<>> /\ Head(todo[th])[1] = "wait" /\ PoolOf(th) \in Pools
         /\ Moved(th, {}, FALSE) \/ UNCHANGED todo
<1>1. todo[th] # <<>> /\ Head(todo[th])[1] = "wait" /\ Head(todo[th])[1] \notin Marks
  BY DEF Wake, At, Marks
<1>2. Head(todo[th]) \in Op /\ Head(todo[th]) \in Left(th)
  BY <1>1, HeadOp
<1>3. PoolOf(th) \in Pools
  <2>1. PICK p \in Pools : th \in Workers(p)
    BY <1>1, <1>2 DEF Scripts
  <2> QED BY <2>1, PoolOfWorker
<1>4. Do(th, <<>>) \/ UNCHANGED todo
  BY DEF Wake
<1> QED BY <1>1, <1>2, <1>3, <1>4, Ends

LEMMA ShutdownMoves ==
  ASSUME Types, NEW th \in Threads, Shutdown(th)
  PROVE  /\ Head(todo[th]) \in Op /\ Head(todo[th])[1] = "shutdown"
         /\ Moved(th, {<<"submit", t>> : t \in scenario.shutdown} \cup {<<"stop", Head(todo[th])[2]>>}, FALSE)
<1> DEFINE h == Head(todo[th])
           S == scenario.shutdown
           b == <<"stop", h[2]>>
<1>1. todo[th] # <<>> /\ h \in Op /\ h[1] = "shutdown" /\ h[1] \notin Marks
  BY HeadOp DEF Shutdown, At, Marks
<1>2. /\ Submits(S) \in Seq(Op) /\ Range(Submits(S)) = {<<"submit", t>> : t \in S}
      /\ InOrder(Submits(S), Lasting) /\ \A o \in Range(Submits(S)) : o[1] = "submit" /\ RankOf(o) = 2
  BY Cast, SubmitsOf
<1>3. b \in Op /\ RankOf(b) = 2 /\ b[1] = "stop"
  BY <1>1, Arguments, Operations DEF RankOf, Rank, Closing
<1>4. /\ Submits(S) \o <<b>> \in Seq(Op) /\ InOrder(Submits(S) \o <<b>>, Lasting)
      /\ Range(Submits(S) \o <<b>>) = Range(Submits(S)) \cup {b}
  BY <1>2, <1>3, UniformThen DEF RankOf
<1>5. Do(th, Submits(S) \o <<b>>)
  BY DEF Shutdown, Arg
<1>6. RankOf(h) = 2
  BY <1>1 DEF RankOf, Rank, Closing
<1>7. \A o \in Range(Submits(S) \o <<b>>) : o[1] \notin Marks \cup {"wait", "done"} /\ RankOf(o) = 2
  BY <1>2, <1>3, <1>4 DEF Marks
<1>8. Moved(th, Range(Submits(S) \o <<b>>), FALSE)
  BY <1>1, <1>4, <1>5, <1>6, <1>7, BecomesCalls
<1> QED BY <1>1, <1>2, <1>4, <1>8

LEMMA StopSchedulerMoves ==
  ASSUME Types, NEW th \in Threads, StopScheduler(th)
  PROVE  /\ Head(todo[th]) \in Op /\ Head(todo[th])[1] = "stop" /\ Head(todo[th])[2] \in {"NORMAL", "FORCE"}
         /\ Moved(th, {<<"halt", p, Head(todo[th])[2]>> : p \in {q \in Pools : pool[q].made}}, FALSE)
<1> DEFINE h == Head(todo[th])
           S == {q \in Pools : pool[q].made}
           ops == Halts(h[2], S)
<1>1. todo[th] # <<>> /\ h \in Op /\ h[1] = "stop" /\ h[1] \notin Marks
  BY HeadOp DEF StopScheduler, At, Marks
<1>2. h[2] \in {"NORMAL", "FORCE"}
  BY <1>1, Arguments
<1>3. ops \in Seq(Op) /\ Range(ops) = {<<"halt", p, h[2]>> : p \in S}
  BY <1>2, HaltsOf
<1>4. \A o \in Range(ops) : o[1] \notin Marks \cup {"wait", "done"} /\ Rank(o, Lasting) = 2
  BY <1>2, <1>3 DEF Marks, Rank, Closing
<1>5. InOrder(ops, Lasting)
  BY <1>3, <1>4, Uniform
<1>6. Do(th, ops)
  BY DEF StopScheduler, Arg
<1>7. RankOf(h) = 2
  BY <1>1 DEF RankOf, Rank, Closing
<1>8. Moved(th, Range(ops), FALSE)
  BY <1>1, <1>3, <1>4, <1>5, <1>6, <1>7, BecomesCalls DEF RankOf
<1> QED BY <1>1, <1>2, <1>3, <1>8

LEMMA HaltPoolMoves ==
  ASSUME Types, NEW th \in Threads, HaltPool(th)
  PROVE  /\ Head(todo[th]) \in Op /\ Head(todo[th])[1] = "halt"
         /\ Head(todo[th])[2] \in Pools /\ Head(todo[th])[3] \in {"NORMAL", "FORCE", "FINAL"}
         /\ IF Head(todo[th])[3] = "FORCE" /\ ConsumerAlive(Head(todo[th])[2], th)
            THEN Moved(th, {<<"await", Head(todo[th])[2]>>}, FALSE) ELSE Moved(th, {}, FALSE)
<1> DEFINE h == Head(todo[th])
           a == <<"await", h[2]>>
<1>1. todo[th] # <<>> /\ h \in Op /\ h[1] = "halt" /\ h[1] \notin Marks
  BY HeadOp DEF HaltPool, At, Marks
<1>2. h[2] \in Pools /\ h[3] \in {"NORMAL", "FORCE", "FINAL"}
  BY <1>1, Arguments
<1>3. CASE h[3] = "FORCE" /\ ConsumerAlive(h[2], th)
  <2>1. Do(th, <<a>>)
    BY <1>3 DEF HaltPool, Arg
  <2>2. a \in Op
    BY <1>2, Operations
  <2>3. a[1] \notin Marks \cup {"wait", "done"} /\ ~Closing(a) /\ RankOf(a) <= RankOf(h)
    BY <1>1, <1>3 DEF Marks, Closing, RankOf, Rank
  <2>4. Moved(th, {a}, FALSE)
    BY <1>1, <2>1, <2>2, <2>3, Becomes
  <2> QED BY <1>1, <1>2, <1>3, <2>4
<1>4. CASE ~(h[3] = "FORCE" /\ ConsumerAlive(h[2], th))
  <2>1. Do(th, <<>>)
    BY <1>4 DEF HaltPool, Arg
  <2> QED BY <1>1, <1>2, <1>4, <2>1, Ends
<1> QED BY <1>3, <1>4

LEMMA AwaitDiscardMoves ==
  ASSUME Types, NEW th \in Threads, AwaitDiscard(th)
  PROVE  /\ Head(todo[th]) \in Op /\ todo[th] # <<>> /\ Head(todo[th])[1] = "await" /\ Head(todo[th])[2] \in Pools
         /\ Moved(th, {}, FALSE) \/ UNCHANGED todo
<1>1. todo[th] # <<>> /\ Head(todo[th])[1] = "await" /\ Head(todo[th])[1] \notin Marks
  BY DEF AwaitDiscard, At, Marks
<1>2. Head(todo[th]) \in Op
  BY <1>1, HeadOp
<1>3. Do(th, <<>>) \/ UNCHANGED todo
  BY DEF AwaitDiscard
<1> QED BY <1>1, <1>2, <1>3, Ends, Arguments

LEMMA JoinMoves ==
  ASSUME Types, NEW th \in Threads, Join(th)
  PROVE  /\ Head(todo[th]) \in Op /\ Head(todo[th])[1] = "join" /\ Head(todo[th])[2] \in Pools
         /\ Moved(th, {}, FALSE)
<1>1. todo[th] # <<>> /\ Head(todo[th])[1] = "join" /\ Head(todo[th])[1] \notin Marks
  BY DEF Join, At, Marks
<1>2. Head(todo[th]) \in Op /\ Do(th, <<>>)
  BY <1>1, HeadOp DEF Join
<1> QED BY <1>1, <1>2, Ends, Arguments

-----------------------------------------------------------------------------
(* The steps that are not ordinary: the main thread starts and stops the   *)
(* others, and workers end.                                                *)

\* What comes after the first operation.
LEMMA Later ==
  ASSUME NEW s \in Seq(Op), s # <<>>, NEW lasting, InOrder(s, lasting), NEW o \in Range(Tail(s))
  PROVE  Follows(Rank(o, lasting), Rank(Head(s), lasting))
<1>1. /\ Len(s) \in Nat /\ Len(s) > 0 /\ DOMAIN s = 1 .. Len(s) /\ DOMAIN Tail(s) = 1 .. (Len(s) - 1)
      /\ Head(s) = s[1] /\ \A i \in 1 .. (Len(s) - 1) : Tail(s)[i] = s[i + 1]
  BY HeadTailProperties, LenProperties, EmptySeq
<1>2. PICK i \in 1 .. (Len(s) - 1) : o = Tail(s)[i]
  BY <1>1 DEF Range
<1>3. o = s[i + 1] /\ 1 \in DOMAIN s /\ i + 1 \in DOMAIN s /\ 1 < i + 1
  BY <1>1, <1>2
<1> QED BY <1>1, <1>3 DEF InOrder

\* A thread ends a step and the workers F are given their threads.
Launched(th, F) ==
  /\ F \subseteq Threads \ {th, "main"}
  /\ todo[th] # <<>> /\ todo'[th] = Tail(todo[th]) /\ todo' \in [Threads -> Seq(Op)]
  /\ \A x \in F : todo[x] = <<>> /\ todo'[x] = <<<<"poll">>>>
  /\ \A x \in Threads \ (F \cup {th}) : todo'[x] = todo[x]

LEMMA Launches ==
  ASSUME Types, NEW th \in Threads, NEW now, todo[th] # <<>>,
         todo' = Started([todo EXCEPT ![th] = Tail(@)], now),
         NEW F \in SUBSET Threads, F = {x \in Threads : PoolOf(x) \in now /\ x # "main"},
         th \notin F, \A x \in F : todo[x] = <<>>
  PROVE  Launched(th, F)
<1>1. /\ \A x \in Threads : todo[x] \in Seq(Op)
      /\ Tail(todo[th]) \in Seq(Op)
  BY RangeSplit DEF Types
<1>2. <<<<"poll">>>> \in Seq(Op)
  <2>1. <<"poll">> \in Op
    BY Operations DEF Simple
  <2> QED BY <2>1
<1>3. todo' = [x \in Threads |-> IF x \in F THEN <<<<"poll">>>> ELSE IF x = th THEN Tail(todo[th]) ELSE todo[x]]
  BY DEF Started, Types
<1>4. todo' \in [Threads -> Seq(Op)]
  BY <1>1, <1>2, <1>3
<1>5. todo'[th] = Tail(todo[th]) /\ \A x \in F : todo'[x] = <<<<"poll">>>>
  BY <1>3
<1>6. \A x \in Threads \ (F \cup {th}) : todo'[x] = todo[x]
  BY <1>3
<1>7. F \subseteq Threads \ {th, "main"}
  OBVIOUS
<1> QED BY <1>4, <1>5, <1>6, <1>7 DEF Launched

LEMMA LaunchedLeft ==
  ASSUME Types, NEW th \in Threads, NEW F, Launched(th, F)
  PROVE  /\ Left(th) = {Head(todo[th])} \cup Left(th)' /\ Left(th)' = Range(Tail(todo[th]))
         /\ Head(todo[th]) \in Op
         /\ \A x \in F : Left(x) = {} /\ Left(x)' = {<<"poll">>}
         /\ \A x \in Threads \ (F \cup {th}) : Left(x)' = Left(x)
         /\ \A x \in Threads : \A o : o[1] # "poll" => (o \in Left(x)' => o \in Left(x))
<1>1. todo'[th] = Tail(todo[th]) /\ todo[th] # <<>>
  BY DEF Launched
<1>2. Left(th) = {Head(todo[th])} \cup Left(th)' /\ Left(th)' = Range(Tail(todo[th])) /\ Head(todo[th]) \in Op
  BY <1>1, HeadOp DEF Left
<1>3. \A x \in F : Left(x) = {} /\ Left(x)' = {<<"poll">>}
  <2>1. \A x \in F : todo[x] = <<>> /\ todo'[x] = <<<<"poll">>>>
    BY DEF Launched
  <2> QED BY <2>1, RangeOf DEF Left
<1>4. \A x \in Threads \ (F \cup {th}) : Left(x)' = Left(x)
  BY DEF Launched, Left
<1> QED BY <1>2, <1>3, <1>4

LEMMA LaunchedScripts ==
  ASSUME Types, Scripts, NEW th \in Threads, NEW F, Launched(th, F), UNCHANGED scenario,
         Head(todo[th])[1] \in {"start", "build"}, \A x \in F : \E p \in Pools : x \in Workers(p)
  PROVE  Scripts'
<1> DEFINE h == Head(todo[th])
<1>1. /\ Left(th) = {h} \cup Left(th)' /\ h \in Op
      /\ \A x \in F : Left(x) = {} /\ Left(x)' = {<<"poll">>}
      /\ \A x \in Threads \ (F \cup {th}) : Left(x)' = Left(x)
      /\ "main" \notin F /\ "main" \in Threads
  BY LaunchedLeft, Cast DEF Launched
<1>2. \A x \in Threads : InOrder(todo'[x], Lasting)
  <2>2. InOrder(todo'[th], Lasting)
    <3>1. todo[th] \in Seq(Op) /\ todo[th] # <<>> /\ todo'[th] = Tail(todo[th]) /\ InOrder(todo[th], Lasting)
      BY DEF Launched, Scripts, Types, Lasting
    <3>2. /\ Len(todo[th]) \in Nat /\ Len(todo[th]) > 0
          /\ DOMAIN todo[th] = 1 .. Len(todo[th]) /\ DOMAIN Tail(todo[th]) = 1 .. (Len(todo[th]) - 1)
          /\ \A i \in 1 .. (Len(todo[th]) - 1) : Tail(todo[th])[i] = todo[th][i + 1]
      BY <3>1, HeadTailProperties, LenProperties, EmptySeq
    <3>3. \A i, j \in DOMAIN Tail(todo[th]) : i < j =>
            Follows(Rank(Tail(todo[th])[j], Lasting), Rank(Tail(todo[th])[i], Lasting))
      <4> SUFFICES ASSUME NEW i \in DOMAIN Tail(todo[th]), NEW j \in DOMAIN Tail(todo[th]), i < j
                   PROVE  Follows(Rank(Tail(todo[th])[j], Lasting), Rank(Tail(todo[th])[i], Lasting))
        OBVIOUS
      <4>1. i + 1 \in DOMAIN todo[th] /\ j + 1 \in DOMAIN todo[th] /\ i + 1 < j + 1
        BY <3>2
      <4> QED BY <3>1, <3>2, <4>1 DEF InOrder
    <3> QED BY <3>1, <3>3 DEF InOrder
  <2>3. \A x \in F : InOrder(todo'[x], Lasting)
    BY DEF Launched, InOrder
  <2> QED BY <2>2, <2>3 DEF Launched, Scripts, Lasting
<1>3. \A x \in Threads : Has(x, "poll") => Has(x, "poll")'
  BY <1>1 DEF Has
<1>4. ASSUME NEW x \in Threads, NEW o \in Left(x)'
      PROVE  /\ o[1] \in {"start", "mainpool", "finals"} \/ Closing(o) => x = "main"
             /\ o[1] \in {"poll", "wait"} => \E p \in Pools : x \in Workers(p)
             /\ o[1] = "done" => x \in Workers(Home(o[2]))
             /\ o[1] \in {"done", "wait"} => Has(x, "poll")'
  <2>1. CASE o \in Left(x)
    BY <2>1, <1>3 DEF Scripts
  <2>2. CASE o \notin Left(x)
    <3>1. x \in F /\ o = <<"poll">>
      BY <2>2, <1>1
    <3> QED BY <3>1 DEF Closing
  <2> QED BY <2>1, <2>2
<1>5. \A x \in Threads : \A o \in Left(x)' :
       /\ o[1] \in {"start", "mainpool", "finals"} \/ Closing(o) => x = "main"
       /\ o[1] \in {"poll", "wait"} => \E p \in Pools : x \in Workers(p)'
       /\ o[1] = "done" => x \in Workers(Home(o[2]))'
       /\ o[1] \in {"done", "wait"} => Has(x, "poll")'
  BY <1>4 DEF Workers, Home
<1>6. /\ Has("main", "mainpool")' <=> Has("main", "mainpool")
      /\ Has("main", "poll")' <=> Has("main", "poll")
      /\ Has("main", "finals")' <=> Has("main", "finals")
      /\ Has("main", "start")' => Has("main", "start")
  BY <1>1 DEF Has
<1>7. Has("main", "finals")' => \A o \in Left("main")' : ~Closing(o)
  BY <1>1, <1>6 DEF Scripts
<1> QED BY <1>2, <1>5, <1>6, <1>7 DEF Scripts, Lasting

\* The workers that are given a thread with a pool.
NewWorkers(now) == {x \in Threads : PoolOf(x) \in now /\ x # "main"}

LEMMA BuildPoolMoves ==
  ASSUME Types, Scripts, Places, Starting, NEW th \in Threads, BuildPool(th)
  PROVE  LET p == Head(todo[th])[2]
             now == IF scheduler.started THEN {p} ELSE {}
         IN /\ todo[th] # <<>> /\ Head(todo[th]) = <<"build", p>> /\ p \in Pools /\ p # "main"
            /\ scheduler.building = p /\ ~pool[p].made
            /\ Launched(th, NewWorkers(now))
            /\ \A x \in NewWorkers(now) : x \in Workers(p)
            /\ scheduler.started => NewWorkers(now) = Workers(p)
            /\ pool' = [pool EXCEPT ![p].made = TRUE]
            /\ scheduler' = [scheduler EXCEPT !.building = Nobody]
            /\ idle' = Activated(IF Counts(p) THEN PoolIdle(idle, p) ELSE idle, now)
<1> DEFINE p == Head(todo[th])[2]
           now == IF scheduler.started THEN {p} ELSE {}
           F == NewWorkers(now)
<1>1. todo[th] # <<>> /\ Head(todo[th])[1] = "build"
  BY DEF BuildPool, At
<1>2. Head(todo[th]) = <<"build", p>> /\ p \in Pools /\ Head(todo[th]) \in Left(th)
  BY <1>1, HeadOp, Arguments
<1>3. scheduler.building = p /\ ~pool[p].made /\ p # "main"
  BY <1>1, <1>2 DEF Places
<1>4. \A x \in F : x \in Workers(p) /\ scheduler.started
  <2>1. \A x \in Threads : PoolOf(x) \in Pools => x \in Workers(PoolOf(x))
    BY Cast
  <2> QED BY <1>2, <2>1 DEF NewWorkers
<1>5. \A x \in Workers(p) : todo[x] = <<>>
  <2>1. ~Begun(p)
    BY <1>3 DEF Begun
  <2> QED BY <1>2, <1>3, <2>1 DEF Starting
<1>6. th \notin F
  BY <1>1, <1>4, <1>5
<1>7. /\ todo' = Started([todo EXCEPT ![th] = Tail(@)], now)
      /\ pool' = [pool EXCEPT ![p].made = TRUE]
      /\ scheduler' = [scheduler EXCEPT !.building = Nobody]
      /\ idle' = Activated(IF Counts(p) THEN PoolIdle(idle, p) ELSE idle, now)
  BY DEF BuildPool, Arg
<1>8. F \in SUBSET Threads /\ \A x \in F : todo[x] = <<>>
  BY <1>4, <1>5 DEF NewWorkers
<1>9. Launched(th, F)
  BY <1>1, <1>6, <1>7, <1>8, Launches DEF NewWorkers
<1>10. ASSUME scheduler.started
       PROVE  F = Workers(p)
  <2>1. \A x \in Workers(p) : x \in Threads /\ PoolOf(x) = p /\ x # "main"
    BY <1>2, <1>3, Cast
  <2> QED BY <1>4, <1>10, <2>1 DEF NewWorkers
<1> QED BY <1>1, <1>2, <1>3, <1>4, <1>7, <1>9, <1>10

LEMMA StartMoves ==
  ASSUME Types, Scripts, Places, Starting, NEW th \in Threads, Start(th)
  PROVE  LET now == {p \in Pools \ {"main"} : pool[p].made}
         IN /\ todo[th] # <<>> /\ Head(todo[th])[1] = "start" /\ th = "main" /\ ~scheduler.started
            /\ Launched(th, NewWorkers(now)) /\ ~Has(th, "start")'
            /\ \A p \in Pools : \A x \in Workers(p) : x \in NewWorkers(now) <=> p \in now
            /\ \A x \in NewWorkers(now) : \E p \in now : x \in Workers(p)
            /\ idle' = Activated(idle, now) /\ scheduler' = [scheduler EXCEPT !.started = TRUE]
            /\ scheduler.building = Nobody
<1> DEFINE now == {p \in Pools \ {"main"} : pool[p].made}
           F == NewWorkers(now)
<1>1. todo[th] # <<>> /\ Head(todo[th])[1] = "start"
  BY DEF Start, At
<1>2. Head(todo[th]) \in Left(th) /\ th = "main" /\ Has("main", "start") /\ ~scheduler.started
  BY <1>1, HeadOp DEF Scripts, Has, Starting
<1>3. \A x \in F : \E p \in now : x \in Workers(p)
  <2>1. \A x \in Threads : PoolOf(x) \in Pools => x \in Workers(PoolOf(x))
    BY Cast
  <2> QED BY <2>1 DEF NewWorkers
<1>4. \A p \in Pools : \A x \in Workers(p) : x \in F <=> p \in now
  <2>1. \A p \in Pools : \A x \in Workers(p) : x \in Threads /\ PoolOf(x) = p
    BY PoolOfWorker
  <2>2. \A p \in Pools : \A x \in Workers(p) : x = "main" => p = "main"
    BY Cast
  <2> QED BY <2>1, <2>2 DEF NewWorkers
<1>5. \A x \in F : todo[x] = <<>>
  BY <1>2, <1>3 DEF Starting, Begun
<1>6. th \notin F /\ F \in SUBSET Threads
  BY <1>2 DEF NewWorkers
<1>7. /\ todo' = Started([todo EXCEPT ![th] = Tail(@)], now)
      /\ idle' = Activated(idle, now) /\ scheduler' = [scheduler EXCEPT !.started = TRUE]
      /\ scheduler.building = Nobody
  BY DEF Start
<1>8. Launched(th, F)
  BY <1>1, <1>5, <1>6, <1>7, Launches DEF NewWorkers
<1>9. ASSUME NEW o \in Range(Tail(todo[th]))
      PROVE  o[1] # "start"
  <2>1. todo[th] \in Seq(Op) /\ InOrder(todo[th], Lasting)
    BY <1>1, HeadOp DEF Scripts, Lasting
  <2>2. Follows(Rank(o, Lasting), Rank(Head(todo[th]), Lasting))
    BY <1>1, <2>1, Later
  <2>3. Rank(Head(todo[th]), Lasting) = 4 /\ (o[1] = "start" => Rank(o, Lasting) = 4)
    BY <1>1 DEF Rank
  <2> QED BY <2>2, <2>3 DEF Follows
<1>10. ~Has(th, "start")'
  BY <1>8, <1>9, LaunchedLeft DEF Has
<1> QED BY <1>1, <1>2, <1>3, <1>4, <1>7, <1>8, <1>10

\* The main thread goes to its pool, leaves it, and ends the others.
LEMMA StartMainMoves ==
  ASSUME Types, Scripts, NEW th \in Threads, StartMain(th)
  PROVE  /\ todo[th] # <<>> /\ Head(todo[th]) = <<"mainpool">> /\ th = "main"
         /\ todo' \in [Threads -> Seq(Op)]
         /\ Left(th) = {<<"mainpool">>} \cup Range(Tail(todo[th]))
         /\ Left(th)' = {<<"poll">>} \cup Range(Tail(todo[th]))
         /\ \A x \in Threads \ {th} : todo'[x] = todo[x] /\ Left(x)' = Left(x)
         /\ \A o \in Range(Tail(todo[th])) : RankOf(o) > 6
         /\ InOrder(todo'[th], Lasting)
<1> DEFINE h == Head(todo[th])
           ops == <<<<"poll">>>>
<1>1. todo[th] # <<>> /\ h[1] = "mainpool"
  BY DEF StartMain, At
<1>2. h = <<"mainpool">> /\ th = "main" /\ h \in Left(th) /\ todo[th] \in Seq(Op)
  BY <1>1, HeadOp, Arguments DEF Scripts
<1>3. <<"poll">> \in Op /\ ops \in Seq(Op) /\ Range(ops) = {<<"poll">>} /\ InOrder(ops, Lasting)
  <2>1. <<"poll">> \in Op
    BY Operations DEF Simple
  <2>2. \A a \in Op : <<a>> \in Seq(Op) /\ Range(<<a>>) = {a} /\ InOrder(<<a>>, Lasting)
    BY RangeOf DEF InOrder
  <2> QED BY <2>1, <2>2
<1>4. Rewrites(th, ops, FALSE)
  BY DEF StartMain, Do, Rewrites, Rest_
<1>5. Rank(h, Lasting) = 6 /\ Rank(<<"poll">>, Lasting) = 6
  BY <1>1 DEF Rank
<1>6. todo \in [Threads -> Seq(Op)] /\ InOrder(todo[th], Lasting)
  BY DEF Types, Scripts, Lasting
<1>7. /\ todo' \in [Threads -> Seq(Op)] /\ Left(th) = {h} \cup Range(Tail(todo[th]))
      /\ Left(th)' = {<<"poll">>} \cup Range(Rest_(th, FALSE))
      /\ \A x \in Threads \ {th} : todo'[x] = todo[x] /\ Left(x)' = Left(x)
  BY <1>1, <1>3, <1>4, <1>6, RewritesLeft
<1>8. \A o \in Range(ops) : Rank(o, Lasting) <= Rank(h, Lasting)
  BY <1>3, <1>5
<1>9. InOrder(todo'[th], Lasting)
  BY <1>1, <1>3, <1>4, <1>6, <1>8, RewritesOrder
<1>10. ASSUME NEW o \in Range(Tail(todo[th]))
       PROVE  Rank(o, Lasting) > 6
  BY <1>1, <1>2, <1>5, <1>6, Later DEF Follows
<1> QED BY <1>1, <1>2, <1>7, <1>9, <1>10 DEF Rest_, RankOf

LEMMA PollExitMoves ==
  ASSUME Types, Scripts, NEW th \in Threads, PollExit(th)
  PROVE  /\ todo[th] # <<>> /\ Head(todo[th]) = <<"poll">> /\ PoolOf(th) \in Pools /\ th \in Workers(PoolOf(th))
         /\ todo' \in [Threads -> Seq(Op)] /\ todo'[th] = Tail(todo[th])
         /\ Left(th) = {<<"poll">>} \cup Range(Tail(todo[th]))
         /\ Left(th)' = Range(Tail(todo[th]))
         /\ \A x \in Threads \ {th} : todo'[x] = todo[x] /\ Left(x)' = Left(x)
         /\ \A o \in Range(Tail(todo[th])) : RankOf(o) > 6
         /\ InOrder(todo'[th], Lasting)
<1> DEFINE h == Head(todo[th])
<1>1. todo[th] # <<>> /\ h = <<"poll">> /\ h[1] = "poll" /\ PoolOf(th) \in Pools /\ th \in Workers(PoolOf(th))
  BY AtPoll DEF PollExit
<1>2. <<>> \in Seq(Op) /\ Range(<<>>) = {} /\ InOrder(<<>>, Lasting) /\ todo[th] \in Seq(Op)
  BY <1>1, HeadOp, RangeOf DEF InOrder
<1>3. Rewrites(th, <<>>, FALSE)
  BY DEF PollExit, Do, Rewrites, Rest_
<1>4. Rank(h, Lasting) = 6
  BY <1>1 DEF Rank
<1>5. todo \in [Threads -> Seq(Op)] /\ InOrder(todo[th], Lasting)
  BY DEF Types, Scripts, Lasting
<1>6. /\ todo' \in [Threads -> Seq(Op)] /\ Left(th) = {h} \cup Range(Tail(todo[th]))
      /\ Left(th)' = Range(<<>>) \cup Range(Rest_(th, FALSE))
      /\ \A x \in Threads \ {th} : todo'[x] = todo[x] /\ Left(x)' = Left(x)
  BY <1>1, <1>2, <1>3, <1>5, RewritesLeft
<1>7. InOrder(todo'[th], Lasting)
  BY <1>1, <1>2, <1>3, <1>5, RewritesOrder
<1>8. ASSUME NEW o \in Range(Tail(todo[th]))
      PROVE  Rank(o, Lasting) > 6
  BY <1>1, <1>2, <1>4, <1>5, Later DEF Follows
<1>9. todo'[th] = Tail(todo[th])
  <2>1. Tail(todo[th]) \in Seq(Op)
    BY <1>1, <1>2, RangeSplit
  <2>2. todo' = [todo EXCEPT ![th] = <<>> \o Tail(@)]
    BY DEF PollExit, Do
  <2> QED BY <1>5, <2>1, <2>2, ConcatEmptySeq
<1> QED BY <1>1, <1>2, <1>6, <1>7, <1>8, <1>9 DEF Rest_, RankOf

LEMMA StopAndJoinOf ==
  ASSUME NEW S \in SUBSET Pools
  PROVE  /\ StopAndJoin(S) \in Seq(Op)
         /\ Range(StopAndJoin(S)) = {<<"halt", p, "FINAL">> : p \in S} \cup {<<"join", p>> : p \in S}
<1> DEFINE s == SetToSeq(S)
           n == Len(s)
           j == StopAndJoin(S)
<1>1. IsFiniteSet(S)
  BY PowerPlantAssumption, FS_Subset
<1>2. s \in Seq(S) /\ DOMAIN s = 1 .. n /\ n \in Nat /\ Range(s) = S
  BY <1>1, Listed
<1>3. j = [i \in 1 .. 2 * n |-> IF i % 2 = 1 THEN <<"halt", s[(i + 1) \div 2], "FINAL">>
                                ELSE <<"join", s[i \div 2]>>]
  BY DEF StopAndJoin
<1>4. \A i \in 1 .. n : s[i] \in S
  BY <1>2 DEF Range
<1>5. \A p \in S : \E i \in 1 .. n : p = s[i]
  BY <1>2 DEF Range
<1> HIDE DEF n, s
<1>6. ASSUME NEW i \in 1 .. 2 * n
      PROVE  \/ i % 2 = 1 /\ (i + 1) \div 2 \in 1 .. n
             \/ i % 2 # 1 /\ i \div 2 \in 1 .. n
  BY <1>2
<1>7. ASSUME NEW i \in 1 .. n
      PROVE  /\ 2 * i - 1 \in 1 .. 2 * n /\ (2 * i - 1) % 2 = 1 /\ ((2 * i - 1) + 1) \div 2 = i
             /\ 2 * i \in 1 .. 2 * n /\ (2 * i) % 2 # 1 /\ (2 * i) \div 2 = i
  BY <1>2
<1>8. \A i \in 1 .. 2 * n : \/ \E p \in S : j[i] = <<"halt", p, "FINAL">>
                            \/ \E p \in S : j[i] = <<"join", p>>
  BY <1>3, <1>4, <1>6
<1>9. \A i \in 1 .. n : j[2 * i - 1] = <<"halt", s[i], "FINAL">> /\ j[2 * i] = <<"join", s[i]>>
  BY <1>3, <1>7
<1>10. DOMAIN j = 1 .. 2 * n
  BY <1>3
<1>11. j \in Seq(Op)
  <2>1. \A i \in 1 .. 2 * n : j[i] \in Op
    BY <1>8, Operations
  <2>2. 2 * n \in Nat
    BY <1>2
  <2>3. j \in [1 .. 2 * n -> Op]
    BY <1>3, <2>1
  <2> QED BY <2>2, <2>3, SeqDef
<1>12. \A o \in Range(j) : o \in {<<"halt", p, "FINAL">> : p \in S} \cup {<<"join", p>> : p \in S}
  BY <1>8, <1>10 DEF Range
<1>13. ASSUME NEW p \in S
       PROVE  <<"halt", p, "FINAL">> \in Range(j) /\ <<"join", p>> \in Range(j)
  <2>1. PICK i \in 1 .. n : p = s[i]
    BY <1>5
  <2>2. 2 * i - 1 \in DOMAIN j /\ 2 * i \in DOMAIN j
    BY <1>7, <1>10
  <2> QED BY <1>9, <2>1, <2>2 DEF Range
<1> QED BY <1>11, <1>12, <1>13

LEMMA FinalsMoves ==
  ASSUME Types, Scripts, NEW th \in Threads, Finals(th)
  PROVE  LET made == {p \in Pools : pool[p].made}
         IN /\ todo[th] # <<>> /\ Head(todo[th]) = <<"finals">> /\ th = "main"
            /\ todo' \in [Threads -> Seq(Op)] /\ Left(th) = {<<"finals">>}
            /\ Left(th)' = {<<"halt", p, "FINAL">> : p \in made} \cup {<<"join", p>> : p \in made}
            /\ \A x \in Threads \ {th} : todo'[x] = todo[x] /\ Left(x)' = Left(x)
            /\ InOrder(todo'[th], Lasting)
<1> DEFINE h == Head(todo[th])
           made == {p \in Pools : pool[p].made}
           A == {p \in Pools : pool[p].made /\ ~Persistent(p)}
           B == {p \in Pools : pool[p].made /\ Persistent(p)}
           a == StopAndJoin(A)
           b == StopAndJoin(B)
<1>1. todo[th] # <<>> /\ h[1] = "finals" /\ Do(th, a \o b)
  BY DEF Finals, At
<1>2. h = <<"finals">> /\ th = "main" /\ todo[th] \in Seq(Op) /\ h \in Left(th)
  BY <1>1, HeadOp, Arguments DEF Scripts
<1>3. /\ a \in Seq(Op) /\ Range(a) = {<<"halt", p, "FINAL">> : p \in A} \cup {<<"join", p>> : p \in A}
      /\ b \in Seq(Op) /\ Range(b) = {<<"halt", p, "FINAL">> : p \in B} \cup {<<"join", p>> : p \in B}
  BY StopAndJoinOf
<1> HIDE DEF a, b
<1>4. a \o b \in Seq(Op) /\ Range(a \o b) = Range(a) \cup Range(b)
  BY <1>3, RangeJoin
<1>5. /\ Range(a \o b) = {<<"halt", p, "FINAL">> : p \in made} \cup {<<"join", p>> : p \in made}
  BY <1>3, <1>4
<1>6. (\A o \in Range(a) : Rank(o, Lasting) = 7) /\ (\A o \in Range(b) : Rank(o, Lasting) = 8)
  <2>1. ASSUME NEW p \in A
        PROVE  Rank(<<"halt", p, "FINAL">>, Lasting) = 7 /\ Rank(<<"join", p>>, Lasting) = 7
    BY DEF Rank, Closing, Persistent, Lasting
  <2>2. ASSUME NEW p \in B
        PROVE  Rank(<<"halt", p, "FINAL">>, Lasting) = 8 /\ Rank(<<"join", p>>, Lasting) = 8
    BY DEF Rank, Closing, Persistent, Lasting
  <2> QED BY <1>3, <2>1, <2>2
<1>7. InOrder(a \o b, Lasting)
  <2>1. /\ Len(a) \in Nat /\ Len(b) \in Nat /\ DOMAIN a = 1 .. Len(a) /\ DOMAIN b = 1 .. Len(b)
        /\ DOMAIN (a \o b) = 1 .. (Len(a) + Len(b))
        /\ \A i \in 1 .. (Len(a) + Len(b)) : (a \o b)[i] = IF i <= Len(a) THEN a[i] ELSE b[i - Len(a)]
    BY <1>3, ConcatProperties, LenProperties
  <2>2. \A i \in DOMAIN (a \o b) : Rank((a \o b)[i], Lasting) = IF i <= Len(a) THEN 7 ELSE 8
    <3> SUFFICES ASSUME NEW i \in DOMAIN (a \o b)
                 PROVE  Rank((a \o b)[i], Lasting) = IF i <= Len(a) THEN 7 ELSE 8
      OBVIOUS
    <3>1. CASE i <= Len(a)
      BY <2>1, <3>1, <1>6 DEF Range
    <3>2. CASE ~(i <= Len(a))
      <4>1. i - Len(a) \in DOMAIN b
        BY <2>1, <3>2
      <4> QED BY <2>1, <3>2, <4>1, <1>6 DEF Range
    <3> QED BY <3>1, <3>2
  <2> QED BY <2>1, <2>2 DEF InOrder, Follows
<1>8. todo \in [Threads -> Seq(Op)] /\ InOrder(todo[th], Lasting) /\ Rank(h, Lasting) = 9
  BY <1>1 DEF Types, Scripts, Lasting, Rank
<1>9. Rewrites(th, a \o b, FALSE)
  BY <1>1 DEF Do, Rewrites, Rest_
<1>10. /\ todo' \in [Threads -> Seq(Op)] /\ Left(th) = {h} \cup Range(Tail(todo[th]))
       /\ Left(th)' = Range(a \o b) \cup Range(Rest_(th, FALSE))
       /\ \A x \in Threads \ {th} : todo'[x] = todo[x] /\ Left(x)' = Left(x)
  BY <1>1, <1>4, <1>8, <1>9, RewritesLeft
<1>11. InOrder(todo'[th], Lasting)
  <2>1. \A o \in Range(a \o b) : Rank(o, Lasting) <= 9
    BY <1>4, <1>6
  <2> QED BY <1>1, <1>4, <1>7, <1>8, <1>9, <2>1, RewritesOrder
<1>12. Range(Tail(todo[th])) = {}
  <2> SUFFICES ASSUME NEW o \in Range(Tail(todo[th]))
               PROVE  FALSE
    OBVIOUS
  <2>1. Follows(Rank(o, Lasting), 9)
    BY <1>1, <1>2, <1>8, Later
  <2>2. Rank(o, Lasting) \in 0 .. 9
    BY DEF Rank
  <2> QED BY <2>1, <2>2 DEF Follows
<1> QED BY <1>1, <1>2, <1>5, <1>10, <1>11, <1>12 DEF Rest_

\* Every step is one of these.
Ordered(th) == \E new : \E kept \in BOOLEAN : Moved(th, new, kept)
LEMMA Kinds ==
  ASSUME Types, Scripts, Places, NEW th \in Threads, Step(th)
  PROVE  \/ UNCHANGED todo \/ Ordered(th)
         \/ BuildPool(th) \/ Start(th) \/ StartMain(th) \/ PollExit(th) \/ Finals(th)
<1>1. GetPool(th) => Ordered(th)
  BY GetPoolMoves DEF Ordered
<1>2. MakePool(th) => Ordered(th)
  BY MakePoolMoves DEF Ordered
<1>3. Route(th) => Ordered(th)
  BY RouteMoves DEF Ordered
<1>4. Accept(th) => Ordered(th)
  BY AcceptMoves DEF Ordered
<1>5. Enqueue(th) => Ordered(th)
  BY EnqueueMoves DEF Ordered
<1>6. Notify(th) => Ordered(th)
  BY NotifyMoves DEF Ordered
<1>7. Unregister(th) => Ordered(th)
  BY UnregisterMoves DEF Ordered
<1>8. PollLatched(th) => Ordered(th)
  BY PollLatchedMoves DEF Ordered
<1>9. PollTake(th) => Ordered(th)
  BY PollTakeMoves DEF Ordered
<1>10. PollIdle(th) => Ordered(th)
  BY PollIdleMoves DEF Ordered
<1>11. Done(th) => Ordered(th)
  BY DoneMoves DEF Ordered
<1>12. AddIdle(th) => Ordered(th)
  BY AddIdleMoves DEF Ordered
<1>13. AddIdleToAll(th) => Ordered(th)
  BY AddIdleToAllMoves DEF Ordered
<1>14. RemoveIdle(th) => Ordered(th)
  BY RemoveIdleMoves DEF Ordered
<1>15. RemoveIdleFromAll(th) => Ordered(th)
  BY RemoveIdleFromAllMoves DEF Ordered
<1>16. Begin(th) => Ordered(th)
  BY BeginMoves DEF Ordered
<1>17. Shutdown(th) => Ordered(th)
  BY ShutdownMoves DEF Ordered
<1>18. StopScheduler(th) => Ordered(th)
  BY StopSchedulerMoves DEF Ordered
<1>19. HaltPool(th) => Ordered(th)
  BY HaltPoolMoves DEF Ordered
<1>20. Join(th) => Ordered(th)
  BY JoinMoves DEF Ordered
<1>21. Wake(th) => Ordered(th) \/ UNCHANGED todo
  BY WakeMoves DEF Ordered
<1>22. AwaitDiscard(th) => Ordered(th) \/ UNCHANGED todo
  BY AwaitDiscardMoves DEF Ordered
<1>23. RefusePool(th) \/ PollDiscard(th) => UNCHANGED todo
  BY DEF RefusePool, PollDiscard
<1> QED BY <1>1, <1>2, <1>3, <1>4, <1>5, <1>6, <1>7, <1>8, <1>9, <1>10, <1>11, <1>12, <1>13, <1>14, <1>15, <1>16, <1>17, <1>18, <1>19, <1>20, <1>21, <1>22, <1>23 DEF Step

LEMMA StartMainScripts ==
  ASSUME Types, Scripts, NEW th \in Threads, StartMain(th), UNCHANGED scenario
  PROVE  Scripts'
<1>1. /\ th = "main" /\ "main" \in Workers("main") /\ "main" \in Pools
      /\ Left(th) = {<<"mainpool">>} \cup Range(Tail(todo[th]))
      /\ Left(th)' = {<<"poll">>} \cup Range(Tail(todo[th]))
      /\ \A x \in Threads \ {th} : todo'[x] = todo[x] /\ Left(x)' = Left(x)
      /\ \A o \in Range(Tail(todo[th])) : RankOf(o) > 6
      /\ InOrder(todo'[th], Lasting)
  BY StartMainMoves, Cast
<1>2. \A o \in Range(Tail(todo[th])) : o[1] \notin {"start", "poll", "mainpool", "done", "wait"}
  BY <1>1 DEF RankOf, Rank
<1>3. \A x \in Threads : InOrder(todo'[x], Lasting)
  BY <1>1 DEF Scripts, Lasting
<1>4. \A x \in Threads \ {"main"} : \A k : Has(x, k)' <=> Has(x, k)
  BY <1>1 DEF Has
<1>5. ASSUME NEW x \in Threads, NEW o \in Left(x)'
      PROVE  /\ o[1] \in {"start", "mainpool", "finals"} \/ Closing(o) => x = "main"
             /\ o[1] \in {"poll", "wait"} => \E p \in Pools : x \in Workers(p)
             /\ o[1] = "done" => x \in Workers(Home(o[2]))
             /\ o[1] \in {"done", "wait"} => Has(x, "poll")'
  <2>1. CASE x # "main"
    BY <2>1, <1>1, <1>4 DEF Scripts
  <2>2. CASE x = "main"
    <3>1. o = <<"poll">> \/ o \in Range(Tail(todo[th]))
      BY <1>1, <2>2
    <3> QED BY <2>2, <3>1, <1>1, <1>2
  <2> QED BY <2>1, <2>2
<1>6. \A x \in Threads : \A o \in Left(x)' :
       /\ o[1] \in {"start", "mainpool", "finals"} \/ Closing(o) => x = "main"
       /\ o[1] \in {"poll", "wait"} => \E p \in Pools : x \in Workers(p)'
       /\ o[1] = "done" => x \in Workers(Home(o[2]))'
       /\ o[1] \in {"done", "wait"} => Has(x, "poll")'
  BY <1>5 DEF Workers, Home
<1>7. ~Has("main", "start")' /\ ~Has("main", "mainpool")'
  BY <1>1, <1>2 DEF Has
<1>8. Has("main", "finals")' /\ \A o \in Left("main")' : ~Closing(o)
  <2>1. Has("main", "mainpool")
    <3>1. <<"mainpool">> \in Left("main") /\ <<"mainpool">>[1] = "mainpool"
      BY <1>1
    <3> QED BY <3>1 DEF Has
  <2>2. Has("main", "finals") /\ \A o \in Left("main") : ~Closing(o)
    BY <2>1 DEF Scripts
  <2>3. ~Closing(<<"poll">>)
    BY DEF Closing
  <2> QED BY <1>1, <2>2, <2>3 DEF Has
<1> QED BY <1>3, <1>6, <1>7, <1>8 DEF Scripts, Lasting

LEMMA PollExitScripts ==
  ASSUME Types, Scripts, NEW th \in Threads, PollExit(th), UNCHANGED scenario
  PROVE  Scripts'
<1>1. /\ Left(th) = {<<"poll">>} \cup Range(Tail(todo[th]))
      /\ Left(th)' = Range(Tail(todo[th]))
      /\ \A x \in Threads \ {th} : todo'[x] = todo[x] /\ Left(x)' = Left(x)
      /\ \A o \in Range(Tail(todo[th])) : RankOf(o) > 6
      /\ InOrder(todo'[th], Lasting)
  BY PollExitMoves
<1>2. \A o \in Range(Tail(todo[th])) : o[1] \notin {"start", "poll", "mainpool", "done", "wait"}
  BY <1>1 DEF RankOf, Rank
<1>3. \A x \in Threads : InOrder(todo'[x], Lasting)
  BY <1>1 DEF Scripts, Lasting
<1>4. \A x \in Threads \ {th} : \A k : Has(x, k)' <=> Has(x, k)
  BY <1>1 DEF Has
<1>5. ASSUME NEW x \in Threads, NEW o \in Left(x)'
      PROVE  /\ o[1] \in {"start", "mainpool", "finals"} \/ Closing(o) => x = "main"
             /\ o[1] \in {"poll", "wait"} => \E p \in Pools : x \in Workers(p)
             /\ o[1] = "done" => x \in Workers(Home(o[2]))
             /\ o[1] \in {"done", "wait"} => Has(x, "poll")'
  <2>1. CASE x # th
    BY <2>1, <1>1, <1>4 DEF Scripts
  <2>2. CASE x = th
    BY <2>2, <1>1, <1>2 DEF Scripts
  <2> QED BY <2>1, <2>2
<1>6. \A x \in Threads : \A o \in Left(x)' :
       /\ o[1] \in {"start", "mainpool", "finals"} \/ Closing(o) => x = "main"
       /\ o[1] \in {"poll", "wait"} => \E p \in Pools : x \in Workers(p)'
       /\ o[1] = "done" => x \in Workers(Home(o[2]))'
       /\ o[1] \in {"done", "wait"} => Has(x, "poll")'
  BY <1>5 DEF Workers, Home
<1>7. "main" \in Threads /\ Left("main")' \subseteq Left("main")
  BY <1>1, Cast
<1>8. (Has("main", "finals") <=> Has("main", "finals")')
  BY <1>1, <1>4, <1>7 DEF Has
<1>9. Has("main", "start")' => Has("main", "mainpool")'
  <2>1. CASE th = "main"
    BY <1>1, <1>2, <2>1 DEF Has
  <2>2. CASE th # "main"
    BY <1>4, <1>7, <2>2 DEF Scripts
  <2> QED BY <2>1, <2>2
<1>10. Has("main", "mainpool")' \/ Has("main", "poll")' => Has("main", "finals")'
  BY <1>7, <1>8 DEF Has, Scripts
<1>11. Has("main", "finals")' => \A o \in Left("main")' : ~Closing(o)
  BY <1>7, <1>8 DEF Scripts
<1> QED BY <1>3, <1>6, <1>9, <1>10, <1>11 DEF Scripts, Lasting

LEMMA FinalsScripts ==
  ASSUME Types, Scripts, NEW th \in Threads, Finals(th), UNCHANGED scenario
  PROVE  Scripts'
<1> DEFINE made == {p \in Pools : pool[p].made}
<1>1. /\ th = "main"
      /\ Left(th)' = {<<"halt", p, "FINAL">> : p \in made} \cup {<<"join", p>> : p \in made}
      /\ \A x \in Threads \ {th} : todo'[x] = todo[x] /\ Left(x)' = Left(x)
      /\ InOrder(todo'[th], Lasting)
  BY FinalsMoves
<1>2. \A o \in Left(th)' : o[1] \in {"halt", "join"}
  BY <1>1
<1>3. \A x \in Threads : InOrder(todo'[x], Lasting)
  BY <1>1 DEF Scripts, Lasting
<1>4. \A x \in Threads \ {th} : \A k : Has(x, k)' <=> Has(x, k)
  BY <1>1 DEF Has
<1>5. ASSUME NEW x \in Threads, NEW o \in Left(x)'
      PROVE  /\ o[1] \in {"start", "mainpool", "finals"} \/ Closing(o) => x = "main"
             /\ o[1] \in {"poll", "wait"} => \E p \in Pools : x \in Workers(p)
             /\ o[1] = "done" => x \in Workers(Home(o[2]))
             /\ o[1] \in {"done", "wait"} => Has(x, "poll")'
  <2>1. CASE x # th
    BY <2>1, <1>1, <1>4 DEF Scripts
  <2>2. CASE x = th
    BY <2>2, <1>1, <1>2
  <2> QED BY <2>1, <2>2
<1>6. \A x \in Threads : \A o \in Left(x)' :
       /\ o[1] \in {"start", "mainpool", "finals"} \/ Closing(o) => x = "main"
       /\ o[1] \in {"poll", "wait"} => \E p \in Pools : x \in Workers(p)'
       /\ o[1] = "done" => x \in Workers(Home(o[2]))'
       /\ o[1] \in {"done", "wait"} => Has(x, "poll")'
  BY <1>5 DEF Workers, Home
<1>7. ~Has("main", "start")' /\ ~Has("main", "mainpool")' /\ ~Has("main", "poll")' /\ ~Has("main", "finals")'
  BY <1>1, <1>2 DEF Has
<1> QED BY <1>3, <1>6, <1>7 DEF Scripts, Lasting

LEMMA ScriptsStep ==
  ASSUME Types, Scripts, Places, Starting, NEW th \in Threads, Step(th)
  PROVE  Scripts'
<1>1. UNCHANGED scenario
  BY DEF Step
<1>2. CASE UNCHANGED todo
  BY <1>1, <1>2 DEF Scripts, InOrder, Left, Has, Workers, Home
<1>3. CASE Ordered(th)
  BY <1>1, <1>3, OrdinaryScripts DEF Ordered
<1>4. CASE BuildPool(th)
  <2> DEFINE p == Head(todo[th])[2]
             now == IF scheduler.started THEN {p} ELSE {}
  <2>1. /\ Head(todo[th]) = <<"build", p>> /\ p \in Pools /\ Launched(th, NewWorkers(now))
        /\ \A x \in NewWorkers(now) : x \in Workers(p)
    BY <1>4, BuildPoolMoves
  <2>2. Head(todo[th])[1] \in {"start", "build"}
    BY <2>1
  <2> HIDE DEF p, now
  <2> QED BY <1>1, <2>1, <2>2, LaunchedScripts
<1>5. CASE Start(th)
  <2> DEFINE now == {p \in Pools \ {"main"} : pool[p].made}
  <2>1. /\ Head(todo[th])[1] = "start" /\ Launched(th, NewWorkers(now))
        /\ \A x \in NewWorkers(now) : \E p \in now : x \in Workers(p)
    BY <1>5, StartMoves
  <2>2. \A x \in NewWorkers(now) : \E p \in Pools : x \in Workers(p)
    BY <2>1
  <2> HIDE DEF now
  <2> QED BY <1>1, <2>1, <2>2, LaunchedScripts
<1> QED BY <1>1, <1>2, <1>3, <1>4, <1>5, StartMainScripts, PollExitScripts, FinalsScripts, Kinds

-----------------------------------------------------------------------------
(* Who changes what.                                                       *)

LEMMA Frame ==
  ASSUME NEW th \in Threads, Step(th)
  PROVE  /\ UNCHANGED scenario
         /\ \/ UNCHANGED scheduler \/ MakePool(th) \/ BuildPool(th) \/ AddIdleToAll(th)
            \/ RemoveIdleFromAll(th) \/ Start(th) \/ StopScheduler(th)
         /\ \/ UNCHANGED pool \/ BuildPool(th) \/ Route(th) \/ Enqueue(th) \/ Notify(th)
            \/ Unregister(th) \/ PollLatched(th) \/ PollTake(th) \/ PollIdle(th)
            \/ PollDiscard(th) \/ AddIdle(th) \/ RemoveIdle(th) \/ HaltPool(th)
         /\ \/ UNCHANGED idle \/ MakePool(th) \/ BuildPool(th) \/ Notify(th) \/ PollLatched(th)
            \/ PollTake(th) \/ PollIdle(th) \/ Start(th) \/ StartMain(th)
         /\ \/ UNCHANGED group \/ Route(th) \/ Accept(th) \/ Done(th)
         /\ \/ UNCHANGED forced \/ StopScheduler(th)
         /\ \/ UNCHANGED ran \/ Done(th)
         /\ \/ UNCHANGED owed \/ Notify(th) \/ PollTake(th) \/ PollDiscard(th) \/ HaltPool(th)
<1>1. GetPool(th) => UNCHANGED <<scheduler, pool, idle, group, forced, ran, owed>>
  BY DEF GetPool, history
<1>2. MakePool(th) => UNCHANGED <<pool, group, forced, ran, owed>>
  BY DEF MakePool, history
<1>3. BuildPool(th) => UNCHANGED <<group, forced, ran, owed>>
  BY DEF BuildPool, history
<1>4. RefusePool(th) => UNCHANGED <<scheduler, pool, idle, group, forced, ran, owed>>
  BY DEF RefusePool, history
<1>5. Route(th) => UNCHANGED <<scheduler, idle, forced, ran, owed>>
  BY DEF Route, history
<1>6. Accept(th) => UNCHANGED <<scheduler, pool, idle, forced, ran, owed>>
  BY DEF Accept, history
<1>7. Enqueue(th) => UNCHANGED <<scheduler, idle, group, forced, ran, owed>>
  BY DEF Enqueue, history
<1>8. Notify(th) => UNCHANGED <<scheduler, group, forced, ran>>
  BY DEF Notify, history
<1>9. Unregister(th) => UNCHANGED <<scheduler, idle, group, forced, ran, owed>>
  BY DEF Unregister, history
<1>10. PollLatched(th) => UNCHANGED <<scheduler, group, forced, ran, owed>>
  BY DEF PollLatched, history
<1>11. PollTake(th) => UNCHANGED <<scheduler, group, forced, ran>>
  BY DEF PollTake, history
<1>12. PollIdle(th) => UNCHANGED <<scheduler, group, forced, ran, owed>>
  BY DEF PollIdle, history
<1>13. PollDiscard(th) => UNCHANGED <<scheduler, idle, group, forced, ran>>
  BY DEF PollDiscard, history
<1>14. PollExit(th) => UNCHANGED <<scheduler, pool, idle, group, forced, ran, owed>>
  BY DEF PollExit, history
<1>15. Wake(th) => UNCHANGED <<scheduler, pool, idle, group, forced, ran, owed>>
  BY DEF Wake, history
<1>16. Done(th) => UNCHANGED <<scheduler, pool, idle, forced, owed>>
  BY DEF Done, history
<1>17. AddIdle(th) => UNCHANGED <<scheduler, idle, group, forced, ran, owed>>
  BY DEF AddIdle, history
<1>18. AddIdleToAll(th) => UNCHANGED <<pool, idle, group, forced, ran, owed>>
  BY DEF AddIdleToAll, history
<1>19. RemoveIdle(th) => UNCHANGED <<scheduler, idle, group, forced, ran, owed>>
  BY DEF RemoveIdle, history
<1>20. RemoveIdleFromAll(th) => UNCHANGED <<pool, idle, group, forced, ran, owed>>
  BY DEF RemoveIdleFromAll, history
<1>21. Start(th) => UNCHANGED <<pool, group, forced, ran, owed>>
  BY DEF Start, history
<1>22. Begin(th) => UNCHANGED <<scheduler, pool, idle, group, forced, ran, owed>>
  BY DEF Begin, history
<1>23. StartMain(th) => UNCHANGED <<scheduler, pool, group, forced, ran, owed>>
  BY DEF StartMain, history
<1>24. Shutdown(th) => UNCHANGED <<scheduler, pool, idle, group, forced, ran, owed>>
  BY DEF Shutdown, history
<1>25. StopScheduler(th) => UNCHANGED <<pool, idle, group, ran, owed>>
  BY DEF StopScheduler, history
<1>26. HaltPool(th) => UNCHANGED <<scheduler, idle, group, forced, ran>>
  BY DEF HaltPool, history
<1>27. AwaitDiscard(th) => UNCHANGED <<scheduler, pool, idle, group, forced, ran, owed>>
  BY DEF AwaitDiscard, history
<1>28. Finals(th) => UNCHANGED <<scheduler, pool, idle, group, forced, ran, owed>>
  BY DEF Finals, history
<1>29. Join(th) => UNCHANGED <<scheduler, pool, idle, group, forced, ran, owed>>
  BY DEF Join, history
<1> QED BY <1>1, <1>2, <1>3, <1>4, <1>5, <1>6, <1>7, <1>8, <1>9, <1>10, <1>11, <1>12, <1>13, <1>14, <1>15, <1>16, <1>17, <1>18, <1>19, <1>20, <1>21, <1>22, <1>23, <1>24, <1>25, <1>26, <1>27, <1>28, <1>29 DEF Step

-----------------------------------------------------------------------------
(* The shape of the state.                                                 *)

IdleRec == [active : [Pools -> Int], thread : [Threads -> BOOLEAN],
            active_pools : Int, pool : [Pools -> BOOLEAN]]
PoolRec == [made : BOOLEAN, running : BOOLEAN, accept : BOOLEAN, live : BOOLEAN,
            pending_idle : BOOLEAN, discard : BOOLEAN, external_waiters : Int,
            queue : Seq(Tasks), idle_tasks : SUBSET Tasks]

LEMMA CountsTyped ==
  ASSUME NEW i \in IdleRec, NEW p \in Pools, NEW th \in Threads
  PROVE  /\ ThreadIdle(i, p, th) \in IdleRec /\ ThreadBusy(i, p, th) \in IdleRec
         /\ PoolIdle(i, p) \in IdleRec /\ PoolBusy(i, p) \in IdleRec
<1>1. ThreadIdle(i, p, th) \in IdleRec
  <2> DEFINE j == [i EXCEPT !.thread[th] = TRUE]
  <2>1. j \in IdleRec
    BY DEF IdleRec
  <2>2. \A k \in IdleRec : [k EXCEPT !.active[p] = @ - 1] \in IdleRec
    BY DEF IdleRec
  <2>3. ThreadIdle(i, p, th) \in {i, [j EXCEPT !.active[p] = @ - 1]}
    BY DEF ThreadIdle
  <2> HIDE DEF j
  <2> QED BY <2>1, <2>2, <2>3
<1>2. ThreadBusy(i, p, th) \in IdleRec
  <2> DEFINE j == [i EXCEPT !.thread[th] = FALSE]
  <2>1. j \in IdleRec
    BY DEF IdleRec
  <2>2. \A k \in IdleRec : [k EXCEPT !.active[p] = @ + 1] \in IdleRec
    BY DEF IdleRec
  <2>3. ThreadBusy(i, p, th) \in {i, [j EXCEPT !.active[p] = @ + 1]}
    BY DEF ThreadBusy
  <2> HIDE DEF j
  <2> QED BY <2>1, <2>2, <2>3
<1>3. PoolIdle(i, p) \in IdleRec
  <2> DEFINE j == [i EXCEPT !.pool[p] = TRUE]
  <2>1. j \in IdleRec
    BY DEF IdleRec
  <2>2. \A k \in IdleRec : [k EXCEPT !.active_pools = @ - 1] \in IdleRec
    BY DEF IdleRec
  <2>3. PoolIdle(i, p) \in {i, [j EXCEPT !.active_pools = @ - 1]}
    BY DEF PoolIdle
  <2> HIDE DEF j
  <2> QED BY <2>1, <2>2, <2>3
<1>4. PoolBusy(i, p) \in IdleRec
  <2> DEFINE j == [i EXCEPT !.pool[p] = FALSE]
  <2>1. j \in IdleRec
    BY DEF IdleRec
  <2>2. \A k \in IdleRec : [k EXCEPT !.active_pools = @ + 1] \in IdleRec
    BY DEF IdleRec
  <2>3. PoolBusy(i, p) \in {i, [j EXCEPT !.active_pools = @ + 1]}
    BY DEF PoolBusy
  <2> HIDE DEF j
  <2> QED BY <2>1, <2>2, <2>3
<1> QED BY <1>1, <1>2, <1>3, <1>4

LEMMA WorkersFinite ==
  ASSUME Types, NEW p \in Pools
  PROVE  /\ IsFiniteSet(Workers(p)) /\ Cardinality(Workers(p)) \in Nat
         /\ \A S \in SUBSET Workers(p) : IsFiniteSet(S) /\ Cardinality(S) \in 0 .. Cardinality(Workers(p))
<1>1. Workers(p) \subseteq Threads
  BY Cast
<1>2. IsFiniteSet(Workers(p))
  BY <1>1, PowerPlantAssumption, FS_Subset
<1>3. Cardinality(Workers(p)) \in Nat
  BY <1>2, FS_CardinalityType
<1>4. ASSUME NEW S \in SUBSET Workers(p)
      PROVE  IsFiniteSet(S) /\ Cardinality(S) \in 0 .. Cardinality(Workers(p))
  <2>1. IsFiniteSet(S) /\ Cardinality(S) <= Cardinality(Workers(p))
    BY <1>2, FS_Subset
  <2>2. Cardinality(S) \in Nat
    BY <2>1, FS_CardinalityType
  <2> QED BY <1>3, <2>1, <2>2
<1> QED BY <1>2, <1>3, <1>4

LEMMA ActivatedTyped ==
  ASSUME Types, NEW i \in IdleRec, NEW ps
  PROVE  Activated(i, ps) \in IdleRec
<1>1. \A p \in Pools : Cardinality(Workers(p)) \in Int
  BY WorkersFinite
<1>2. [p \in Pools |-> IF p \in ps /\ Counts(p) THEN Cardinality(Workers(p)) ELSE i.active[p]] \in [Pools -> Int]
  BY <1>1 DEF IdleRec
<1>3. i.active \in [Pools -> Int]
  BY DEF IdleRec
<1> QED BY <1>2 DEF Activated, IdleRec

\* A task put into a queue.
LEMMA QueuedOf ==
  ASSUME Types, NEW q \in Seq(Tasks), NEW t \in Tasks
  PROVE  Queued(q, t) \in Seq(Tasks) /\ Range(Queued(q, t)) = Range(q) \cup {t} /\ Queued(q, t) # <<>>
<1> DEFINE B == {i \in DOMAIN q : q[i] \notin scenario.low}
           k == Cardinality(B)
           x == SubSeq(q, 1, k)
           y == SubSeq(q, k + 1, Len(q))
<1>1. Len(q) \in Nat /\ DOMAIN q = 1 .. Len(q) /\ \A i \in 1 .. Len(q) : q[i] \in Tasks
  BY LenProperties, ElementOfSeq
<1>2. k \in 0 .. Len(q)
  <2>1. IsFiniteSet(1 .. Len(q)) /\ Cardinality(1 .. Len(q)) = Len(q)
    <3>1. \A n \in Nat : IsFiniteSet(1 .. n) /\ Cardinality(1 .. n) = n
      BY FS_Interval
    <3> QED BY <1>1, <3>1
  <2>2. B \subseteq 1 .. Len(q)
    BY <1>1
  <2>3. IsFiniteSet(B) /\ Cardinality(B) <= Len(q)
    BY <2>1, <2>2, FS_Subset
  <2> QED BY <1>1, <2>3, FS_CardinalityType
<1>3. <<t>> \in Seq(Tasks) /\ Range(<<t>>) = {t} /\ Len(<<t>>) = 1
  BY RangeOf
<1> HIDE DEF B, k
<1>4. CASE t \in scenario.low
  <2>1. Queued(q, t) = Append(q, t)
    BY <1>4 DEF Queued
  <2>2. /\ Append(q, t) \in Seq(Tasks) /\ Len(Append(q, t)) = Len(q) + 1
        /\ \A i \in 1 .. Len(q) : Append(q, t)[i] = q[i]
        /\ Append(q, t)[Len(q) + 1] = t
    BY AppendProperties
  <2>3. DOMAIN Append(q, t) = 1 .. (Len(q) + 1) /\ DOMAIN q = 1 .. Len(q)
    BY <1>1, <2>2, LenProperties
  <2>4. \A u \in Range(Append(q, t)) : u \in Range(q) \cup {t}
    <3> SUFFICES ASSUME NEW u \in Range(Append(q, t))
                 PROVE  u \in Range(q) \cup {t}
      OBVIOUS
    <3>1. PICK i \in 1 .. (Len(q) + 1) : u = Append(q, t)[i]
      BY <2>3 DEF Range
    <3>2. i \in 1 .. Len(q) \/ i = Len(q) + 1
      BY <1>1, <3>1
    <3> QED BY <2>2, <2>3, <3>1, <3>2 DEF Range
  <2>5. Len(q) + 1 \in DOMAIN Append(q, t) /\ \A i \in 1 .. Len(q) : i \in DOMAIN Append(q, t)
    BY <1>1, <2>3
  <2>6. t \in Range(Append(q, t))
    BY <2>2, <2>5 DEF Range
  <2>7. \A u \in Range(q) : u \in Range(Append(q, t))
    BY <2>2, <2>3, <2>5 DEF Range
  <2> QED BY <2>1, <2>2, <2>4, <2>6, <2>7, EmptySeq, <1>1
<1>5. CASE t \notin scenario.low
  <2>1. Queued(q, t) = x \o <<t>> \o y
    <3>1. Queued(q, t) = InsertAt(q, k + 1, t)
      BY <1>5 DEF Queued, k, B
    <3>2. (k + 1) - 1 = k
      BY <1>2
    <3> QED BY <3>1, <3>2 DEF InsertAt
  <2>2. /\ x \in Seq(Tasks) /\ Len(x) = k /\ \A i \in 1 .. k : x[i] = q[i]
        /\ y \in Seq(Tasks) /\ Len(y) = Len(q) - k /\ \A i \in 1 .. (Len(q) - k) : y[i] = q[k + i]
    <3>1. /\ x \in Seq(Tasks) /\ Len(x) = k /\ \A i \in 1 .. k : x[i] = q[i]
      BY <1>1, <1>2, SubSeqProperties
    <3>2. /\ y \in Seq(Tasks) /\ Len(y) = Len(q) - k /\ \A i \in 1 .. (Len(q) - k) : y[i] = q[k + i]
      <4>1. k + 1 \in Int /\ Len(q) \in Int /\ \A i \in (k + 1) .. Len(q) : q[i] \in Tasks
        BY <1>1, <1>2
      <4>2. /\ y \in Seq(Tasks) /\ Len(y) = IF k + 1 <= Len(q) THEN Len(q) - (k + 1) + 1 ELSE 0
            /\ \A i \in 1 .. (Len(q) - (k + 1) + 1) : y[i] = q[(k + 1) + i - 1]
        BY <4>1, SubSeqProperties
      <4> DEFINE n == Len(q)
      <4>3. n \in Nat /\ k \in Nat /\ k <= n
        BY <1>1, <1>2
      <4>4. /\ y \in Seq(Tasks) /\ Len(y) = IF k + 1 <= n THEN n - (k + 1) + 1 ELSE 0
            /\ \A i \in 1 .. (n - (k + 1) + 1) : y[i] = q[(k + 1) + i - 1]
        BY <4>2
      <4> HIDE DEF y, n
      <4>5. (n - (k + 1)) + 1 = n - k /\ (~(k + 1 <= n) => n - k = 0)
        BY <4>3
      <4>6. Len(y) = n - k
        BY <4>4, <4>5
      <4>7. ASSUME NEW i \in 1 .. (n - k)
            PROVE  y[i] = q[k + i]
        <5> DEFINE m == (k + 1) + i - 1
        <5>1. m = k + i
          BY <4>3
        <5>2. y[i] = q[m]
          BY <4>4, <4>5
        <5> HIDE DEF m
        <5> QED BY <5>1, <5>2, Zenon
      <4> QED BY <4>4, <4>6, <4>7 DEF n
    <3> QED BY <3>1, <3>2
  <2> DEFINE z == <<t>>
  <2> HIDE DEF x, y, z
  <2>11. z \in Seq(Tasks) /\ Range(z) = {t}
    BY <1>3 DEF z
  <2>12. \A u, v \in Seq(Tasks) : u \o v \in Seq(Tasks) /\ Range(u \o v) = Range(u) \cup Range(v)
    BY RangeJoin
  <2>3. DOMAIN x = 1 .. k /\ DOMAIN y = 1 .. (Len(q) - k)
    BY <2>2, LenProperties
  <2>4. x \o z \in Seq(Tasks) /\ Range(x \o z) = Range(x) \cup {t}
    BY <2>2, <2>11, <2>12
  <2>5. x \o z \o y \in Seq(Tasks) /\ Range(x \o z \o y) = Range(x) \cup {t} \cup Range(y)
    BY <2>2, <2>4, <2>12
  <2>6. \A i \in 1 .. Len(q) : i \in 1 .. k \/ (i - k \in 1 .. (Len(q) - k) /\ q[i] = y[i - k])
    BY <1>1, <1>2, <2>2
  <2>7. Range(q) \subseteq Range(x) \cup Range(y)
    BY <1>1, <2>2, <2>3, <2>6 DEF Range
  <2>8. Range(x) \subseteq Range(q)
    BY <1>1, <1>2, <2>2, <2>3 DEF Range
  <2>9. Range(y) \subseteq Range(q)
    <3>1. \A i \in 1 .. (Len(q) - k) : k + i \in 1 .. Len(q)
      BY <1>1, <1>2
    <3> QED BY <1>1, <2>2, <2>3, <3>1 DEF Range
  <2>10. x \o z \o y # <<>>
    <3>1. t \in Range(x \o z \o y)
      BY <2>5
    <3> QED BY <3>1, RangeOf
  <2> QED BY <2>1, <2>5, <2>7, <2>8, <2>9, <2>10 DEF z
<1> QED BY <1>4, <1>5

\* One pool is changed.  What the others hold, and what is not named, stays.
OnePool(p, r) == pool' \in [Pools -> PoolRec] /\ pool'[p] = r /\ \A q \in Pools \ {p} : pool'[q] = pool[q]
SteadyPools == \A p \in Pools : /\ pool'[p].made = pool[p].made /\ pool'[p].accept = pool[p].accept
                                /\ pool'[p].running = pool[p].running
SameQueues == \A p \in Pools : pool'[p].queue = pool[p].queue
SameLive == \A p \in Pools : pool'[p].live = pool[p].live
SameDiscard == \A p \in Pools : pool'[p].discard = pool[p].discard
SameWaiters == \A p \in Pools : pool'[p].external_waiters = pool[p].external_waiters

LEMMA PoolSet ==
  ASSUME pool \in [Pools -> PoolRec], NEW p \in Pools, NEW r \in PoolRec, pool' = [pool EXCEPT ![p] = r]
  PROVE  OnePool(p, r)
  BY DEF OnePool

LEMMA RoutePool ==
  ASSUME Types, NEW th \in Threads, Route(th)
  PROVE  LET t == Head(todo[th])[2]
         IN /\ pool' \in [Pools -> PoolRec] /\ SteadyPools /\ SameQueues /\ SameLive /\ SameDiscard
            /\ IF t \in scenario.sync /\ group.taken
               THEN /\ pool'[Home(t)].external_waiters = pool[Home(t)].external_waiters + 1
                    /\ \A q \in Pools \ {Home(t)} : pool'[q] = pool[q]
               ELSE pool' = pool
<1> DEFINE t == Head(todo[th])[2]
           p == Home(t)
           r == pool[p]
<1>1. /\ At(th, "route") /\ pool \in [Pools -> PoolRec]
      /\ IF t \in scenario.sync /\ group.taken
         THEN pool' = [pool EXCEPT ![p].external_waiters = @ + 1, ![p].pending_idle = @ \/ IdleRelevant(p)]
         ELSE UNCHANGED pool
  BY DEF Route, Arg, Types, PoolRec
<1>2. t \in Tasks /\ p \in Pools
  BY <1>1, HeadOp, Arguments, Cast DEF At
<1> HIDE DEF t, p
<1>3. CASE t \in scenario.sync /\ group.taken
  <2> DEFINE a == [r EXCEPT !.external_waiters = @ + 1]
             b == [a EXCEPT !.pending_idle = @ \/ IdleRelevant(p)]
  <2>1. r \in PoolRec
    BY <1>1, <1>2
  <2>2. a \in PoolRec /\ a.external_waiters = r.external_waiters + 1
        /\ a.made = r.made /\ a.accept = r.accept /\ a.running = r.running /\ a.queue = r.queue
        /\ a.live = r.live /\ a.discard = r.discard
    BY <2>1 DEF PoolRec
  <2> DEFINE half == [pool EXCEPT ![p] = a]
  <2>3. half \in [Pools -> PoolRec] /\ half[p] = a /\ \A q \in Pools \ {p} : half[q] = pool[q]
    BY <1>1, <1>2, <2>2
  <2>6. pool' = [half EXCEPT ![p].pending_idle = @ \/ IdleRelevant(p)]
    BY <1>1, <1>3
  <2> HIDE DEF a, half
  <2>4. b \in PoolRec /\ b.external_waiters = a.external_waiters
        /\ b.made = a.made /\ b.accept = a.accept /\ b.running = a.running /\ b.queue = a.queue
        /\ b.live = a.live /\ b.discard = a.discard
    BY <2>2 DEF PoolRec, IdleRelevant
  <2> HIDE DEF b
  <2>5. OnePool(p, b)
    <3>1. pool' = [half EXCEPT ![p] = b]
      BY <1>2, <2>3, <2>6 DEF b
    <3> QED BY <1>2, <2>3, <2>4, <3>1 DEF OnePool
  <2> QED BY <1>2, <1>3, <2>2, <2>4, <2>5 DEF OnePool, SteadyPools, SameQueues, SameLive, SameDiscard, t, p
<1>4. CASE ~(t \in scenario.sync /\ group.taken)
  BY <1>1, <1>4 DEF SteadyPools, SameQueues, SameLive, SameDiscard, t, p
<1> QED BY <1>3, <1>4

LEMMA EnqueuePool ==
  ASSUME Types, NEW th \in Threads, Enqueue(th)
  PROVE  LET t == Head(todo[th])[2]
         IN /\ t \in Tasks /\ Home(t) \in Pools
            /\ pool' \in [Pools -> PoolRec] /\ SteadyPools /\ SameLive /\ SameDiscard /\ SameWaiters
            /\ pool'[Home(t)].queue = Queued(pool[Home(t)].queue, t)
            /\ Range(pool'[Home(t)].queue) = Range(pool[Home(t)].queue) \cup {t}
            /\ \A q \in Pools \ {Home(t)} : pool'[q] = pool[q]
<1> DEFINE t == Head(todo[th])[2]
           p == Home(t)
           r == pool[p]
           a == [r EXCEPT !.queue = Queued(@, t)]
<1>1. At(th, "enqueue") /\ pool \in [Pools -> PoolRec]
      /\ pool' = [pool EXCEPT ![p].queue = Queued(@, t)]
  BY DEF Enqueue, Arg, Types, PoolRec
<1>2. t \in Tasks /\ p \in Pools
  BY <1>1, HeadOp, Arguments, Cast DEF At
<1>3. pool' = [pool EXCEPT ![p] = a]
  BY <1>1, <1>2
<1>4. r \in PoolRec
  BY <1>1, <1>2
<1> HIDE DEF t, p, r
<1>5. r.queue \in Seq(Tasks)
  BY <1>4 DEF PoolRec
<1>6. Queued(r.queue, t) \in Seq(Tasks) /\ Range(Queued(r.queue, t)) = Range(r.queue) \cup {t}
  BY <1>2, <1>5, QueuedOf
<1>7. a \in PoolRec /\ a.external_waiters = r.external_waiters
      /\ a.made = r.made /\ a.accept = r.accept /\ a.running = r.running /\ a.queue = Queued(r.queue, t)
      /\ a.live = r.live /\ a.discard = r.discard
  BY <1>4, <1>6 DEF PoolRec
<1> HIDE DEF a
<1>8. OnePool(p, a)
  BY <1>1, <1>2, <1>3, <1>7, PoolSet
<1> QED BY <1>2, <1>6, <1>7, <1>8 DEF OnePool, SteadyPools, SameLive, SameDiscard, SameWaiters, t, p, r

LEMMA NotifyPool ==
  ASSUME Types, NEW th \in Threads, Notify(th)
  PROVE  LET p == Head(todo[th])[2]
         IN /\ p \in Pools
            /\ pool' \in [Pools -> PoolRec] /\ SteadyPools /\ SameQueues /\ SameDiscard /\ SameWaiters
            /\ pool'[p].live /\ \A q \in Pools \ {p} : pool'[q] = pool[q]
<1> DEFINE p == Head(todo[th])[2]
           r == pool[p]
           a == [r EXCEPT !.live = TRUE]
<1>1. At(th, "notify") /\ pool \in [Pools -> PoolRec] /\ pool' = [pool EXCEPT ![p].live = TRUE]
  BY DEF Notify, Arg, Types, PoolRec
<1>2. p \in Pools
  BY <1>1, HeadOp, Arguments DEF At
<1>3. pool' = [pool EXCEPT ![p] = a] /\ r \in PoolRec
  BY <1>1, <1>2
<1> HIDE DEF p, r
<1>4. a \in PoolRec /\ a.external_waiters = r.external_waiters
      /\ a.made = r.made /\ a.accept = r.accept /\ a.running = r.running /\ a.queue = r.queue
      /\ a.live /\ a.discard = r.discard
  BY <1>3 DEF PoolRec
<1> HIDE DEF a
<1>5. OnePool(p, a)
  BY <1>1, <1>2, <1>3, <1>4, PoolSet
<1> QED BY <1>2, <1>4, <1>5 DEF OnePool, SteadyPools, SameQueues, SameDiscard, SameWaiters, p, r

LEMMA UnregisterPool ==
  ASSUME Types, NEW th \in Threads, Unregister(th)
  PROVE  LET p == Head(todo[th])[2]
         IN /\ p \in Pools
            /\ pool' \in [Pools -> PoolRec] /\ SteadyPools /\ SameQueues /\ SameLive /\ SameDiscard
            /\ pool'[p].external_waiters = pool[p].external_waiters - 1
            /\ \A q \in Pools \ {p} : pool'[q] = pool[q]
<1> DEFINE p == Head(todo[th])[2]
           r == pool[p]
           a == [r EXCEPT !.external_waiters = @ - 1]
<1>1. At(th, "unregister") /\ pool \in [Pools -> PoolRec]
      /\ pool' = [pool EXCEPT ![p].external_waiters = @ - 1]
  BY DEF Unregister, Arg, Types, PoolRec
<1>2. p \in Pools
  BY <1>1, HeadOp, Arguments DEF At
<1>3. pool' = [pool EXCEPT ![p] = a] /\ r \in PoolRec
  BY <1>1, <1>2
<1> HIDE DEF p, r
<1>4. a \in PoolRec /\ a.external_waiters = r.external_waiters - 1
      /\ a.made = r.made /\ a.accept = r.accept /\ a.running = r.running /\ a.queue = r.queue
      /\ a.live = r.live /\ a.discard = r.discard
  BY <1>3 DEF PoolRec
<1> HIDE DEF a
<1>5. OnePool(p, a)
  BY <1>1, <1>2, <1>3, <1>4, PoolSet
<1> QED BY <1>2, <1>4, <1>5 DEF OnePool, SteadyPools, SameQueues, SameDiscard, SameLive, p, r

\* Idle reactions are bound and unbound, and latched.
LEMMA IdleTasksPool ==
  ASSUME Types, Scripts, NEW th \in Threads, PollLatched(th) \/ AddIdle(th) \/ RemoveIdle(th)
  PROVE  pool' \in [Pools -> PoolRec] /\ SteadyPools /\ SameQueues /\ SameLive /\ SameDiscard /\ SameWaiters
<1>1. pool \in [Pools -> PoolRec]
  BY DEF Types, PoolRec
<1>2. PICK p \in Pools, r \in PoolRec :
        /\ pool' = [pool EXCEPT ![p] = r]
        /\ r.external_waiters = pool[p].external_waiters
        /\ r.made = pool[p].made /\ r.accept = pool[p].accept /\ r.running = pool[p].running
        /\ r.queue = pool[p].queue /\ r.live = pool[p].live /\ r.discard = pool[p].discard
  <2>1. CASE PollLatched(th)
    <3> DEFINE p == PoolOf(th)
               r == [pool[p] EXCEPT !.pending_idle = FALSE]
    <3>1. p \in Pools /\ pool' = [pool EXCEPT ![p].pending_idle = FALSE]
      BY <2>1, PollLatchedMoves DEF PollLatched
    <3> HIDE DEF p
    <3>2. pool' = [pool EXCEPT ![p] = r] /\ pool[p] \in PoolRec
      BY <1>1, <3>1
    <3>3. /\ r \in PoolRec /\ r.external_waiters = pool[p].external_waiters
          /\ r.made = pool[p].made /\ r.accept = pool[p].accept /\ r.running = pool[p].running
          /\ r.queue = pool[p].queue /\ r.live = pool[p].live /\ r.discard = pool[p].discard
      BY <3>2 DEF PoolRec
    <3> HIDE DEF r
    <3> QED BY <3>1, <3>2, <3>3
  <2>2. CASE AddIdle(th)
    <3> DEFINE p == Head(todo[th])[3]
               t == Head(todo[th])[2]
               r == [pool[p] EXCEPT !.idle_tasks = @ \cup {t}]
    <3>1. At(th, "add") /\ pool' = [pool EXCEPT ![p].idle_tasks = @ \cup {t}]
      BY <2>2 DEF AddIdle, Arg
    <3>2. p \in Pools /\ t \in Tasks
      BY <3>1, HeadOp, Arguments DEF At
    <3> HIDE DEF p, t
    <3>3. pool' = [pool EXCEPT ![p] = r] /\ pool[p] \in PoolRec
      BY <1>1, <3>1, <3>2
    <3>4. /\ r \in PoolRec /\ r.external_waiters = pool[p].external_waiters
          /\ r.made = pool[p].made /\ r.accept = pool[p].accept /\ r.running = pool[p].running
          /\ r.queue = pool[p].queue /\ r.live = pool[p].live /\ r.discard = pool[p].discard
      BY <3>2, <3>3 DEF PoolRec
    <3> HIDE DEF r
    <3> QED BY <3>2, <3>3, <3>4
  <2>3. CASE RemoveIdle(th)
    <3> DEFINE p == Head(todo[th])[3]
               t == Head(todo[th])[2]
               r == [pool[p] EXCEPT !.idle_tasks = @ \ {t}]
    <3>1. At(th, "unbind") /\ pool' = [pool EXCEPT ![p].idle_tasks = @ \ {t}]
      BY <2>3 DEF RemoveIdle, Arg
    <3>2. p \in Pools /\ t \in Tasks
      BY <3>1, HeadOp, Arguments DEF At
    <3> HIDE DEF p, t
    <3>3. pool' = [pool EXCEPT ![p] = r] /\ pool[p] \in PoolRec
      BY <1>1, <3>1, <3>2
    <3>4. /\ r \in PoolRec /\ r.external_waiters = pool[p].external_waiters
          /\ r.made = pool[p].made /\ r.accept = pool[p].accept /\ r.running = pool[p].running
          /\ r.queue = pool[p].queue /\ r.live = pool[p].live /\ r.discard = pool[p].discard
      BY <3>2, <3>3 DEF PoolRec
    <3> HIDE DEF r
    <3> QED BY <3>2, <3>3, <3>4
  <2> QED BY <2>1, <2>2, <2>3
<1>3. OnePool(p, r)
  BY <1>1, <1>2, PoolSet
<1> QED BY <1>2, <1>3 DEF OnePool, SteadyPools, SameQueues, SameLive, SameDiscard, SameWaiters

\* A worker takes a task, finds nothing, or drops the queue of its pool.
LEMMA PollTakePool ==
  ASSUME Types, Scripts, Places, NEW th \in Threads, PollTake(th)
  PROVE  LET p == PoolOf(th)
         IN /\ p \in Pools /\ th \in Workers(p) /\ todo[th] # <<>> /\ Head(todo[th]) = <<"poll">>
            /\ pool' \in [Pools -> PoolRec] /\ SteadyPools /\ SameLive /\ SameDiscard /\ SameWaiters
            /\ pool[p].queue # <<>> /\ pool'[p].queue = Tail(pool[p].queue)
            /\ pool[p].live /\ Head(pool[p].queue) \in Tasks
            /\ Range(pool[p].queue) = {Head(pool[p].queue)} \cup Range(pool'[p].queue)
            /\ \A q \in Pools \ {p} : pool'[q] = pool[q]
<1> DEFINE p == PoolOf(th)
           r == pool[p]
           a == [r EXCEPT !.queue = Tail(@)]
           b == [a EXCEPT !.pending_idle = FALSE]
<1>1. /\ At(th, "poll") /\ pool \in [Pools -> PoolRec]
      /\ pool' = [pool EXCEPT ![p].queue = Tail(@), ![p].pending_idle = FALSE]
  BY DEF PollTake, Serves, Types, PoolRec
<1>2. p \in Pools /\ th \in Workers(p) /\ todo[th] # <<>> /\ Head(todo[th]) = <<"poll">>
  BY <1>1, AtPoll
<1>0. pool[p].queue # <<>> /\ pool[p].live /\ Tail(pool[p].queue) \in Seq(Tasks) /\ Head(pool[p].queue) \in Tasks
      /\ Range(pool[p].queue) = {Head(pool[p].queue)} \cup Range(Tail(pool[p].queue))
  <2>1. pool[p].queue # <<>> /\ pool[p].live
    BY DEF PollTake, Take
  <2>2. pool[p].queue \in Seq(Tasks)
    BY <1>1, <1>2 DEF PoolRec
  <2> QED BY <2>1, <2>2, RangeSplit
<1> HIDE DEF p
<1>3. r \in PoolRec
  BY <1>1, <1>2
<1>4. a \in PoolRec /\ a.external_waiters = r.external_waiters
      /\ a.made = r.made /\ a.accept = r.accept /\ a.running = r.running /\ a.live = r.live /\ a.queue = Tail(r.queue)
      /\ a.discard = r.discard
  BY <1>3, <1>0 DEF PoolRec
<1> DEFINE half == [pool EXCEPT ![p] = a]
<1>5. half \in [Pools -> PoolRec] /\ half[p] = a /\ \A q \in Pools \ {p} : half[q] = pool[q]
  BY <1>1, <1>2, <1>4
<1>6. pool' = [half EXCEPT ![p].pending_idle = FALSE]
  BY <1>1
<1> HIDE DEF a, half
<1>7. b \in PoolRec /\ b.external_waiters = a.external_waiters
      /\ b.made = a.made /\ b.accept = a.accept /\ b.running = a.running /\ b.live = a.live
      /\ b.queue = a.queue /\ b.discard = a.discard
  BY <1>4 DEF PoolRec
<1>8. OnePool(p, b)
  <2>1. pool' = [half EXCEPT ![p] = b]
    BY <1>2, <1>5, <1>6 DEF b
  <2> QED BY <1>2, <1>5, <1>7, <2>1 DEF OnePool
<1> HIDE DEF b
<1> QED BY <1>1, <1>2, <1>4, <1>7, <1>8, <1>0 DEF OnePool, SteadyPools, SameLive, SameDiscard, SameWaiters, p

LEMMA PollIdlePool ==
  ASSUME Types, Scripts, NEW th \in Threads, PollIdle(th)
  PROVE  LET p == PoolOf(th)
         IN /\ p \in Pools /\ th \in Workers(p) /\ todo[th] # <<>> /\ Head(todo[th]) = <<"poll">>
            /\ pool' \in [Pools -> PoolRec] /\ SteadyPools /\ SameQueues /\ SameDiscard /\ SameWaiters
            /\ ~pool'[p].live
            /\ \A q \in Pools \ {p} : pool'[q] = pool[q]
<1> DEFINE p == PoolOf(th)
           r == pool[p]
           a == [r EXCEPT !.live = FALSE]
           b == [a EXCEPT !.pending_idle = FALSE]
<1>1. /\ At(th, "poll") /\ pool \in [Pools -> PoolRec]
      /\ pool' = [pool EXCEPT ![p].live = FALSE, ![p].pending_idle = FALSE]
  BY DEF PollIdle, Serves, Types, PoolRec
<1>2. p \in Pools /\ th \in Workers(p) /\ todo[th] # <<>> /\ Head(todo[th]) = <<"poll">>
  BY <1>1, AtPoll
<1> HIDE DEF p
<1>3. r \in PoolRec
  BY <1>1, <1>2
<1>4. a \in PoolRec /\ a.external_waiters = r.external_waiters
      /\ a.made = r.made /\ a.accept = r.accept /\ a.running = r.running /\ ~a.live /\ a.queue = r.queue
      /\ a.discard = r.discard
  BY <1>3 DEF PoolRec
<1> DEFINE half == [pool EXCEPT ![p] = a]
<1>5. half \in [Pools -> PoolRec] /\ half[p] = a /\ \A q \in Pools \ {p} : half[q] = pool[q]
  BY <1>1, <1>2, <1>4
<1>6. pool' = [half EXCEPT ![p].pending_idle = FALSE]
  BY <1>1
<1> HIDE DEF a, half
<1>7. b \in PoolRec /\ b.external_waiters = a.external_waiters
      /\ b.made = a.made /\ b.accept = a.accept /\ b.running = a.running /\ b.live = a.live
      /\ b.queue = a.queue /\ b.discard = a.discard
  BY <1>4 DEF PoolRec
<1>8. OnePool(p, b)
  <2>1. pool' = [half EXCEPT ![p] = b]
    BY <1>2, <1>5, <1>6 DEF b
  <2> QED BY <1>2, <1>5, <1>7, <2>1 DEF OnePool
<1> HIDE DEF b
<1> QED BY <1>1, <1>2, <1>4, <1>7, <1>8 DEF OnePool, SteadyPools, SameQueues, SameDiscard, SameWaiters, p

LEMMA PollDiscardPool ==
  ASSUME Types, Scripts, NEW th \in Threads, PollDiscard(th)
  PROVE  LET p == PoolOf(th)
         IN /\ p \in Pools /\ th \in Workers(p) /\ todo[th] # <<>> /\ Head(todo[th]) = <<"poll">>
            /\ pool' \in [Pools -> PoolRec] /\ SteadyPools /\ SameLive /\ SameWaiters
            /\ pool[p].discard /\ ~pool'[p].discard /\ pool'[p].queue = <<>>
            /\ \A q \in Pools \ {p} : pool'[q] = pool[q]
<1> DEFINE p == PoolOf(th)
           r == pool[p]
           a == [r EXCEPT !.queue = <<>>]
           b == [a EXCEPT !.discard = FALSE]
<1>1. /\ At(th, "poll") /\ pool \in [Pools -> PoolRec]
      /\ pool' = [pool EXCEPT ![p].queue = <<>>, ![p].discard = FALSE]
  BY DEF PollDiscard, Serves, Types, PoolRec
<1>2. p \in Pools /\ th \in Workers(p) /\ todo[th] # <<>> /\ Head(todo[th]) = <<"poll">>
  BY <1>1, AtPoll
<1>0. pool[p].discard /\ <<>> \in Seq(Tasks)
  BY DEF PollDiscard
<1> HIDE DEF p
<1>3. r \in PoolRec
  BY <1>1, <1>2
<1>4. a \in PoolRec /\ a.external_waiters = r.external_waiters
      /\ a.made = r.made /\ a.accept = r.accept /\ a.running = r.running /\ a.live = r.live /\ a.queue = <<>>
      /\ a.discard = r.discard
  BY <1>3, <1>0 DEF PoolRec
<1> DEFINE half == [pool EXCEPT ![p] = a]
<1>5. half \in [Pools -> PoolRec] /\ half[p] = a /\ \A q \in Pools \ {p} : half[q] = pool[q]
  BY <1>1, <1>2, <1>4
<1>6. pool' = [half EXCEPT ![p].discard = FALSE]
  BY <1>1
<1> HIDE DEF a, half
<1>7. b \in PoolRec /\ b.external_waiters = a.external_waiters
      /\ b.made = a.made /\ b.accept = a.accept /\ b.running = a.running /\ b.live = a.live
      /\ b.queue = a.queue /\ ~b.discard
  BY <1>4 DEF PoolRec
<1>8. OnePool(p, b)
  <2>1. pool' = [half EXCEPT ![p] = b]
    BY <1>2, <1>5, <1>6 DEF b
  <2> QED BY <1>2, <1>5, <1>7, <2>1 DEF OnePool
<1> HIDE DEF b
<1> QED BY <1>1, <1>2, <1>4, <1>7, <1>8, <1>0 DEF OnePool, SteadyPools, SameLive, SameWaiters, p

LEMMA HaltPoolPool ==
  ASSUME Types, NEW th \in Threads, HaltPool(th)
  PROVE  LET p == Head(todo[th])[2]
             type == Head(todo[th])[3]
             asks == type = "FORCE" /\ ConsumerAlive(p, th)
         IN /\ p \in Pools /\ pool' \in [Pools -> PoolRec] /\ SameWaiters
            /\ pool'[p].made = pool[p].made /\ pool'[p].live
            /\ pool'[p].accept = (Persistent(p) /\ type # "FORCE")
            /\ pool'[p].running = (Persistent(p) /\ type = "NORMAL")
            /\ pool'[p].discard = (pool[p].discard \/ asks)
            /\ pool'[p].queue = IF type = "FORCE" /\ ~asks THEN <<>> ELSE pool[p].queue
            /\ \A q \in Pools \ {p} : pool'[q] = pool[q]
<1> DEFINE p == Head(todo[th])[2]
           type == Head(todo[th])[3]
           asks == type = "FORCE" /\ ConsumerAlive(p, th)
           r == pool[p]
           a == [r EXCEPT !.live = TRUE]
           b == [a EXCEPT !.accept = Persistent(p) /\ ~(type = "FORCE")]
           c == [b EXCEPT !.running = Persistent(p) /\ type = "NORMAL"]
           d == [c EXCEPT !.discard = pool[p].discard \/ asks]
           e == [d EXCEPT !.queue = IF type = "FORCE" /\ ~asks THEN <<>> ELSE pool[p].queue]
           Kept_(x, y) == x.made = y.made /\ x.external_waiters = y.external_waiters
<1>0. At(th, "halt") /\ pool \in [Pools -> PoolRec]
  BY DEF HaltPool, Types, PoolRec
<1>1. pool' = [pool EXCEPT ![p] = e]
  BY Zenon DEF HaltPool, Arg
<1>2. p \in Pools
  BY <1>0, HeadOp, Arguments DEF At
<1> HIDE DEF e
<1>3. r \in PoolRec
  BY <1>0, <1>2
<1> HIDE DEF p, type, r, asks
<1>4. /\ a \in PoolRec /\ Kept_(a, r) /\ a.live
      /\ a.discard = r.discard /\ a.queue = r.queue
  BY <1>3 DEF PoolRec
<1> HIDE DEF a
<1>5. /\ b \in PoolRec /\ Kept_(b, a) /\ b.live = a.live /\ b.accept = (Persistent(p) /\ ~(type = "FORCE"))
      /\ b.discard = a.discard /\ b.queue = a.queue
  BY <1>4 DEF PoolRec, Persistent
<1> HIDE DEF b
<1>6. /\ c \in PoolRec /\ Kept_(c, b) /\ c.live = b.live /\ c.accept = b.accept
      /\ c.running = (Persistent(p) /\ type = "NORMAL")
      /\ c.discard = b.discard /\ c.queue = b.queue
  BY <1>5 DEF PoolRec, Persistent
<1> HIDE DEF c
<1>7. /\ d \in PoolRec /\ Kept_(d, c) /\ d.live = c.live /\ d.accept = c.accept /\ d.running = c.running
      /\ d.discard = (r.discard \/ asks) /\ d.queue = c.queue
  BY <1>3, <1>6 DEF PoolRec, asks, r
<1> HIDE DEF d
<1>8. /\ e \in PoolRec /\ Kept_(e, d) /\ e.live = d.live /\ e.accept = d.accept /\ e.running = d.running
      /\ e.discard = d.discard /\ e.queue = IF type = "FORCE" /\ ~asks THEN <<>> ELSE r.queue
  <2>1. <<>> \in Seq(Tasks)
    OBVIOUS
  <2> QED BY <1>3, <1>7, <2>1 DEF PoolRec, e, r
<1>9. OnePool(p, e)
  BY <1>0, <1>1, <1>2, <1>8, PoolSet
<1> QED BY <1>2, <1>4, <1>5, <1>6, <1>7, <1>8, <1>9, ZenonT(40) DEF OnePool, SameWaiters, p, type, r, asks

LEMMA BuildPoolPool ==
  ASSUME Types, Scripts, Places, Starting, NEW th \in Threads, BuildPool(th)
  PROVE  LET p == Head(todo[th])[2]
         IN /\ p \in Pools
            /\ pool' \in [Pools -> PoolRec] /\ SameQueues /\ SameLive /\ SameDiscard /\ SameWaiters
            /\ pool'[p].made /\ pool'[p].accept = pool[p].accept /\ pool'[p].running = pool[p].running
            /\ \A q \in Pools \ {p} : pool'[q] = pool[q]
<1> DEFINE p == Head(todo[th])[2]
           r == pool[p]
           a == [r EXCEPT !.made = TRUE]
<1>1. pool \in [Pools -> PoolRec] /\ p \in Pools /\ pool' = [pool EXCEPT ![p].made = TRUE]
  BY BuildPoolMoves DEF Types, PoolRec
<1>2. pool' = [pool EXCEPT ![p] = a] /\ r \in PoolRec
  BY <1>1
<1> HIDE DEF p, r
<1>3. a \in PoolRec /\ a.external_waiters = r.external_waiters
      /\ a.made /\ a.accept = r.accept /\ a.running = r.running /\ a.queue = r.queue
      /\ a.live = r.live /\ a.discard = r.discard
  BY <1>2 DEF PoolRec
<1> HIDE DEF a
<1>4. OnePool(p, a)
  BY <1>1, <1>2, <1>3, PoolSet
<1> QED BY <1>1, <1>3, <1>4 DEF OnePool, SameQueues, SameDiscard, SameLive, SameWaiters, p, r

\* Which of its parts a step changes of the pools.
LEMMA PoolFrame ==
  ASSUME Types, Scripts, Places, Starting, NEW th \in Threads, Step(th)
  PROVE  /\ pool' \in [Pools -> PoolRec]
         /\ SteadyPools \/ BuildPool(th) \/ HaltPool(th)
         /\ \A p \in Pools : pool[p].made => pool'[p].made
         /\ \A p \in Pools : pool'[p].made = pool[p].made \/ BuildPool(th)
         /\ \A p \in Pools : (pool'[p].accept = pool[p].accept /\ pool'[p].running = pool[p].running) \/ HaltPool(th)
         /\ SameQueues \/ Enqueue(th) \/ PollTake(th) \/ PollDiscard(th) \/ HaltPool(th)
         /\ SameLive \/ Notify(th) \/ PollIdle(th) \/ HaltPool(th)
         /\ SameDiscard \/ PollDiscard(th) \/ HaltPool(th)
         /\ SameWaiters \/ Route(th) \/ Unregister(th)
<1>1. CASE UNCHANGED pool
  BY <1>1 DEF Types, PoolRec, SteadyPools, SameQueues, SameLive, SameDiscard, SameWaiters
<1>2. CASE BuildPool(th)
  <2>1. \A p \in Pools : /\ pool[p].made => pool'[p].made
                         /\ pool'[p].accept = pool[p].accept /\ pool'[p].running = pool[p].running
    BY <1>2, BuildPoolPool
  <2> QED BY <1>2, <2>1, BuildPoolPool
<1>3. CASE Route(th)
  BY <1>3, RoutePool DEF SteadyPools
<1>4. CASE Enqueue(th)
  BY <1>4, EnqueuePool DEF SteadyPools
<1>5. CASE Notify(th)
  BY <1>5, NotifyPool DEF SteadyPools
<1>6. CASE Unregister(th)
  BY <1>6, UnregisterPool DEF SteadyPools
<1>7. CASE PollLatched(th) \/ AddIdle(th) \/ RemoveIdle(th)
  BY <1>7, IdleTasksPool DEF SteadyPools
<1>8. CASE PollTake(th)
  BY <1>8, PollTakePool DEF SteadyPools
<1>9. CASE PollIdle(th)
  BY <1>9, PollIdlePool DEF SteadyPools
<1>10. CASE PollDiscard(th)
  BY <1>10, PollDiscardPool DEF SteadyPools
<1>11. CASE HaltPool(th)
  <2>1. \A p \in Pools : pool'[p].made = pool[p].made
    BY <1>11, HaltPoolPool
  <2>2. pool' \in [Pools -> PoolRec] /\ SameWaiters
    BY <1>11, HaltPoolPool
  <2> QED BY <1>11, <2>1, <2>2
<1> QED BY <1>1, <1>2, <1>3, <1>4, <1>5, <1>6, <1>7, <1>8, <1>9, <1>10, <1>11, Frame

\* A worker is not counted out twice.
Searched(th) ==
  LET p == PoolOf(th)
      i == Latched(th)
      j == IF Countable(p) THEN ThreadIdle(i, p, th) ELSE i
  IN IF Countable(p) /\ j.active[p] = 0 /\ ~j.pool[p] THEN PoolIdle(j, p) ELSE j

LEMMA IdleTyped ==
  ASSUME Types, Scripts, Places, Starting, NEW th \in Threads, Step(th)
  PROVE  idle' \in IdleRec
<1>0. idle \in IdleRec
  BY DEF Types, IdleRec
<1>1. CASE UNCHANGED idle
  BY <1>0, <1>1
<1>2. CASE MakePool(th)
  <2>1. \A i \in IdleRec : [i EXCEPT !.active_pools = @ + 1] \in IdleRec
    BY DEF IdleRec
  <2>2. idle' \in {idle, [idle EXCEPT !.active_pools = @ + 1]}
    BY <1>2 DEF MakePool
  <2> QED BY <1>0, <2>1, <2>2
<1>3. CASE BuildPool(th)
  <2> DEFINE p == Head(todo[th])[2]
             i == IF Counts(p) THEN PoolIdle(idle, p) ELSE idle
             now == IF scheduler.started THEN {p} ELSE {}
  <2>1. p \in Pools /\ idle' = Activated(i, now)
    BY <1>3, BuildPoolMoves
  <2> HIDE DEF p, now
  <2>2. i \in IdleRec
    BY <1>0, <2>1, CountsTyped
  <2> HIDE DEF i
  <2> QED BY <2>1, <2>2, ActivatedTyped
<1>4. CASE Notify(th)
  <2> DEFINE p == Head(todo[th])[2]
  <2>1. At(th, "notify") /\ idle' \in {idle, PoolBusy(idle, p)}
    BY <1>4 DEF Notify, Arg
  <2>2. p \in Pools
    BY <2>1, HeadOp, Arguments DEF At
  <2> QED BY <1>0, <2>1, <2>2, CountsTyped
<1>5. CASE PollLatched(th)
  <2>1. PoolOf(th) \in Pools /\ idle' \in {idle, ThreadIdle(idle, PoolOf(th), th)}
    BY <1>5, PollLatchedMoves DEF PollLatched, Latched
  <2> QED BY <1>0, <2>1, CountsTyped
<1>6. CASE PollTake(th)
  <2> DEFINE p == PoolOf(th)
  <2>1. p \in Pools /\ Latched(th) \in {idle, ThreadIdle(idle, p, th)}
        /\ idle' = PoolBusy(ThreadBusy(Latched(th), p, th), p)
    BY <1>6, PollTakeMoves DEF PollTake, Latched
  <2> HIDE DEF p
  <2>2. Latched(th) \in IdleRec
    BY <1>0, <2>1, CountsTyped
  <2>3. ThreadBusy(Latched(th), p, th) \in IdleRec
    BY <2>1, <2>2, CountsTyped
  <2> QED BY <2>1, <2>3, CountsTyped
<1>7. CASE PollIdle(th)
  <2> DEFINE p == PoolOf(th)
             j == IF Countable(p) THEN ThreadIdle(Latched(th), p, th) ELSE Latched(th)
  <2>1. p \in Pools /\ Latched(th) \in {idle, ThreadIdle(idle, p, th)}
    BY <1>7, PollIdleMoves DEF Latched
  <2>2. idle' \in {j, PoolIdle(j, p)}
    BY <1>7 DEF PollIdle
  <2> HIDE DEF p
  <2>3. Latched(th) \in IdleRec
    BY <1>0, <2>1, CountsTyped
  <2>4. j \in IdleRec
    BY <2>1, <2>3, CountsTyped
  <2> HIDE DEF j
  <2> QED BY <2>1, <2>2, <2>4, CountsTyped
<1>8. CASE Start(th)
  <2>1. idle' = Activated(idle, {p \in Pools \ {"main"} : pool[p].made})
    BY <1>8, StartMoves
  <2> QED BY <1>0, <2>1, ActivatedTyped
<1>9. CASE StartMain(th)
  BY <1>0, <1>9, ActivatedTyped DEF StartMain
<1> QED BY <1>1, <1>2, <1>3, <1>4, <1>5, <1>6, <1>7, <1>8, <1>9, Frame

LEMMA TodoTyped ==
  ASSUME Types, Scripts, Places, Starting, NEW th \in Threads, Step(th)
  PROVE  todo' \in [Threads -> Seq(Op)]
<1>1. CASE UNCHANGED todo
  BY <1>1 DEF Types
<1>2. CASE Ordered(th)
  BY <1>2, OrdinaryLeft DEF Ordered
<1>3. CASE BuildPool(th)
  BY <1>3, BuildPoolMoves DEF Launched
<1>4. CASE Start(th)
  BY <1>4, StartMoves DEF Launched
<1> QED BY <1>1, <1>2, <1>3, <1>4, StartMainMoves, PollExitMoves, FinalsMoves, Kinds

LEMMA SchedulerTyped ==
  ASSUME Types, Scripts, Places, Starting, NEW th \in Threads, Step(th)
  PROVE  /\ scheduler' \in [started : BOOLEAN, running : BOOLEAN, building : Pools \cup {Nobody},
                            idle_tasks : SUBSET Tasks]
         /\ scheduler'.started = scheduler.started \/ Start(th)
         /\ scheduler'.running = scheduler.running \/ (StopScheduler(th) /\ ~scheduler'.running)
         /\ scheduler'.building = scheduler.building \/ MakePool(th) \/ BuildPool(th)
<1> DEFINE S == [started : BOOLEAN, running : BOOLEAN, building : Pools \cup {Nobody}, idle_tasks : SUBSET Tasks]
<1>0. scheduler \in S
  BY DEF Types
<1>1. CASE UNCHANGED scheduler
  BY <1>0, <1>1
<1>2. CASE MakePool(th)
  <2>1. Wanted(th) \in Pools
    BY <1>2, MakePoolMoves
  <2>2. scheduler' = [scheduler EXCEPT !.building = Wanted(th)]
    BY <1>2 DEF MakePool
  <2> QED BY <1>0, <1>2, <2>1, <2>2
<1>3. CASE BuildPool(th)
  <2>1. scheduler' = [scheduler EXCEPT !.building = Nobody]
    BY <1>3 DEF BuildPool
  <2> QED BY <1>0, <1>3, <2>1
<1>4. CASE AddIdleToAll(th)
  <2>1. At(th, "bindall") /\ scheduler' = [scheduler EXCEPT !.idle_tasks = @ \cup {Head(todo[th])[2]}]
    BY <1>4 DEF AddIdleToAll, Arg
  <2>2. Head(todo[th])[2] \in Tasks
    BY <2>1, HeadOp, Arguments DEF At
  <2> QED BY <1>0, <2>1, <2>2
<1>5. CASE RemoveIdleFromAll(th)
  <2>1. scheduler' = [scheduler EXCEPT !.idle_tasks = @ \ {Head(todo[th])[2]}]
    BY <1>5 DEF RemoveIdleFromAll, Arg
  <2> QED BY <1>0, <2>1
<1>6. CASE Start(th)
  <2>1. scheduler' = [scheduler EXCEPT !.started = TRUE]
    BY <1>6 DEF Start
  <2> QED BY <1>0, <1>6, <2>1
<1>7. CASE StopScheduler(th)
  <2>1. scheduler' = [scheduler EXCEPT !.running = FALSE]
    BY <1>7 DEF StopScheduler
  <2> QED BY <1>0, <1>7, <2>1
<1> QED BY <1>1, <1>2, <1>3, <1>4, <1>5, <1>6, <1>7, Frame

\* The group's queue.
Parks(th) == Route(th) /\ Head(todo[th])[2] \in scenario.sync /\ group.taken
HandsOver(th) ==
  /\ group.waiting # <<>> /\ Head(todo[th])[2] \in scenario.sync
  /\ \/ Accept(th) /\ ~pool[Home(Head(todo[th])[2])].accept
     \/ Done(th)

LEMMA GroupStep ==
  ASSUME Types, NEW th \in Threads, Step(th)
  PROVE  /\ group' \in [taken : BOOLEAN, waiting : Seq(Tasks \X BOOLEAN)]
         /\ \/ group'.waiting = group.waiting
            \/ /\ Parks(th) /\ Head(todo[th])[2] \in Tasks
               /\ group'.waiting = Append(group.waiting, <<Head(todo[th])[2], ~CurrentIdle(th)>>)
            \/ HandsOver(th) /\ group'.waiting = Tail(group.waiting)
         /\ HandsOver(th) => group'.waiting = Tail(group.waiting) /\ Moved(th, HandedSet, FALSE)
         /\ Parks(th) => group'.waiting = Append(group.waiting, <<Head(todo[th])[2], ~CurrentIdle(th)>>)
<1> DEFINE G == [taken : BOOLEAN, waiting : Seq(Tasks \X BOOLEAN)]
<1>0. group \in G /\ group.waiting \in Seq(Tasks \X BOOLEAN)
  BY DEF Types
<1>1. Handed \in G /\ Handed.waiting = IF group.waiting = <<>> THEN <<>> ELSE Tail(group.waiting)
  <2>1. CASE group.waiting = <<>>
    BY <1>0, <2>1 DEF Handed
  <2>2. CASE group.waiting # <<>>
    <3>1. Tail(group.waiting) \in Seq(Tasks \X BOOLEAN)
      BY <1>0, <2>2, RangeSplit
    <3> QED BY <1>0, <2>2, <3>1 DEF Handed
  <2> QED BY <2>1, <2>2
<1>2. CASE UNCHANGED group /\ ~Route(th) /\ ~Accept(th) /\ ~Done(th)
  BY <1>0, <1>2 DEF Parks, HandsOver
<1>3. CASE Route(th)
  <2> DEFINE t == Head(todo[th])[2]
             w == <<t, ~CurrentIdle(th)>>
  <2>1. At(th, "route") /\ IF t \in scenario.sync /\ group.taken
                           THEN group' = [group EXCEPT !.waiting = Append(@, w)]
                           ELSE group' = [group EXCEPT !.taken = @ \/ t \in scenario.sync]
    BY <1>3 DEF Route, Arg
  <2>2. t \in Tasks
    BY <2>1, HeadOp, Arguments DEF At
  <2>3. ~Accept(th) /\ ~Done(th)
    BY <2>1 DEF At, Accept, Done
  <2>4. w \in Tasks \X BOOLEAN
    BY <2>2
  <2> HIDE DEF w
  <2>5. Append(group.waiting, w) \in Seq(Tasks \X BOOLEAN)
    BY <1>0, <2>4, AppendProperties
  <2>6. group' \in G /\ (group'.waiting = group.waiting \/ (Parks(th) /\ group'.waiting = Append(group.waiting, w)))
        /\ (Parks(th) => group'.waiting = Append(group.waiting, w))
    BY <1>0, <1>3, <2>1, <2>5 DEF Parks
  <2> QED BY <2>2, <2>3, <2>6 DEF HandsOver, w
<1>4. CASE Accept(th)
  <2>1. At(th, "accept") /\ ~Parks(th) /\ ~Done(th)
    BY <1>4 DEF Accept, At, Parks, Route, Done
  <2>2. \/ UNCHANGED group /\ ~HandsOver(th)
        \/ /\ Do(th, Handover) /\ group' = Handed /\ Head(todo[th])[2] \in scenario.sync
           /\ ~pool[Home(Head(todo[th])[2])].accept
    BY <1>4, <2>1 DEF Accept, HandsOver, Arg
  <2>3. Do(th, Handover) => Moved(th, HandedSet, FALSE)
    BY <2>1, HandoverMoves DEF At
  <2> QED BY <1>0, <1>1, <1>4, <2>1, <2>2, <2>3 DEF HandsOver
<1>5. CASE Done(th)
  <2>1. At(th, "done") /\ ~Parks(th) /\ ~Accept(th)
    BY <1>5 DEF Accept, At, Parks, Route, Done
  <2>2. \/ UNCHANGED group /\ ~HandsOver(th)
        \/ /\ Do(th, Handover) /\ group' = Handed /\ Head(todo[th])[2] \in scenario.sync
    BY <1>5, <2>1 DEF Done, HandsOver, Arg
  <2>3. Do(th, Handover) => Moved(th, HandedSet, FALSE)
    BY <2>1, HandoverMoves DEF At
  <2> QED BY <1>0, <1>1, <1>5, <2>1, <2>2, <2>3 DEF HandsOver
<1> QED BY <1>2, <1>3, <1>4, <1>5, Frame

\* Who sleeps is a thread.
LEMMA SleepingTyped ==
  ASSUME Types, Scripts, NEW th \in Threads, Step(th)
  PROVE  sleeping' \in [Pools -> SUBSET Threads]
<1>0. sleeping \in [Pools -> SUBSET Threads]
  BY DEF Types
<1>1. \A p : NotifyOne(p) => sleeping' \in [Pools -> SUBSET Threads]
  BY <1>0 DEF NotifyOne
<1>2. \A p : NotifyAll(p) => sleeping' \in [Pools -> SUBSET Threads]
  BY <1>0 DEF NotifyAll
<1>3. \A p \in Pools : \A S \in SUBSET Threads :
        sleeping' = [sleeping EXCEPT ![p] = S] => sleeping' \in [Pools -> SUBSET Threads]
  BY <1>0
<1>4. \A p : sleeping' = [sleeping EXCEPT ![p] = @ \cup {th}] => sleeping' \in [Pools -> SUBSET Threads]
  BY <1>0
<1>5. CASE UNCHANGED sleeping
  BY <1>0, <1>5
<1>6. CASE Route(th)
  BY <1>1, <1>5, <1>6 DEF Route
<1>7. CASE Notify(th)
  BY <1>1, <1>7 DEF Notify
<1>8. CASE Unregister(th)
  BY <1>2, <1>5, <1>8 DEF Unregister
<1>9. CASE PollIdle(th)
  <2>1. UNCHANGED sleeping \/ sleeping' = [sleeping EXCEPT ![PoolOf(th)] = @ \cup {th}]
    BY <1>9 DEF PollIdle
  <2> QED BY <1>4, <1>5, <2>1
<1>10. CASE PollDiscard(th) \/ PollExit(th)
  BY <1>2, <1>10 DEF PollDiscard, PollExit
<1>11. CASE Wake(th)
  BY <1>4, <1>5, <1>11 DEF Wake
<1>12. CASE AddIdle(th)
  BY <1>1, <1>5, <1>12 DEF AddIdle
<1>13. CASE HaltPool(th)
  <2>1. Head(todo[th])[2] \in Pools /\ {th} \in SUBSET Threads
    BY <1>13, HaltPoolMoves
  <2>2. \/ sleeping' = [sleeping EXCEPT ![Head(todo[th])[2]] = {th}]
        \/ NotifyAll(Head(todo[th])[2])
    BY <1>13 DEF HaltPool, Arg
  <2> QED BY <1>2, <1>3, <2>1, <2>2
<1>14. CASE AwaitDiscard(th)
  <2>1. \/ sleeping' = [sleeping EXCEPT ![Head(todo[th])[2]] = @ \cup {th}]
        \/ NotifyAll(Head(todo[th])[2])
    BY <1>14 DEF AwaitDiscard, Arg
  <2> QED BY <1>2, <1>4, <2>1
<1>15. GetPool(th) \/ MakePool(th) \/ BuildPool(th) \/ RefusePool(th) => UNCHANGED sleeping
  BY DEF GetPool, MakePool, BuildPool, RefusePool
<1>16. Accept(th) \/ Enqueue(th) \/ PollLatched(th) \/ PollTake(th) \/ Done(th) => UNCHANGED sleeping
  BY DEF Accept, Enqueue, PollLatched, PollTake, Done
<1>17. AddIdleToAll(th) \/ RemoveIdle(th) \/ RemoveIdleFromAll(th) \/ Start(th) \/ Begin(th) => UNCHANGED sleeping
  BY DEF AddIdleToAll, RemoveIdle, RemoveIdleFromAll, Start, Begin
<1>18. StartMain(th) \/ Shutdown(th) \/ StopScheduler(th) \/ Finals(th) \/ Join(th) => UNCHANGED sleeping
  BY DEF StartMain, Shutdown, StopScheduler, Finals, Join
<1> QED BY <1>5, <1>6, <1>7, <1>8, <1>9, <1>10, <1>11, <1>12, <1>13, <1>14, <1>15, <1>16, <1>17, <1>18 DEF Step

LEMMA TypesStep ==
  ASSUME Types, Scripts, Places, Starting, NEW th \in Threads, Step(th)
  PROVE  Types'
<1>1. UNCHANGED scenario /\ scenario \in Scenarios
  BY Frame DEF Types
<1>2. forced' \in BOOLEAN
  BY Frame DEF Types, StopScheduler
<1>3. ran' \subseteq Tasks
  <2>1. CASE Done(th)
    <3>1. ran' = ran \cup {Head(todo[th])[2]} /\ At(th, "done")
      BY <2>1 DEF Done, Arg
    <3>2. Head(todo[th])[2] \in Tasks
      BY <3>1, HeadOp, Arguments DEF At
    <3> QED BY <3>1, <3>2 DEF Types
  <2> QED BY <2>1, Frame DEF Types
<1>4. owed' \subseteq Tasks
  <2>1. CASE Notify(th)
    <3>1. owed' \subseteq owed \cup Head(todo[th])[4] /\ At(th, "notify")
      BY <2>1 DEF Notify, Arg
    <3>2. Head(todo[th])[4] \subseteq Tasks
      BY <3>1, HeadOp, Arguments DEF At
    <3> QED BY <3>1, <3>2 DEF Types
  <2>2. PollTake(th) \/ PollDiscard(th) \/ HaltPool(th) => owed' \subseteq owed
    BY DEF PollTake, PollDiscard, HaltPool
  <2> QED BY <2>1, <2>2, Frame DEF Types
<1>5. group' \in [taken : BOOLEAN, waiting : Seq(Tasks \X BOOLEAN)]
  BY GroupStep
<1>6. scheduler' \in [started : BOOLEAN, running : BOOLEAN, building : Pools \cup {Nobody},
                      idle_tasks : SUBSET Tasks]
  BY SchedulerTyped
<1>7. pool' \in [Pools -> PoolRec] /\ idle' \in IdleRec /\ todo' \in [Threads -> Seq(Op)]
      /\ sleeping' \in [Pools -> SUBSET Threads]
  BY PoolFrame, IdleTyped, TodoTyped, SleepingTyped
<1> QED BY <1>1, <1>2, <1>3, <1>4, <1>5, <1>6, <1>7 DEF Types, PoolRec, IdleRec

-----------------------------------------------------------------------------
(* What comes to a thread's work with a step, and what goes.               *)

\* Only the first operation goes.
LEMMA Departs ==
  ASSUME Types, Scripts, Places, Starting, NEW th \in Threads, Step(th),
         NEW x \in Threads, NEW o \in Left(x), o \notin Left(x)'
  PROVE  x = th /\ todo[th] # <<>> /\ o = Head(todo[th])
<1>1. CASE UNCHANGED todo
  BY <1>1 DEF Left
<1>2. CASE Ordered(th)
  <2>1. PICK new : \E kept \in BOOLEAN : Moved(th, new, kept)
    BY <1>2 DEF Ordered
  <2>2. /\ todo[th] # <<>> /\ Left(th) = {Head(todo[th])} \cup Range(Tail(todo[th]))
        /\ (Left(th)' = new \cup Left(th) \/ Left(th)' = new \cup Range(Tail(todo[th])))
        /\ \A y \in Threads \ {th} : Left(y)' = Left(y)
    BY <2>1, OrdinaryLeft DEF After
  <2> QED BY <2>2
<1>3. CASE BuildPool(th) \/ Start(th)
  <2>1. PICK F : Launched(th, F)
    BY <1>3, BuildPoolMoves, StartMoves
  <2>2. /\ Left(th) = {Head(todo[th])} \cup Left(th)'
        /\ \A y \in F : Left(y) = {} /\ Left(y)' = {<<"poll">>}
        /\ \A y \in Threads \ (F \cup {th}) : Left(y)' = Left(y)
        /\ todo[th] # <<>>
    BY <2>1, LaunchedLeft DEF Launched
  <2> QED BY <2>2
<1>4. CASE StartMain(th)
  BY <1>4, StartMainMoves
<1>5. CASE PollExit(th)
  BY <1>5, PollExitMoves
<1>6. CASE Finals(th)
  BY <1>6, FinalsMoves
<1> QED BY <1>1, <1>2, <1>3, <1>4, <1>5, <1>6, Kinds

\* The operations that a step brings, by the action that brings them.
BringsEarly(th, o) ==
  LET h == Head(todo[th]) IN
  \/ o = <<"poll">> /\ (BuildPool(th) \/ Start(th) \/ StartMain(th))
  \/ o[1] = "notify" /\ (AddIdleToAll(th) \/ Enqueue(th))
  \/ o = <<"route", h[2]>> /\ h[1] = "submit" /\ (GetPool(th) \/ MakePool(th))
  \/ o[1] = "add" /\ (GetPool(th) \/ MakePool(th))
  \/ o = <<"build", Wanted(th)>> /\ MakePool(th)
  \/ o[1] = "accept" /\ o[2] = h[2] /\ Route(th) /\ ~Parks(th)
  \/ o[1] = "enqueue" /\ o[2] = h[2] /\ Accept(th) /\ pool[Home(h[2])].accept
  \/ HandsOver(th) /\ o \in HandedSet
BringsLate(th, o) ==
  LET h == Head(todo[th]) IN
  \/ o[1] = "submit" /\ (PollLatched(th) \/ PollIdle(th) \/ Shutdown(th))
  \/ PollTake(th) /\ (o \in Range(scenario.body[Head(pool[PoolOf(th)].queue)])
                      \/ o = <<"done", Head(pool[PoolOf(th)].queue)>>)
  \/ o = <<"wait">> /\ PollIdle(th)
  \/ o = <<"stop", h[2]>> /\ Shutdown(th)
  \/ o[1] = "halt" /\ o[2] \in Pools /\ pool[o[2]].made /\ o[3] = h[2] /\ StopScheduler(th)
  \/ o[1] = "await" /\ HaltPool(th)
  \/ o[1] \in {"halt", "join"} /\ o[2] \in Pools /\ pool[o[2]].made /\ Closing(o) /\ Finals(th)

LEMMA Arrives ==
  ASSUME Types, Scripts, Places, Starting, NEW th \in Threads, Step(th),
         NEW x \in Threads, NEW o \in Left(x)', o \notin Left(x)
  PROVE  /\ x = th \/ o = <<"poll">>
         /\ BringsEarly(th, o) \/ BringsLate(th, o)
<1> DEFINE h == Head(todo[th])
<1>1. \A new : Moved(th, new, TRUE) \/ Moved(th, new, FALSE) => x = th /\ o \in new
  <2> SUFFICES ASSUME NEW new, NEW kept \in BOOLEAN, Moved(th, new, kept)
               PROVE  x = th /\ o \in new
    OBVIOUS
  <2>1. /\ Left(th) = {Head(todo[th])} \cup Range(Tail(todo[th]))
        /\ Left(th)' = new \cup After(th, kept)
        /\ \A y \in Threads \ {th} : Left(y)' = Left(y)
    BY OrdinaryLeft
  <2> QED BY <2>1 DEF After
<1>0. ~Moved(th, {}, FALSE)
  <2> SUFFICES ASSUME Moved(th, {}, FALSE)
               PROVE  FALSE
    OBVIOUS
  <2>1. o \in {}
    BY <1>1, Zenon
  <2> QED BY <2>1
<1>2. ~UNCHANGED todo
  BY DEF Left
<1>3. CASE GetPool(th)
  <2>1. \/ h[1] = "submit" /\ Moved(th, {<<"route", h[2]>>}, FALSE)
        \/ Moved(th, {<<"add", h[2], h[3]>>}, FALSE)
    BY <1>3, GetPoolMoves
  <2>2. x = th /\ ((h[1] = "submit" /\ o \in {<<"route", h[2]>>}) \/ o \in {<<"add", h[2], h[3]>>})
    BY <1>1, <2>1, Zenon
  <2>3. o \in {<<"route", h[2]>>} => o = <<"route", h[2]>>
    OBVIOUS
  <2>4. o \in {<<"add", h[2], h[3]>>} => o[1] = "add"
    OBVIOUS
  <2> QED BY <1>3, <2>2, <2>3, <2>4 DEF BringsEarly
<1>4. CASE MakePool(th)
  <2>1. \/ h[1] = "submit" /\ Moved(th, {<<"build", Wanted(th)>>, <<"route", h[2]>>}, FALSE)
        \/ Moved(th, {<<"build", Wanted(th)>>, <<"add", h[2], h[3]>>}, FALSE)
    BY <1>4, MakePoolMoves
  <2>2. x = th /\ \/ h[1] = "submit" /\ o \in {<<"build", Wanted(th)>>, <<"route", h[2]>>}
                  \/ o \in {<<"build", Wanted(th)>>, <<"add", h[2], h[3]>>}
    BY <1>1, <2>1, Zenon
  <2>3. o \in {<<"build", Wanted(th)>>, <<"route", h[2]>>} => o = <<"build", Wanted(th)>> \/ o = <<"route", h[2]>>
    OBVIOUS
  <2>4. o \in {<<"build", Wanted(th)>>, <<"add", h[2], h[3]>>} => o = <<"build", Wanted(th)>> \/ o[1] = "add"
    OBVIOUS
  <2>7. x = th
    BY <2>2, Zenon
  <2>5. CASE o = <<"build", Wanted(th)>>
    <3>1. BringsEarly(th, o)
      BY <1>4, <2>5 DEF BringsEarly
    <3> QED BY <2>7, <3>1
  <2>6. CASE o # <<"build", Wanted(th)>>
    <3>1. (h[1] = "submit" /\ o = <<"route", h[2]>>) \/ o[1] = "add"
      BY <2>2, <2>3, <2>4, <2>6, Zenon
    <3>2. BringsEarly(th, o)
      BY <1>4, <3>1 DEF BringsEarly
    <3> QED BY <2>7, <3>2
  <2> QED BY <2>5, <2>6
<1>5. CASE BuildPool(th) \/ Start(th)
  <2>1. PICK F : Launched(th, F)
    BY <1>5, BuildPoolMoves, StartMoves
  <2>2. /\ Left(th) = {Head(todo[th])} \cup Left(th)'
        /\ \A y \in F : Left(y) = {} /\ Left(y)' = {<<"poll">>}
        /\ \A y \in Threads \ (F \cup {th}) : Left(y)' = Left(y)
    BY <2>1, LaunchedLeft
  <2>3. o = <<"poll">>
    BY <2>2
  <2> QED BY <1>5, <2>3 DEF BringsEarly
<1>6. CASE StartMain(th)
  <2>1. x = th /\ o = <<"poll">>
    BY <1>6, StartMainMoves
  <2> QED BY <1>6, <2>1 DEF BringsEarly
<1>7. CASE PollExit(th)
  BY <1>7, PollExitMoves
<1>8. CASE Finals(th)
  <2>1. /\ x = th
        /\ \E p \in Pools : pool[p].made /\ (o = <<"halt", p, "FINAL">> \/ o = <<"join", p>>)
    BY <1>8, FinalsMoves
  <2>2. o[1] \in {"halt", "join"} /\ o[2] \in Pools /\ pool[o[2]].made /\ Closing(o)
    BY <2>1 DEF Closing
  <2> QED BY <1>8, <2>1, <2>2 DEF BringsLate
<1>9. CASE Route(th)
  <2>1. IF h[2] \in scenario.sync /\ group.taken THEN Moved(th, {}, FALSE)
        ELSE Moved(th, {<<"accept", h[2], ~CurrentIdle(th)>>}, FALSE)
    BY <1>9, RouteMoves
  <2>2. x = th /\ ~Parks(th) /\ o \in {<<"accept", h[2], ~CurrentIdle(th)>>}
    BY <1>0, <1>1, <1>9, <2>1, Zenon DEF Parks
  <2>3. o[1] = "accept" /\ o[2] = h[2]
    BY <2>2
  <2> QED BY <1>9, <2>2, <2>3 DEF BringsEarly
<1>10. CASE Accept(th)
  <2>1. CASE HandsOver(th)
    <3>1. x = th /\ o \in HandedSet
      BY <1>1, <2>1, GroupStep
    <3> QED BY <2>1, <3>1 DEF BringsEarly
  <2>2. CASE ~HandsOver(th)
    <3>1. x = th /\ pool[Home(h[2])].accept /\ o \in {<<"enqueue", h[2], h[3]>>}
      <4>1. IF pool[Home(h[2])].accept THEN Moved(th, {<<"enqueue", h[2], h[3]>>}, FALSE)
            ELSE IF h[2] \in scenario.sync THEN Moved(th, HandedSet, FALSE)
            ELSE Moved(th, {}, FALSE)
        BY <1>10, AcceptMoves
      <4>2. ~pool[Home(h[2])].accept /\ h[2] \in scenario.sync => HandedSet = {}
        BY <1>10, <2>2 DEF HandsOver, HandedSet
      <4> QED BY <1>1, <4>1, <4>2, Zenon
    <3>2. o[1] = "enqueue" /\ o[2] = h[2]
      BY <3>1
    <3> QED BY <1>10, <3>1, <3>2 DEF BringsEarly
  <2> QED BY <2>1, <2>2
<1>11. CASE Done(th)
  <2>1. x = th /\ o \in HandedSet /\ h[2] \in scenario.sync
    BY <1>0, <1>1, <1>11, DoneMoves, Zenon
  <2>2. group.waiting # <<>>
    BY <2>1 DEF HandedSet
  <2> QED BY <1>11, <2>1, <2>2 DEF BringsEarly, HandsOver
<1>12. CASE Enqueue(th) \/ AddIdleToAll(th)
  <2>1. x = th /\ o[1] = "notify"
    <3>1. CASE Enqueue(th)
      <4>1. x = th /\ o \in {<<"notify", Home(h[2]), h[3], {h[2]}>>}
        BY <1>1, <3>1, EnqueueMoves, Zenon
      <4> QED BY <4>1
    <3>2. CASE AddIdleToAll(th)
      <4>1. x = th /\ o \in {<<"notify", "main", TRUE, {}>>}
        BY <1>1, <3>2, AddIdleToAllMoves, Zenon
      <4> QED BY <4>1
    <3> QED BY <1>12, <3>1, <3>2
  <2> QED BY <1>12, <2>1 DEF BringsEarly
<1>13. CASE Notify(th) \/ Unregister(th) \/ AddIdle(th) \/ RemoveIdle(th)
            \/ RemoveIdleFromAll(th) \/ Begin(th) \/ Join(th)
  <2>1. Moved(th, {}, FALSE)
    BY <1>13, NotifyMoves, UnregisterMoves, AddIdleMoves, RemoveIdleMoves, RemoveIdleFromAllMoves, BeginMoves, JoinMoves
  <2> QED BY <1>0, <2>1
<1>14. CASE Wake(th) \/ AwaitDiscard(th) \/ RefusePool(th) \/ PollDiscard(th)
  <2>1. RefusePool(th) \/ PollDiscard(th) => UNCHANGED todo
    BY DEF RefusePool, PollDiscard
  <2>2. Moved(th, {}, FALSE) \/ UNCHANGED todo
    BY <1>14, <2>1, WakeMoves, AwaitDiscardMoves
  <2> QED BY <1>0, <1>2, <2>2
<1>15. CASE PollLatched(th)
  <2> DEFINE T == pool[PoolOf(th)].idle_tasks
  <2>1. x = th /\ o \in {<<"submit", t>> : t \in T}
    BY <1>1, <1>15, PollLatchedMoves, Zenon
  <2>2. o[1] = "submit"
    BY <2>1
  <2> QED BY <1>15, <2>1, <2>2 DEF BringsLate
<1>16. CASE PollTake(th)
  <2> DEFINE t == Head(pool[PoolOf(th)].queue)
  <2>1. Moved(th, Range(scenario.body[t]) \cup {<<"done", t>>}, TRUE)
    BY <1>16, PollTakeMoves
  <2>2. x = th /\ o \in Range(scenario.body[t]) \cup {<<"done", t>>}
    BY <1>1, <2>1, Zenon
  <2>3. o \in Range(scenario.body[t]) \/ o = <<"done", t>>
    BY <2>2
  <2> QED BY <1>16, <2>2, <2>3 DEF BringsLate
<1>17. CASE PollIdle(th)
  <2>1. x = th /\ (o \in {<<"wait">>} \/ o \in {<<"submit", t>> : t \in FiredBy(th)})
    BY <1>1, <1>17, PollIdleMoves, Zenon
  <2>2. o = <<"wait">> \/ o[1] = "submit"
    BY <2>1
  <2> QED BY <1>17, <2>1, <2>2 DEF BringsLate
<1>18. CASE Shutdown(th)
  <2>1. x = th /\ o \in {<<"submit", t>> : t \in scenario.shutdown} \cup {<<"stop", h[2]>>}
    BY <1>1, <1>18, ShutdownMoves, Zenon
  <2>2. o = <<"stop", h[2]>> \/ o[1] = "submit"
    BY <2>1
  <2> QED BY <1>18, <2>1, <2>2 DEF BringsLate
<1>19. CASE StopScheduler(th)
  <2>1. x = th /\ o \in {<<"halt", p, h[2]>> : p \in {q \in Pools : pool[q].made}}
    BY <1>1, <1>19, StopSchedulerMoves, Zenon
  <2>2. o[1] = "halt" /\ o[2] \in Pools /\ pool[o[2]].made /\ o[3] = h[2]
    BY <2>1
  <2> QED BY <1>19, <2>1, <2>2 DEF BringsLate
<1>20. CASE HaltPool(th)
  <2>1. x = th /\ o \in {<<"await", h[2]>>}
    BY <1>0, <1>1, <1>20, HaltPoolMoves, Zenon
  <2> QED BY <1>20, <2>1 DEF BringsLate
<1> QED BY <1>3, <1>4, <1>5, <1>6, <1>7, <1>8, <1>9, <1>10, <1>11, <1>12, <1>13, <1>14, <1>15, <1>16, <1>17, <1>18, <1>19, <1>20 DEF Step

\* The first operation of a thread says which action it takes.
LEMMA Acts ==
  ASSUME NEW th \in Threads, Step(th), todo[th] # <<>>
  PROVE  LET k == Head(todo[th])[1] IN
         /\ k = "build" => BuildPool(th)
         /\ k = "unregister" => Unregister(th)
         /\ k = "enqueue" => Enqueue(th)
         /\ k = "accept" => Accept(th)
         /\ k = "route" => Route(th)
         /\ k = "submit" => GetPool(th) \/ MakePool(th) \/ RefusePool(th)
         /\ k = "done" => Done(th)
         /\ k = "stop" => StopScheduler(th)
         /\ k = "halt" => HaltPool(th)
         /\ k = "join" => Join(th)
         /\ k = "start" => Start(th)
         /\ k = "mainpool" => StartMain(th)
         /\ k = "finals" => Finals(th)
         /\ k = "wait" => Wake(th)
         /\ k = "poll" => \/ PollLatched(th) \/ PollTake(th) \/ PollIdle(th)
                          \/ PollDiscard(th) \/ PollExit(th)
<1>1. GetPool(th) \/ MakePool(th) \/ RefusePool(th) => Head(todo[th])[1] \in {"submit", "bind"}
  BY DEF GetPool, MakePool, RefusePool, Wants, At
<1>2. /\ BuildPool(th) => Head(todo[th])[1] = "build"
      /\ Route(th) => Head(todo[th])[1] = "route"
      /\ Accept(th) => Head(todo[th])[1] = "accept"
      /\ Enqueue(th) => Head(todo[th])[1] = "enqueue"
      /\ Notify(th) => Head(todo[th])[1] = "notify"
      /\ Unregister(th) => Head(todo[th])[1] = "unregister"
  BY DEF BuildPool, Route, Accept, Enqueue, Notify, Unregister, At
<1>3. /\ PollLatched(th) \/ PollTake(th) \/ PollIdle(th) \/ PollDiscard(th) \/ PollExit(th)
           => Head(todo[th])[1] = "poll"
      /\ Wake(th) => Head(todo[th])[1] = "wait"
      /\ Done(th) => Head(todo[th])[1] = "done"
  BY DEF PollLatched, PollTake, PollIdle, PollDiscard, PollExit, Wake, Done, Serves, At
<1>4. /\ AddIdle(th) => Head(todo[th])[1] = "add"
      /\ AddIdleToAll(th) => Head(todo[th])[1] = "bindall"
      /\ RemoveIdle(th) => Head(todo[th])[1] = "unbind"
      /\ RemoveIdleFromAll(th) => Head(todo[th])[1] = "unbindall"
  BY DEF AddIdle, AddIdleToAll, RemoveIdle, RemoveIdleFromAll, At
<1>5. /\ Start(th) => Head(todo[th])[1] = "start"
      /\ Begin(th) => Head(todo[th])[1] = "begin"
      /\ StartMain(th) => Head(todo[th])[1] = "mainpool"
      /\ Shutdown(th) => Head(todo[th])[1] = "shutdown"
      /\ StopScheduler(th) => Head(todo[th])[1] = "stop"
      /\ HaltPool(th) => Head(todo[th])[1] = "halt"
      /\ AwaitDiscard(th) => Head(todo[th])[1] = "await"
      /\ Finals(th) => Head(todo[th])[1] = "finals"
      /\ Join(th) => Head(todo[th])[1] = "join"
  BY DEF Start, Begin, StartMain, Shutdown, StopScheduler, HaltPool, AwaitDiscard, Finals, Join, At
<1>6. Head(todo[th])[1] \notin {"submit", "bind"} => ~(GetPool(th) \/ MakePool(th) \/ RefusePool(th))
  BY <1>1
<1>7. Head(todo[th])[1] # "poll" =>
        ~(PollLatched(th) \/ PollTake(th) \/ PollIdle(th) \/ PollDiscard(th) \/ PollExit(th))
  BY <1>3
<1> QED BY <1>1, <1>2, <1>3, <1>4, <1>5, <1>6, <1>7 DEF Step

\* A step that takes an action has the operation at the head.
LEMMA Heads ==
  ASSUME NEW th \in Threads
  PROVE  /\ GetPool(th) \/ MakePool(th) => todo[th] # <<>> /\ Head(todo[th])[1] \in {"submit", "bind"}
         /\ BuildPool(th) => todo[th] # <<>> /\ Head(todo[th])[1] = "build"
         /\ Route(th) => todo[th] # <<>> /\ Head(todo[th])[1] = "route"
         /\ Accept(th) => todo[th] # <<>> /\ Head(todo[th])[1] = "accept"
         /\ Enqueue(th) => todo[th] # <<>> /\ Head(todo[th])[1] = "enqueue"
         /\ Unregister(th) => todo[th] # <<>> /\ Head(todo[th])[1] = "unregister"
         /\ Notify(th) => todo[th] # <<>> /\ Head(todo[th])[1] = "notify"
         /\ Done(th) => todo[th] # <<>> /\ Head(todo[th])[1] = "done"
         /\ Shutdown(th) => todo[th] # <<>> /\ Head(todo[th])[1] = "shutdown"
         /\ StopScheduler(th) => todo[th] # <<>> /\ Head(todo[th])[1] = "stop"
         /\ HaltPool(th) => todo[th] # <<>> /\ Head(todo[th])[1] = "halt"
         /\ Join(th) => todo[th] # <<>> /\ Head(todo[th])[1] = "join"
<1>1. GetPool(th) \/ MakePool(th) => todo[th] # <<>> /\ Head(todo[th])[1] \in {"submit", "bind"}
  BY DEF GetPool, MakePool, Wants, At
<1>2. /\ BuildPool(th) => todo[th] # <<>> /\ Head(todo[th])[1] = "build"
      /\ Route(th) => todo[th] # <<>> /\ Head(todo[th])[1] = "route"
      /\ Accept(th) => todo[th] # <<>> /\ Head(todo[th])[1] = "accept"
      /\ Enqueue(th) => todo[th] # <<>> /\ Head(todo[th])[1] = "enqueue"
      /\ Unregister(th) => todo[th] # <<>> /\ Head(todo[th])[1] = "unregister"
      /\ Notify(th) => todo[th] # <<>> /\ Head(todo[th])[1] = "notify"
  BY DEF BuildPool, Route, Accept, Enqueue, Unregister, Notify, At
<1>3. /\ Done(th) => todo[th] # <<>> /\ Head(todo[th])[1] = "done"
      /\ Shutdown(th) => todo[th] # <<>> /\ Head(todo[th])[1] = "shutdown"
      /\ StopScheduler(th) => todo[th] # <<>> /\ Head(todo[th])[1] = "stop"
      /\ HaltPool(th) => todo[th] # <<>> /\ Head(todo[th])[1] = "halt"
      /\ Join(th) => todo[th] # <<>> /\ Head(todo[th])[1] = "join"
  BY DEF Done, Shutdown, StopScheduler, HaltPool, Join, At
<1> QED BY <1>1, <1>2, <1>3

\* What is still to be done ranks no lower than the first operation; there is
\* no second end of a hand-over or making of a pool.
LEMMA Rest1 ==
  ASSUME Types, Scripts, NEW th \in Threads, todo[th] # <<>>, NEW o \in Range(Tail(todo[th]))
  PROVE  /\ RankOf(Head(todo[th])) <= RankOf(o)
         /\ o[1] \in {"build", "unregister"} => Head(todo[th])[1] \in {"enqueue", "notify"}
<1>1. todo[th] \in Seq(Op) /\ InOrder(todo[th], Lasting)
  BY HeadOp DEF Scripts, Lasting
<1>2. Follows(RankOf(o), RankOf(Head(todo[th])))
  BY <1>1, Later DEF RankOf
<1>3. RankOf(o) \in Nat /\ RankOf(Head(todo[th])) \in Nat
  BY DEF RankOf, Rank
<1>4. o[1] \in {"build", "unregister"} => RankOf(o) = 1
  BY DEF RankOf, Rank
<1>5. RankOf(Head(todo[th])) = 0 => Head(todo[th])[1] \in {"enqueue", "notify"}
  BY DEF RankOf, Rank
<1> QED BY <1>2, <1>3, <1>4, <1>5 DEF Follows

\* A call that goes on after get_pool has its pool.
LEMMA RouteMade ==
  ASSUME Types, Scripts, Places, NEW th \in Threads, Route(th)
  PROVE  pool[Home(Head(todo[th])[2])].made
<1>1. todo[th] # <<>> /\ Head(todo[th])[1] = "route"
  BY Heads
<1>2. Head(todo[th]) \in Left(th) /\ Left(th) = {Head(todo[th])} \cup Range(Tail(todo[th]))
  BY <1>1, HeadOp
<1>3. pool[Home(Head(todo[th])[2])].made \/ <<"build", Home(Head(todo[th])[2])>> \in Left(th)
  BY <1>1, <1>2 DEF Places
<1>4. ASSUME <<"build", Home(Head(todo[th])[2])>> \in Left(th)
      PROVE  FALSE
  <2> DEFINE o == <<"build", Home(Head(todo[th])[2])>>
  <2>1. o[1] = "build"
    OBVIOUS
  <2> HIDE DEF o
  <2>2. o \in Range(Tail(todo[th]))
    BY <1>1, <1>2, <1>4, <2>1 DEF o
  <2> QED BY <1>1, <2>1, <2>2, Rest1
<1> QED BY <1>3, <1>4

-----------------------------------------------------------------------------
(* Places.                                                                 *)

\* Who waits for the group.
LEMMA WaitingMade ==
  ASSUME Types, Scripts, Places, Starting, NEW th \in Threads, Step(th)
  PROVE  /\ \A i \in DOMAIN group'.waiting : pool[Home(group'.waiting[i][1])].made
         /\ group.waiting # <<>> => /\ pool[Home(Head(group.waiting)[1])].made
                                    /\ Head(group.waiting) \in Tasks \X BOOLEAN
                                    /\ Head(group.waiting) = group.waiting[1]
<1> DEFINE w == group.waiting
<1>0. w \in Seq(Tasks \X BOOLEAN) /\ Len(w) \in Nat /\ DOMAIN w = 1 .. Len(w)
  BY LenProperties DEF Types
<1>1. \A i \in DOMAIN w : pool[Home(w[i][1])].made
  BY DEF Places
<1>2. ASSUME w # <<>>
      PROVE  /\ Head(w) \in Tasks \X BOOLEAN /\ Head(w) = w[1] /\ 1 \in DOMAIN w
             /\ DOMAIN Tail(w) = 1 .. (Len(w) - 1) /\ \A i \in 1 .. (Len(w) - 1) : Tail(w)[i] = w[i + 1]
  BY <1>0, <1>2, HeadTailProperties, LenProperties, EmptySeq, RangeSplit
<1>3. CASE group'.waiting = w
  BY <1>1, <1>2, <1>3
<1>4. CASE HandsOver(th) /\ group'.waiting = Tail(w)
  <2>1. w # <<>>
    BY <1>4 DEF HandsOver
  <2>2. \A i \in 1 .. (Len(w) - 1) : i + 1 \in DOMAIN w
    BY <1>0
  <2> QED BY <1>1, <1>2, <1>4, <2>1, <2>2
<1>5. CASE Parks(th)
  <2> DEFINE a == <<Head(todo[th])[2], ~CurrentIdle(th)>>
             z == Append(w, a)
  <2>1. Head(todo[th])[2] \in Tasks /\ group'.waiting = z
    <3>1. todo[th] # <<>> /\ Head(todo[th])[1] = "route"
      BY <1>5, Heads DEF Parks
    <3>2. Head(todo[th])[2] \in Tasks
      BY <3>1, HeadOp, Arguments
    <3> QED BY <1>5, <3>2, GroupStep
  <2>2. pool[Home(a[1])].made
    BY <1>5, RouteMade DEF Parks
  <2>3. a \in Tasks \X BOOLEAN
    BY <2>1
  <2> HIDE DEF a
  <2>4. /\ z \in Seq(Tasks \X BOOLEAN) /\ Len(z) = Len(w) + 1
        /\ \A i \in 1 .. Len(w) : z[i] = w[i]
        /\ z[Len(w) + 1] = a
    BY <1>0, <2>3, AppendProperties
  <2>5. DOMAIN z = 1 .. (Len(w) + 1)
    BY <2>4, LenProperties
  <2> HIDE DEF z
  <2>6. \A i \in DOMAIN z : i \in DOMAIN w \/ z[i] = a
    BY <1>0, <2>4, <2>5
  <2> QED BY <1>0, <1>1, <1>2, <2>1, <2>2, <2>4, <2>6
<1> QED BY <1>3, <1>4, <1>5, GroupStep

\* The calls keep to pools that have been made, or are being made by them.
LEMMA PlacedOps ==
  ASSUME Types, Scripts, Places, Starting, NEW th \in Threads, Step(th),
         NEW x \in Threads, NEW o \in Left(x)'
  PROVE  /\ o[1] = "route" => pool'[Home(o[2])].made \/ <<"build", Home(o[2])>> \in Left(x)'
         /\ o[1] \in {"accept", "enqueue"} => pool'[Home(o[2])].made
         /\ o[1] \in {"halt", "join"} => pool'[o[2]].made
         /\ o[1] = "build" => scheduler'.building = o[2]
<1>0. \A p \in Pools : pool[p].made => pool'[p].made
  BY PoolFrame
<1>1. o \in Op
  <2>1. todo' \in [Threads -> Seq(Op)]
    BY TodoTyped
  <2>2. todo'[x] \in Seq(Op)
    BY <2>1
  <2>3. \A s \in Seq(Op) : Range(s) \subseteq Op
    BY RangeJoin
  <2> QED BY <2>2, <2>3 DEF Left
<1>2. /\ o[1] \in {"route", "accept", "enqueue"} => Home(o[2]) \in Pools
      /\ o[1] \in {"halt", "join", "build"} => o[2] \in Pools
  BY <1>1, Arguments, Cast
<1>3. CASE o \in Left(x)
  <2>1. /\ o[1] = "route" => pool[Home(o[2])].made \/ <<"build", Home(o[2])>> \in Left(x)
        /\ o[1] \in {"accept", "enqueue"} => pool[Home(o[2])].made
        /\ o[1] \in {"halt", "join"} => pool[o[2]].made
        /\ o[1] = "build" => scheduler.building = o[2]
    BY <1>3 DEF Places
  <2>2. ASSUME o[1] = "route", <<"build", Home(o[2])>> \in Left(x), <<"build", Home(o[2])>> \notin Left(x)'
        PROVE  pool'[Home(o[2])].made
    <3>1. x = th /\ todo[th] # <<>> /\ <<"build", Home(o[2])>> = Head(todo[th])
      BY <2>2, Departs
    <3>2. Head(todo[th])[1] = "build" /\ Head(todo[th])[2] = Home(o[2])
      BY <3>1
    <3>3. BuildPool(th)
      BY <3>1, <3>2, Acts
    <3> QED BY <3>2, <3>3, BuildPoolPool
  <2>3. ASSUME o[1] = "build"
        PROVE  scheduler'.building = o[2]
    <3>1. scheduler.building = o[2] /\ o[2] \in Pools /\ o[2] # Nobody
      BY <1>2, <2>1, <2>3, Cast
    <3>2. ~MakePool(th)
      BY <3>1 DEF MakePool
    <3>3. ~BuildPool(th)
      <4> SUFFICES ASSUME BuildPool(th)
                   PROVE  FALSE
        OBVIOUS
      <4>1. todo[th] # <<>> /\ Head(todo[th])[1] = "build" /\ Left(th)' = Range(Tail(todo[th]))
            /\ Head(todo[th]) \in Left(th)
        BY Heads, HeadOp, BuildPoolMoves, LaunchedLeft, ZenonT(40)
      <4>2. Has(th, "build") /\ Has(x, "build")
        BY <1>3, <2>3, <4>1 DEF Has
      <4>3. x = th
        BY <4>2 DEF Places
      <4> QED BY <2>3, <4>1, <4>3, Rest1
    <3> QED BY <3>1, <3>2, <3>3, SchedulerTyped
  <2> QED BY <1>0, <1>2, <2>1, <2>2, <2>3
<1>4. CASE o \notin Left(x)
  <2> DEFINE h == Head(todo[th])
  <2>1. (x = th \/ o = <<"poll">>) /\ (BringsEarly(th, o) \/ BringsLate(th, o))
    BY <1>4, Arrives
  <2>2. CASE o = <<"route", h[2]>> /\ h[1] = "submit" /\ (GetPool(th) \/ MakePool(th))
    <3>1. Wanted(th) = Home(h[2]) /\ o[1] = "route" /\ o[2] = h[2]
      BY <2>2 DEF Wanted, Arg
    <3>2. x = th
      BY <2>1, <2>2
    <3>3. GetPool(th) => pool[Home(h[2])].made
      BY <3>1 DEF GetPool
    <3>4. ASSUME MakePool(th)
          PROVE  <<"build", Home(h[2])>> \in Left(th)'
      <4>1. Moved(th, {<<"build", Wanted(th)>>, <<"route", h[2]>>}, FALSE)
        BY <2>2, <3>4, MakePoolMoves
      <4>2. \A new : Moved(th, new, FALSE) => new \subseteq Left(th)'
        <5> SUFFICES ASSUME NEW new, NEW kept \in BOOLEAN, Moved(th, new, kept)
                     PROVE  new \subseteq Left(th)'
          OBVIOUS
        <5> QED BY OrdinaryLeft
      <4>3. {<<"build", Wanted(th)>>, <<"route", h[2]>>} \subseteq Left(th)'
        BY <4>1, <4>2, Zenon
      <4> QED BY <3>1, <4>3
    <3> QED BY <1>0, <1>2, <2>2, <3>1, <3>2, <3>3, <3>4
  <2>3. CASE o = <<"build", Wanted(th)>> /\ MakePool(th)
    <3>1. scheduler' = [scheduler EXCEPT !.building = Wanted(th)] /\ o[1] = "build" /\ o[2] = Wanted(th)
      BY <2>3 DEF MakePool
    <3>2. scheduler'.building = Wanted(th)
      BY <3>1 DEF Types
    <3> QED BY <3>1, <3>2
  <2>4. CASE o[1] = "accept" /\ o[2] = h[2] /\ Route(th)
    BY <1>0, <1>2, <2>4, RouteMade
  <2>5. CASE o[1] = "enqueue" /\ o[2] = h[2] /\ Accept(th)
    <3>1. h[1] = "accept" /\ h \in Left(th)
      BY <2>5, Heads, HeadOp
    <3>2. pool[Home(h[2])].made
      BY <3>1 DEF Places
    <3> QED BY <1>0, <1>2, <2>5, <3>2
  <2>6. CASE HandsOver(th) /\ o \in HandedSet
    <3> DEFINE w == Head(group.waiting)
    <3>1. group.waiting # <<>> /\ pool[Home(w[1])].made
      BY <2>6, WaitingMade DEF HandsOver
    <3>2. o \in {<<"enqueue", w[1], w[2]>>, <<"unregister", Home(w[1])>>}
      BY <2>6, <3>1 DEF HandedSet
    <3>3. (o[1] = "enqueue" /\ o[2] = w[1]) \/ o[1] = "unregister"
      BY <3>2
    <3> QED BY <1>0, <1>2, <3>1, <3>3
  <2>7. CASE o[1] \in {"poll", "notify", "add", "submit", "wait", "stop", "await"}
    BY <2>7
  <2>8. CASE PollTake(th) /\ (o \in Range(scenario.body[Head(pool[PoolOf(th)].queue)])
                              \/ o = <<"done", Head(pool[PoolOf(th)].queue)>>)
    <3> DEFINE t == Head(pool[PoolOf(th)].queue)
    <3>1. t \in Tasks
      BY <2>8, PollTakePool
    <3>2. scenario.body[t] \in Seq(Calls)
      BY <3>1, Cast
    <3>3. Range(scenario.body[t]) \subseteq Calls
      BY <3>2, RangeJoin
    <3>4. o \in Calls \/ o[1] = "done"
      BY <2>8, <3>3
    <3> QED BY <3>4, CallsAreOps
  <2>9. CASE o[1] \in {"halt", "join"} /\ o[2] \in Pools /\ pool[o[2]].made
    BY <1>0, <2>9
  <2>10. o = <<"poll">> => o[1] = "poll"
    OBVIOUS
  <2>11. o = <<"wait">> => o[1] = "wait"
    OBVIOUS
  <2>12. o = <<"stop", h[2]>> => o[1] = "stop"
    OBVIOUS
  <2>13. o[1] = "add" => o[1] \in {"poll", "notify", "add", "submit", "wait", "stop", "await"}
    OBVIOUS
  <2> HIDE DEF h
  <2>14. BringsEarly(th, o) =>
           \/ o = <<"route", h[2]>> /\ h[1] = "submit" /\ (GetPool(th) \/ MakePool(th))
           \/ o = <<"build", Wanted(th)>> /\ MakePool(th)
           \/ o[1] = "accept" /\ o[2] = h[2] /\ Route(th)
           \/ o[1] = "enqueue" /\ o[2] = h[2] /\ Accept(th)
           \/ HandsOver(th) /\ o \in HandedSet
           \/ o[1] \in {"poll", "notify", "add", "submit", "wait", "stop", "await"}
    BY <2>10 DEF BringsEarly, h
  <2>15. BringsLate(th, o) =>
           \/ PollTake(th) /\ (o \in Range(scenario.body[Head(pool[PoolOf(th)].queue)])
                               \/ o = <<"done", Head(pool[PoolOf(th)].queue)>>)
           \/ o[1] \in {"halt", "join"} /\ o[2] \in Pools /\ pool[o[2]].made
           \/ o[1] \in {"poll", "notify", "add", "submit", "wait", "stop", "await"}
    BY <2>11, <2>12 DEF BringsLate, h
  <2> QED BY <2>1, <2>2, <2>3, <2>4, <2>5, <2>6, <2>7, <2>8, <2>9, <2>14, <2>15
<1> QED BY <1>3, <1>4

\* A pool is made by one thread at a time.
LEMMA NoBuild ==
  ASSUME Types, Scripts, Places, NEW th \in Threads, MakePool(th)
  PROVE  \A x \in Threads : ~Has(x, "build")
<1> SUFFICES ASSUME NEW x \in Threads, NEW o \in Left(x), o[1] = "build"
             PROVE  FALSE
  BY DEF Has
<1>1. scheduler.building = o[2]
  BY DEF Places
<1>2. scheduler.building = Nobody
  BY DEF MakePool
<1>3. todo[x] \in Seq(Op)
  BY DEF Types
<1>4. o \in Op
  <2>1. \A s \in Seq(Op) : Range(s) \subseteq Op
    BY RangeJoin
  <2> QED BY <1>3, <2>1 DEF Left
<1> QED BY <1>1, <1>2, <1>4, Arguments, Cast

LEMMA NewBuild ==
  ASSUME Types, Scripts, Places, Starting, NEW th \in Threads, Step(th),
         NEW x \in Threads, NEW o \in Left(x)', o[1] = "build"
  PROVE  o \in Left(x) \/ (MakePool(th) /\ x = th)
<1> SUFFICES ASSUME o \notin Left(x)
             PROVE  MakePool(th) /\ x = th
  OBVIOUS
<1>1. (x = th \/ o = <<"poll">>) /\ (BringsEarly(th, o) \/ BringsLate(th, o))
  BY Arrives
<1>2. x = th
  BY <1>1
<1>3. ASSUME BringsLate(th, o)
      PROVE  FALSE
  <2>1. o[1] \in {"submit", "halt", "await", "join"} \/ o = <<"wait">> \/ o = <<"stop", Head(todo[th])[2]>>
           => FALSE
    OBVIOUS
  <2>2. /\ PollTake(th)
        /\ \/ o \in Range(scenario.body[Head(pool[PoolOf(th)].queue)])
           \/ o = <<"done", Head(pool[PoolOf(th)].queue)>>
    BY <1>3, <2>1, Zenon DEF BringsLate
  <2>3. Head(pool[PoolOf(th)].queue) \in Tasks
    BY <2>2, PollTakePool
  <2>4. scenario.body[Head(pool[PoolOf(th)].queue)] \in Seq(Calls)
    BY <2>3, Cast
  <2>5. o \in Calls \/ o[1] = "done"
    BY <2>2, <2>4, RangeJoin
  <2> QED BY <2>5, CallsAreOps
<1>4. ASSUME BringsEarly(th, o)
      PROVE  MakePool(th)
  <2>1. ~(o = <<"poll">>) /\ ~(o = <<"route", Head(todo[th])[2]>>)
    OBVIOUS
  <2>2. o \notin HandedSet
    BY DEF HandedSet
  <2> QED BY <1>4, <2>1, <2>2 DEF BringsEarly
<1> QED BY <1>1, <1>2, <1>3, <1>4

LEMMA PlacesStep ==
  ASSUME Types, Scripts, Places, Starting, NEW th \in Threads, Step(th)
  PROVE  Places'
<1>0. \A p \in Pools : pool[p].made => pool'[p].made
  BY PoolFrame
<1>00. UNCHANGED scenario
  BY Frame
<1>1. pool'["main"].made
  BY <1>0, Cast DEF Places
<1>2. ASSUME NEW p \in Pools, NEW t \in Range(pool'[p].queue)
      PROVE  Home(t) = p /\ pool'[p].made
  <2>1. t \in Range(pool[p].queue) => Home(t) = p /\ pool'[p].made
    BY <1>0 DEF Places
  <2>2. CASE SameQueues
    BY <2>1, <2>2 DEF SameQueues
  <2>3. CASE Enqueue(th)
    <3> DEFINE u == Head(todo[th])[2]
    <3>1. /\ Home(u) \in Pools /\ Range(pool'[Home(u)].queue) = Range(pool[Home(u)].queue) \cup {u}
          /\ \A q \in Pools \ {Home(u)} : pool'[q] = pool[q]
      BY <2>3, EnqueuePool
    <3>2. Head(todo[th])[1] = "enqueue" /\ Head(todo[th]) \in Left(th)
      BY <2>3, Heads, HeadOp
    <3>3. pool[Home(u)].made
      BY <3>2 DEF Places
    <3> QED BY <1>0, <2>1, <3>1, <3>3
  <2>4. CASE PollTake(th)
    BY <2>1, <2>4, PollTakePool
  <2>5. CASE PollDiscard(th)
    <3>1. p = PoolOf(th) => Range(pool'[p].queue) = {}
      BY <2>5, PollDiscardPool, RangeOf
    <3> QED BY <2>1, <2>5, <3>1, PollDiscardPool
  <2>6. CASE HaltPool(th)
    <3>1. pool'[p].queue = pool[p].queue \/ pool'[p].queue = <<>>
      BY <2>6, HaltPoolPool
    <3> QED BY <2>1, <3>1, RangeOf
  <2> QED BY <2>2, <2>3, <2>4, <2>5, <2>6, PoolFrame
<1>3. ASSUME NEW i \in DOMAIN group'.waiting
      PROVE  pool'[Home(group'.waiting[i][1])].made
  <2>1. pool[Home(group'.waiting[i][1])].made
    BY WaitingMade
  <2>2. group'.waiting \in Seq(Tasks \X BOOLEAN)
    BY GroupStep
  <2>3. group'.waiting[i] \in Tasks \X BOOLEAN
    BY <2>2
  <2>4. group'.waiting[i][1] \in Tasks
    BY <2>3
  <2>5. Home(group'.waiting[i][1]) \in Pools
    BY <2>4, Cast
  <2> QED BY <1>0, <2>1, <2>5
<1>4. ASSUME NEW x \in Threads, NEW y \in Threads, Has(x, "build")', Has(y, "build")'
      PROVE  x = y
  <2>1. PICK a \in Left(x)' : a[1] = "build"
    BY <1>4 DEF Has
  <2>2. PICK b \in Left(y)' : b[1] = "build"
    BY <1>4 DEF Has
  <2>3. a \in Left(x) \/ (MakePool(th) /\ x = th)
    BY <2>1, NewBuild
  <2>4. b \in Left(y) \/ (MakePool(th) /\ y = th)
    BY <2>2, NewBuild
  <2>5. MakePool(th) => ~Has(x, "build") /\ ~Has(y, "build")
    BY NoBuild
  <2>6. Has(x, "build") /\ Has(y, "build") => x = y
    BY DEF Places
  <2> QED BY <2>1, <2>2, <2>3, <2>4, <2>5, <2>6 DEF Has
<1>5. ASSUME NEW p \in Pools, scheduler'.building = p
      PROVE  ~pool'[p].made
  <2>1. CASE BuildPool(th)
    <3>1. scheduler' = [scheduler EXCEPT !.building = Nobody]
      BY <2>1 DEF BuildPool
    <3>2. scheduler'.building = Nobody
      BY <3>1 DEF Types
    <3> QED BY <1>5, <3>2, Cast
  <2>2. CASE MakePool(th)
    <3>1. scheduler' = [scheduler EXCEPT !.building = Wanted(th)] /\ ~pool[Wanted(th)].made /\ pool' = pool
      BY <2>2 DEF MakePool
    <3>2. scheduler'.building = Wanted(th)
      BY <3>1 DEF Types
    <3> QED BY <1>5, <3>1, <3>2
  <2>3. CASE ~BuildPool(th) /\ ~MakePool(th)
    <3>1. scheduler'.building = scheduler.building /\ pool'[p].made = pool[p].made
      BY <2>3, PoolFrame, SchedulerTyped
    <3> QED BY <1>5, <3>1 DEF Places
  <2> QED BY <2>1, <2>2, <2>3
<1>6. \A p \in Pools : \A t \in Range(pool'[p].queue) : Home(t)' = p /\ pool'[p].made
  BY <1>00, <1>2 DEF Home
<1>7. \A i \in DOMAIN group'.waiting : pool'[Home(group.waiting[i][1])'].made
  BY <1>00, <1>3 DEF Home
<1>8. \A x \in Threads : \A o \in Left(x)' :
       /\ o[1] = "route" => pool'[Home(o[2])'].made \/ <<"build", Home(o[2])'>> \in Left(x)'
       /\ o[1] \in {"accept", "enqueue"} => pool'[Home(o[2])'].made
       /\ o[1] \in {"halt", "join"} => pool'[o[2]].made
       /\ o[1] = "build" => scheduler'.building = o[2]
  BY <1>00, PlacedOps DEF Home
<1> QED BY <1>1, <1>4, <1>5, <1>6, <1>7, <1>8 DEF Places

-----------------------------------------------------------------------------
(* The counting locks.                                                     *)

\* What each does to the counts.
LEMMA ThreadIdleFields ==
  ASSUME NEW i \in IdleRec, NEW p \in Pools, NEW th \in Threads
  PROVE  LET j == ThreadIdle(i, p, th)
           IN /\ j.thread = [i.thread EXCEPT ![th] = TRUE]
              /\ j.active = IF i.thread[th] THEN i.active ELSE [i.active EXCEPT ![p] = @ - 1]
              /\ j.pool = i.pool /\ j.active_pools = i.active_pools
<1>0. /\ i.thread \in [Threads -> BOOLEAN] /\ i.pool \in [Pools -> BOOLEAN]
      /\ i.active \in [Pools -> Int] /\ i.active_pools \in Int
  BY DEF IdleRec
<1>1. CASE i.thread[th]
  <2>1. ThreadIdle(i, p, th) = i
    BY <1>1 DEF ThreadIdle
  <2>2. i.thread = [i.thread EXCEPT ![th] = TRUE]
    BY <1>0, <1>1
  <2> QED BY <1>1, <2>1, <2>2
<1>2. CASE ~i.thread[th]
  <2> DEFINE k == [i EXCEPT !.thread[th] = TRUE]
  <2>1. /\ k.thread = [i.thread EXCEPT ![th] = TRUE] /\ k.active = i.active /\ k.pool = i.pool
        /\ k.active_pools = i.active_pools /\ k \in IdleRec
    BY <1>0 DEF IdleRec
  <2>2. ThreadIdle(i, p, th) = [k EXCEPT !.active[p] = @ - 1]
    BY <1>2 DEF ThreadIdle
  <2> HIDE DEF k
  <2> QED BY <1>2, <2>1, <2>2 DEF IdleRec
<1> QED BY <1>1, <1>2

LEMMA ThreadBusyFields ==
  ASSUME NEW i \in IdleRec, NEW p \in Pools, NEW th \in Threads
  PROVE  LET j == ThreadBusy(i, p, th)
           IN /\ j.thread = [i.thread EXCEPT ![th] = FALSE]
              /\ j.active = IF i.thread[th] THEN [i.active EXCEPT ![p] = @ + 1] ELSE i.active
              /\ j.pool = i.pool /\ j.active_pools = i.active_pools
<1>0. /\ i.thread \in [Threads -> BOOLEAN] /\ i.pool \in [Pools -> BOOLEAN]
      /\ i.active \in [Pools -> Int] /\ i.active_pools \in Int
  BY DEF IdleRec
<1>1. CASE ~i.thread[th]
  <2>1. ThreadBusy(i, p, th) = i
    BY <1>1 DEF ThreadBusy
  <2>2. i.thread = [i.thread EXCEPT ![th] = FALSE]
    BY <1>0, <1>1
  <2> QED BY <1>1, <2>1, <2>2
<1>2. CASE i.thread[th]
  <2> DEFINE k == [i EXCEPT !.thread[th] = FALSE]
  <2>1. /\ k.thread = [i.thread EXCEPT ![th] = FALSE] /\ k.active = i.active /\ k.pool = i.pool
        /\ k.active_pools = i.active_pools /\ k \in IdleRec
    BY <1>0 DEF IdleRec
  <2>2. ThreadBusy(i, p, th) = [k EXCEPT !.active[p] = @ + 1]
    BY <1>2 DEF ThreadBusy
  <2> HIDE DEF k
  <2> QED BY <1>2, <2>1, <2>2 DEF IdleRec
<1> QED BY <1>1, <1>2

LEMMA PoolIdleFields ==
  ASSUME NEW i \in IdleRec, NEW p \in Pools
  PROVE  LET j == PoolIdle(i, p)
           IN /\ j.thread = i.thread /\ j.active = i.active
              /\ j.pool = [i.pool EXCEPT ![p] = TRUE] /\ j.active_pools = i.active_pools - 1
<1>0. /\ i.thread \in [Threads -> BOOLEAN] /\ i.pool \in [Pools -> BOOLEAN]
      /\ i.active \in [Pools -> Int] /\ i.active_pools \in Int
  BY DEF IdleRec
<1> DEFINE k == [i EXCEPT !.pool[p] = TRUE]
<1>1. /\ k.pool = [i.pool EXCEPT ![p] = TRUE] /\ k.active = i.active /\ k.thread = i.thread
      /\ k.active_pools = i.active_pools /\ k \in IdleRec
  BY <1>0 DEF IdleRec
<1>2. PoolIdle(i, p) = [k EXCEPT !.active_pools = @ - 1]
  BY DEF PoolIdle
<1> HIDE DEF k
<1> QED BY <1>1, <1>2 DEF IdleRec

LEMMA PoolBusyFields ==
  ASSUME NEW i \in IdleRec, NEW p \in Pools
  PROVE  LET j == PoolBusy(i, p)
           IN /\ j.thread = i.thread /\ j.active = i.active
              /\ j.pool = [i.pool EXCEPT ![p] = FALSE]
              /\ j.active_pools = IF i.pool[p] THEN i.active_pools + 1 ELSE i.active_pools
<1>0. /\ i.thread \in [Threads -> BOOLEAN] /\ i.pool \in [Pools -> BOOLEAN]
      /\ i.active \in [Pools -> Int] /\ i.active_pools \in Int
  BY DEF IdleRec
<1>1. CASE ~i.pool[p]
  <2>1. PoolBusy(i, p) = i
    BY <1>1 DEF PoolBusy
  <2>2. i.pool = [i.pool EXCEPT ![p] = FALSE]
    BY <1>0, <1>1
  <2> QED BY <1>1, <2>1, <2>2
<1>2. CASE i.pool[p]
  <2> DEFINE k == [i EXCEPT !.pool[p] = FALSE]
  <2>1. /\ k.pool = [i.pool EXCEPT ![p] = FALSE] /\ k.active = i.active /\ k.thread = i.thread
        /\ k.active_pools = i.active_pools /\ k \in IdleRec
    BY <1>0 DEF IdleRec
  <2>2. PoolBusy(i, p) = [k EXCEPT !.active_pools = @ + 1]
    BY <1>2 DEF PoolBusy
  <2> HIDE DEF k
  <2> QED BY <1>2, <2>1, <2>2 DEF IdleRec
<1> QED BY <1>1, <1>2

\* A pool's count is right: of its busy workers if it counts, else none.
BusyIn(i, p) == {w \in Workers(p) : ~i.thread[w]}
Right(i, p) ==
  IF Counts(p) THEN i.active[p] = Cardinality(BusyIn(i, p))
  ELSE i.active[p] = 0 /\ \A w \in Workers(p) : ~i.thread[w]
SameElsewhere(i, j, p) ==
  /\ \A q \in Pools \ {p} : j.active[q] = i.active[q] /\ \A w \in Workers(q) : j.thread[w] = i.thread[w]
  /\ \A q \in Pools \ {p} : j.pool[q] = i.pool[q]

LEMMA ThreadIdleRight ==
  ASSUME Types, NEW i \in IdleRec, NEW p \in Pools, NEW th \in Workers(p), Right(i, p), Counts(p)
  PROVE  LET j == ThreadIdle(i, p, th)
         IN /\ j \in IdleRec /\ Right(j, p) /\ SameElsewhere(i, j, p)
            /\ j.thread[th] /\ \A w \in Threads \ {th} : j.thread[w] = i.thread[w]
            /\ j.pool = i.pool /\ j.active_pools = i.active_pools
<1> DEFINE j == ThreadIdle(i, p, th)
<1>0. th \in Threads /\ i.thread \in [Threads -> BOOLEAN] /\ i.active[p] \in Int
  BY PoolOfWorker DEF IdleRec
<1>01. j \in IdleRec
  BY <1>0, CountsTyped
<1>02. /\ j.thread = [i.thread EXCEPT ![th] = TRUE]
       /\ j.active = IF i.thread[th] THEN i.active ELSE [i.active EXCEPT ![p] = @ - 1]
       /\ j.pool = i.pool /\ j.active_pools = i.active_pools
  BY <1>0, ThreadIdleFields
<1> HIDE DEF j
<1>1. /\ j \in IdleRec /\ j.thread = [i.thread EXCEPT ![th] = TRUE]
      /\ \A q \in Pools \ {p} : j.active[q] = i.active[q]
      /\ j.active[p] = IF i.thread[th] THEN i.active[p] ELSE i.active[p] - 1
      /\ j.pool = i.pool /\ j.active_pools = i.active_pools
  BY <1>01, <1>02 DEF IdleRec
<1>2. j.thread[th] /\ \A w \in Threads \ {th} : j.thread[w] = i.thread[w]
  BY <1>0, <1>1
<1>3. BusyIn(j, p) = BusyIn(i, p) \ {th}
  BY <1>2, PoolOfWorker DEF BusyIn
<1>4. IsFiniteSet(BusyIn(i, p)) /\ Cardinality(BusyIn(i, p)) \in Nat
  <2>1. BusyIn(i, p) \subseteq Workers(p)
    BY DEF BusyIn
  <2> QED BY <2>1, WorkersFinite
<1>5. Cardinality(BusyIn(j, p)) = IF th \in BusyIn(i, p) THEN Cardinality(BusyIn(i, p)) - 1
                                  ELSE Cardinality(BusyIn(i, p))
  BY <1>3, <1>4, FS_RemoveElement
<1>6. Right(j, p)
  BY <1>1, <1>5 DEF Right, BusyIn
<1>7. SameElsewhere(i, j, p)
  <2>1. \A q \in Pools \ {p} : \A w \in Workers(q) : w # th /\ w \in Threads
    BY PoolOfWorker
  <2> QED BY <1>1, <1>2, <2>1 DEF SameElsewhere
<1> QED BY <1>1, <1>2, <1>6, <1>7 DEF j

LEMMA ThreadBusyRight ==
  ASSUME Types, NEW i \in IdleRec, NEW p \in Pools, NEW th \in Workers(p), Right(i, p)
  PROVE  LET j == ThreadBusy(i, p, th)
         IN /\ j \in IdleRec /\ Right(j, p) /\ SameElsewhere(i, j, p)
            /\ ~j.thread[th] /\ \A w \in Threads \ {th} : j.thread[w] = i.thread[w]
            /\ j.pool = i.pool /\ j.active_pools = i.active_pools
<1> DEFINE j == ThreadBusy(i, p, th)
<1>0. th \in Threads /\ i.thread \in [Threads -> BOOLEAN] /\ i.active[p] \in Int
  BY PoolOfWorker DEF IdleRec
<1>01. j \in IdleRec
  BY <1>0, CountsTyped
<1>02. /\ j.thread = [i.thread EXCEPT ![th] = FALSE]
       /\ j.active = IF i.thread[th] THEN [i.active EXCEPT ![p] = @ + 1] ELSE i.active
       /\ j.pool = i.pool /\ j.active_pools = i.active_pools
  BY <1>0, ThreadBusyFields
<1> HIDE DEF j
<1>1. /\ j \in IdleRec /\ j.thread = [i.thread EXCEPT ![th] = FALSE]
      /\ \A q \in Pools \ {p} : j.active[q] = i.active[q]
      /\ j.active[p] = IF i.thread[th] THEN i.active[p] + 1 ELSE i.active[p]
      /\ j.pool = i.pool /\ j.active_pools = i.active_pools
  BY <1>01, <1>02 DEF IdleRec
<1>2. ~j.thread[th] /\ \A w \in Threads \ {th} : j.thread[w] = i.thread[w]
  BY <1>0, <1>1
<1>3. BusyIn(j, p) = BusyIn(i, p) \cup {th}
  BY <1>2, PoolOfWorker DEF BusyIn
<1>4. IsFiniteSet(BusyIn(i, p)) /\ Cardinality(BusyIn(i, p)) \in Nat
  <2>1. BusyIn(i, p) \subseteq Workers(p)
    BY DEF BusyIn
  <2> QED BY <2>1, WorkersFinite
<1>5. Cardinality(BusyIn(j, p)) = IF th \in BusyIn(i, p) THEN Cardinality(BusyIn(i, p))
                                  ELSE Cardinality(BusyIn(i, p)) + 1
  BY <1>3, <1>4, FS_AddElement
<1>6. Right(j, p)
  <2>1. CASE Counts(p)
    BY <1>1, <1>5, <2>1 DEF Right, BusyIn
  <2>2. CASE ~Counts(p)
    BY <1>1, <1>2, <2>2, PoolOfWorker DEF Right
  <2> QED BY <2>1, <2>2
<1>7. SameElsewhere(i, j, p)
  <2>1. \A q \in Pools \ {p} : \A w \in Workers(q) : w # th /\ w \in Threads
    BY PoolOfWorker
  <2> QED BY <1>1, <1>2, <2>1 DEF SameElsewhere
<1> QED BY <1>1, <1>2, <1>6, <1>7 DEF j

\* A worker that looks for work keeps its pool's count right, and those of the others.
Near(i, j, p, th) ==
  /\ j \in IdleRec /\ Right(j, p) /\ SameElsewhere(i, j, p)
  /\ \A w \in Threads \ {th} : j.thread[w] = i.thread[w]
  /\ j.pool = i.pool /\ j.active_pools = i.active_pools

LEMMA LatchedNear ==
  ASSUME Types, NEW th \in Threads, PoolOf(th) \in Pools, Right(idle, PoolOf(th))
  PROVE  Near(idle, Latched(th), PoolOf(th), th)
<1>0. th \in Workers(PoolOf(th)) /\ idle \in IdleRec
  BY Cast DEF Types, IdleRec
<1>1. Near(idle, idle, PoolOf(th), th)
  BY <1>0 DEF Near, SameElsewhere
<1>2. ASSUME Counts(PoolOf(th))
      PROVE  Near(idle, ThreadIdle(idle, PoolOf(th), th), PoolOf(th), th)
  BY <1>0, <1>2, ThreadIdleRight DEF Near
<1> QED BY <1>1, <1>2 DEF Latched, Countable

LEMMA NearNear ==
  ASSUME NEW i, NEW j, NEW k, NEW p, NEW th, Near(i, j, p, th), Near(j, k, p, th)
  PROVE  Near(i, k, p, th)
  BY DEF Near, SameElsewhere

LEMMA PollCounts ==
  ASSUME Types, Scripts, NEW th \in Threads, PollLatched(th) \/ PollTake(th) \/ PollIdle(th),
         Right(idle, PoolOf(th))
  PROVE  LET p == PoolOf(th) IN
         /\ p \in Pools /\ th \in Workers(p)
         /\ Right(idle', p) /\ SameElsewhere(idle, idle', p)
         /\ \A w \in Threads \ {th} : idle'.thread[w] = idle.thread[w]
         /\ \/ idle'.pool[p] = idle.pool[p] /\ idle'.active_pools = idle.active_pools
            \/ /\ ~idle.pool[p] /\ idle'.pool[p] /\ idle'.active_pools = idle.active_pools - 1
               /\ Counts(p) /\ PollIdle(th) /\ idle'.active[p] = 0
            \/ idle.pool[p] /\ ~idle'.pool[p] /\ idle'.active_pools = idle.active_pools + 1 /\ PollTake(th)
         /\ PollTake(th) => ~idle'.thread[th] /\ ~idle'.pool[p]
<1> DEFINE p == PoolOf(th)
           i == Latched(th)
<1>1. At(th, "poll")
  BY DEF PollLatched, PollTake, PollIdle, Serves
<1>2. p \in Pools /\ th \in Workers(p) /\ todo[th] # <<>>
  BY <1>1, AtPoll
<1>3. Near(idle, i, p, th)
  BY <1>2, LatchedNear
<1>4. i \in IdleRec /\ Right(i, p)
  BY <1>3 DEF Near
<1>5. CASE PollLatched(th)
  <2>1. idle' = i /\ ~PollTake(th)
    BY <1>5 DEF PollLatched, PollTake, Take
  <2> HIDE DEF i, p
  <2> QED BY <1>2, <1>3, <1>5, <2>1 DEF Near, p
<1>6. CASE PollTake(th)
  <2> DEFINE j == ThreadBusy(i, p, th)
  <2>1. idle' = PoolBusy(j, p)
    BY <1>6 DEF PollTake
  <2> HIDE DEF i, p
  <2>2. Near(i, j, p, th) /\ ~j.thread[th]
    BY <1>2, <1>4, ThreadBusyRight DEF Near
  <2>3. Near(idle, j, p, th)
    BY <1>3, <2>2, NearNear
  <2> HIDE DEF j
  <2>4. /\ idle'.thread = j.thread /\ idle'.active = j.active
        /\ idle'.pool = [j.pool EXCEPT ![p] = FALSE]
        /\ idle'.active_pools = IF j.pool[p] THEN j.active_pools + 1 ELSE j.active_pools
    BY <1>2, <2>1, <2>3, PoolBusyFields DEF Near
  <2>5. Right(idle', p) /\ SameElsewhere(idle, idle', p)
    BY <2>3, <2>4 DEF Near, Right, BusyIn, SameElsewhere, IdleRec
  <2>6. j.pool[p] = idle.pool[p] /\ j.active_pools = idle.active_pools /\ ~idle'.pool[p]
    BY <1>2, <2>3, <2>4 DEF Near, IdleRec
  <2>7. \A w \in Threads \ {th} : idle'.thread[w] = idle.thread[w]
    BY <2>3, <2>4 DEF Near
  <2>8. idle.pool[p] \in BOOLEAN
    BY <1>2 DEF Types
  <2>9. \/ idle'.pool[p] = idle.pool[p] /\ idle'.active_pools = idle.active_pools
        \/ idle.pool[p] /\ ~idle'.pool[p] /\ idle'.active_pools = idle.active_pools + 1
    <3>1. CASE idle.pool[p]
      BY <2>4, <2>6, <3>1
    <3>2. CASE ~idle.pool[p]
      <4>1. idle.pool[p] = FALSE /\ idle'.pool[p] = FALSE
        <5>1. idle'.pool[p] \in BOOLEAN
          BY <1>2, <2>3, <2>4 DEF Near, IdleRec
        <5> QED BY <2>6, <2>8, <3>2, <5>1
      <4>2. idle'.active_pools = idle.active_pools
        BY <2>4, <2>6, <3>2
      <4> QED BY <4>1, <4>2
    <3> QED BY <3>1, <3>2
  <2>10. ~idle'.thread[th] /\ ~idle'.pool[p]
    BY <2>2, <2>4, <2>6
  <2> QED BY <1>2, <1>6, <2>5, <2>7, <2>9, <2>10 DEF p
<1>7. CASE PollIdle(th)
  <2> DEFINE j == IF Countable(p) THEN ThreadIdle(i, p, th) ELSE i
             out == Countable(p) /\ j.active[p] = 0 /\ ~j.pool[p]
  <2>1. idle' = IF out THEN PoolIdle(j, p) ELSE j
    BY <1>7 DEF PollIdle
  <2> HIDE DEF i, p
  <2>2. Near(idle, j, p, th)
    <3>1. CASE Countable(p)
      <4>1. Counts(p)
        BY <3>1 DEF Countable
      <4>2. Near(i, ThreadIdle(i, p, th), p, th)
        BY <1>2, <1>4, <4>1, ThreadIdleRight DEF Near
      <4> QED BY <1>3, <3>1, <4>2, NearNear
    <3>2. CASE ~Countable(p)
      BY <1>3, <3>2
    <3> QED BY <3>1, <3>2
  <2> HIDE DEF j
  <2>3. CASE ~out
    <3>1. idle' = j
      BY <2>1, <2>3
    <3>2. ~PollTake(th)
      BY <1>7 DEF PollTake, PollIdle
    <3> HIDE DEF out
    <3> QED BY <1>2, <2>2, <3>1, <3>2 DEF Near, p
  <2>4. CASE out
    <3>1. /\ idle'.thread = j.thread /\ idle'.active = j.active
          /\ idle'.pool = [j.pool EXCEPT ![p] = TRUE]
          /\ idle'.active_pools = j.active_pools - 1
      BY <1>2, <2>1, <2>2, <2>4, PoolIdleFields DEF Near
    <3>2. Right(idle', p) /\ SameElsewhere(idle, idle', p)
      BY <2>2, <3>1 DEF Near, Right, BusyIn, SameElsewhere, IdleRec
    <3>3. /\ ~idle.pool[p] /\ j.active_pools = idle.active_pools /\ idle'.pool[p] /\ idle'.active[p] = 0
          /\ Counts(p)
      BY <1>2, <2>2, <2>4, <3>1 DEF Near, IdleRec, Countable
    <3>4. ~PollTake(th)
      BY <1>7 DEF PollTake, PollIdle
    <3> HIDE DEF out
    <3> QED BY <1>2, <1>7, <2>2, <3>1, <3>2, <3>3, <3>4 DEF Near, p
  <2> QED BY <2>3, <2>4
<1> QED BY <1>5, <1>6, <1>7

\* The other actions that touch the counts.
LEMMA PlainCounts ==
  ASSUME Types, Scripts, Places, Starting, NEW th \in Threads, Step(th)
  PROVE  /\ Notify(th) =>
              LET p == Head(todo[th])[2] IN
              /\ p \in Pools /\ idle'.thread = idle.thread /\ idle'.active = idle.active
              /\ \A q \in Pools \ {p} : idle'.pool[q] = idle.pool[q]
              /\ \/ idle'.pool[p] = idle.pool[p] /\ idle'.active_pools = idle.active_pools
                 \/ idle.pool[p] /\ ~idle'.pool[p] /\ idle'.active_pools = idle.active_pools + 1
              /\ Head(todo[th])[3] => ~idle'.pool[p]
         /\ MakePool(th) =>
              /\ idle'.thread = idle.thread /\ idle'.active = idle.active /\ idle'.pool = idle.pool
              /\ idle'.active_pools = IF Counts(Wanted(th)) THEN idle.active_pools + 1 ELSE idle.active_pools
         /\ Start(th) =>
              /\ idle'.thread = idle.thread /\ idle'.pool = idle.pool /\ idle'.active_pools = idle.active_pools
              /\ \A p \in Pools : idle'.active[p] = IF p # "main" /\ pool[p].made /\ Counts(p)
                                                    THEN Cardinality(Workers(p)) ELSE idle.active[p]
         /\ StartMain(th) =>
              /\ idle'.thread = idle.thread /\ idle'.pool = idle.pool /\ idle'.active_pools = idle.active_pools
              /\ \A p \in Pools : idle'.active[p] = IF p = "main" /\ Counts(p)
                                                    THEN Cardinality(Workers(p)) ELSE idle.active[p]
         /\ BuildPool(th) =>
              LET b == Head(todo[th])[2] IN
              /\ idle'.thread = idle.thread
              /\ \A p \in Pools : idle'.pool[p] = ((p = b /\ Counts(b)) \/ idle.pool[p])
              /\ idle'.active_pools = IF Counts(b) THEN idle.active_pools - 1 ELSE idle.active_pools
              /\ \A p \in Pools : idle'.active[p] = IF p = b /\ Counts(p) /\ scheduler.started
                                                    THEN Cardinality(Workers(p)) ELSE idle.active[p]
<1>0. idle \in IdleRec
  BY DEF Types, IdleRec
<1>1. \A i \in IdleRec : \A ps :
        /\ Activated(i, ps).thread = i.thread /\ Activated(i, ps).pool = i.pool
        /\ Activated(i, ps).active_pools = i.active_pools
        /\ \A p \in Pools : Activated(i, ps).active[p] =
                              IF p \in ps /\ Counts(p) THEN Cardinality(Workers(p)) ELSE i.active[p]
  BY DEF Activated, IdleRec
<1>2. ASSUME Notify(th)
      PROVE  LET p == Head(todo[th])[2] IN
              /\ p \in Pools /\ idle'.thread = idle.thread /\ idle'.active = idle.active
              /\ \A q \in Pools \ {p} : idle'.pool[q] = idle.pool[q]
              /\ \/ idle'.pool[p] = idle.pool[p] /\ idle'.active_pools = idle.active_pools
                 \/ idle.pool[p] /\ ~idle'.pool[p] /\ idle'.active_pools = idle.active_pools + 1
              /\ Head(todo[th])[3] => ~idle'.pool[p]
  <2> DEFINE p == Head(todo[th])[2]
             b == Head(todo[th])[3]
  <2>1. p \in Pools
    BY <1>2, Heads, HeadOp, Arguments
  <2>2. idle' = IF b THEN PoolBusy(idle, p) ELSE idle
    BY <1>2 DEF Notify, Arg
  <2> HIDE DEF p, b
  <2>3. LET j == PoolBusy(idle, p)
        IN /\ j.thread = idle.thread /\ j.active = idle.active
           /\ j.pool = [idle.pool EXCEPT ![p] = FALSE]
           /\ j.active_pools = IF idle.pool[p] THEN idle.active_pools + 1 ELSE idle.active_pools
    BY <1>0, <2>1, PoolBusyFields
  <2>4. CASE ~b
    BY <2>1, <2>2, <2>4 DEF p, b
  <2>5. CASE b
    <3>1. idle' = PoolBusy(idle, p)
      BY <2>2, <2>5
    <3>2. idle.pool[p] \in BOOLEAN /\ idle.pool \in [Pools -> BOOLEAN]
      BY <1>0, <2>1 DEF IdleRec
    <3>3. idle'.pool[p] = FALSE /\ \A q \in Pools \ {p} : idle'.pool[q] = idle.pool[q]
      BY <2>1, <2>3, <3>1, <3>2
    <3>4. idle'.pool[p] = idle.pool[p] \/ idle.pool[p]
      BY <3>2, <3>3
    <3>5. idle'.active_pools = IF idle.pool[p] THEN idle.active_pools + 1 ELSE idle.active_pools
      BY <2>3, <3>1
    <3>6. \/ idle'.pool[p] = idle.pool[p] /\ idle'.active_pools = idle.active_pools
          \/ idle.pool[p] /\ ~idle'.pool[p] /\ idle'.active_pools = idle.active_pools + 1
      BY <3>2, <3>3, <3>5
    <3>7. idle'.thread = idle.thread /\ idle'.active = idle.active
      BY <2>3, <3>1
    <3> QED BY <2>1, <3>3, <3>6, <3>7 DEF p
  <2> QED BY <2>4, <2>5
<1>3. ASSUME MakePool(th)
      PROVE  /\ idle'.thread = idle.thread /\ idle'.active = idle.active /\ idle'.pool = idle.pool
             /\ idle'.active_pools = IF Counts(Wanted(th)) THEN idle.active_pools + 1 ELSE idle.active_pools
  <2>1. idle' = IF Counts(Wanted(th)) THEN [idle EXCEPT !.active_pools = @ + 1] ELSE idle
    BY <1>3 DEF MakePool
  <2> QED BY <1>0, <2>1 DEF IdleRec
<1>4. ASSUME Start(th)
      PROVE  /\ idle'.thread = idle.thread /\ idle'.pool = idle.pool /\ idle'.active_pools = idle.active_pools
             /\ \A p \in Pools : idle'.active[p] = IF p # "main" /\ pool[p].made /\ Counts(p)
                                                   THEN Cardinality(Workers(p)) ELSE idle.active[p]
  <2>1. idle' = Activated(idle, {p \in Pools \ {"main"} : pool[p].made})
    BY <1>4, StartMoves
  <2> QED BY <1>0, <1>1, <2>1
<1>5. ASSUME StartMain(th)
      PROVE  /\ idle'.thread = idle.thread /\ idle'.pool = idle.pool /\ idle'.active_pools = idle.active_pools
             /\ \A p \in Pools : idle'.active[p] = IF p = "main" /\ Counts(p)
                                                   THEN Cardinality(Workers(p)) ELSE idle.active[p]
  <2>1. idle' = Activated(idle, {"main"})
    BY <1>5 DEF StartMain
  <2> QED BY <1>0, <1>1, <2>1
<1>6. ASSUME BuildPool(th)
      PROVE  LET b == Head(todo[th])[2] IN
             /\ idle'.thread = idle.thread
             /\ \A p \in Pools : idle'.pool[p] = ((p = b /\ Counts(b)) \/ idle.pool[p])
             /\ idle'.active_pools = IF Counts(b) THEN idle.active_pools - 1 ELSE idle.active_pools
             /\ \A p \in Pools : idle'.active[p] = IF p = b /\ Counts(p) /\ scheduler.started
                                                   THEN Cardinality(Workers(p)) ELSE idle.active[p]
  <2> DEFINE b == Head(todo[th])[2]
             i == IF Counts(b) THEN PoolIdle(idle, b) ELSE idle
             now == IF scheduler.started THEN {b} ELSE {}
  <2>1. b \in Pools /\ idle' = Activated(i, now)
    BY <1>6, BuildPoolMoves
  <2> HIDE DEF b
  <2>2. \A p \in Pools : p \in now <=> (p = b /\ scheduler.started)
    OBVIOUS
  <2> HIDE DEF now
  <2>3. i \in IdleRec
    BY <1>0, <2>1, CountsTyped, Cast
  <2>4. LET j == PoolIdle(idle, b)
        IN /\ j.thread = idle.thread /\ j.active = idle.active
           /\ j.pool = [idle.pool EXCEPT ![b] = TRUE] /\ j.active_pools = idle.active_pools - 1
    BY <1>0, <2>1, PoolIdleFields
  <2>5. /\ i.thread = idle.thread /\ i.active = idle.active
        /\ \A p \in Pools : i.pool[p] = ((p = b /\ Counts(b)) \/ idle.pool[p])
        /\ i.active_pools = IF Counts(b) THEN idle.active_pools - 1 ELSE idle.active_pools
    BY <1>0, <2>1, <2>4 DEF IdleRec
  <2> HIDE DEF i
  <2>6. \A p \in Pools : idle'.active[p] = IF p = b /\ Counts(p) /\ scheduler.started
                                           THEN Cardinality(Workers(p)) ELSE i.active[p]
    BY <1>1, <2>1, <2>2, <2>3
  <2>7. idle'.thread = i.thread /\ idle'.pool = i.pool /\ idle'.active_pools = i.active_pools
    BY <1>1, <2>1, <2>3
  <2> QED BY <2>5, <2>6, <2>7 DEF b
<1> QED BY <1>2, <1>3, <1>4, <1>5, <1>6

-----------------------------------------------------------------------------
(* Which pools are going.                                                  *)

\* What a step adds, by kind.
LEMMA Brought ==
  ASSUME Types, Scripts, Places, Starting, NEW th \in Threads, Step(th),
         NEW x \in Threads, NEW o \in Left(x)', o \notin Left(x)
  PROVE  /\ o \in Op /\ o[1] \notin {"start", "mainpool", "finals", "begin"}
         /\ o[1] # "poll" => x = th
         /\ o[1] = "poll" => BuildPool(th) \/ Start(th) \/ StartMain(th)
         /\ o[1] = "submit" => \/ PollLatched(th) \/ PollIdle(th) \/ Shutdown(th)
                               \/ PollTake(th) /\ o \in Range(scenario.body[Head(pool[PoolOf(th)].queue)])
         /\ o[1] = "unregister" => HandsOver(th) /\ o = <<"unregister", Home(Head(group.waiting)[1])>>
         /\ o[1] = "done" => PollTake(th) /\ o = <<"done", Head(pool[PoolOf(th)].queue)>>
         /\ o[1] = "stop" => Shutdown(th)
         /\ o[1] = "join" => Finals(th)
         /\ o[1] = "halt" => StopScheduler(th) \/ Finals(th)
<1>1. todo' \in [Threads -> Seq(Op)]
  BY TodoTyped
<1>2. o \in Op
  <2>1. todo'[x] \in Seq(Op) /\ o \in Range(todo'[x])
    BY <1>1 DEF Left
  <2> QED BY <2>1, RangeJoin
<1>3. x = th \/ o = <<"poll">>
  BY Arrives
<1>4. CASE BringsEarly(th, o)
  <2>1. HandsOver(th) => group.waiting # <<>>
    BY DEF HandsOver
  <2> QED BY <1>2, <1>3, <1>4, <2>1 DEF BringsEarly, HandedSet
<1>5. CASE BringsLate(th, o)
  <2>1. ASSUME PollTake(th), o \in Range(scenario.body[Head(pool[PoolOf(th)].queue)])
        PROVE  o[1] \in {"submit", "bindall", "unbindall", "bind", "unbind", "shutdown"}
    <3>1. scenario.body[Head(pool[PoolOf(th)].queue)] \in Seq(Calls)
      BY <2>1, PollTakePool, Cast
    <3>2. o \in Calls
      BY <2>1, <3>1, RangeJoin
    <3> QED BY <3>2, CallsAreOps
  <2> QED BY <1>2, <1>3, <1>5, <2>1 DEF BringsLate
<1> QED BY <1>4, <1>5, Arrives

\* The operations of the main thread that are there once.
LEMMA OncePerSystem ==
  ASSUME Types, Scripts, Places, Starting, NEW th \in Threads, Step(th)
  PROVE  /\ Has("main", "start")' => Has("main", "start")
         /\ Has("main", "mainpool")' => Has("main", "mainpool")
         /\ Has("main", "finals")' => Has("main", "finals")
         /\ Has("main", "start") => Has("main", "start")' \/ Start(th)
         /\ Has("main", "mainpool") => Has("main", "mainpool")' \/ StartMain(th)
         /\ Has("main", "finals") => Has("main", "finals")' \/ Finals(th)
<1>0. "main" \in Threads
  BY Cast
<1>1. \A k \in {"start", "mainpool", "finals"} : Has("main", k)' => Has("main", k)
  BY <1>0, Brought DEF Has
<1>2. ASSUME NEW k \in {"start", "mainpool", "finals"}, Has("main", k), ~Has("main", k)'
      PROVE  th = "main" /\ todo[th] # <<>> /\ Head(todo[th])[1] = k
  <2>1. PICK o \in Left("main") : o[1] = k
    BY <1>2 DEF Has
  <2>2. o \notin Left("main")'
    BY <1>2, <2>1 DEF Has
  <2> QED BY <1>0, <2>1, <2>2, Departs
<1> QED BY <1>1, <1>2, Acts

LEMMA StartMainStarts ==
  ASSUME Types, Scripts, NEW th \in Threads, StartMain(th)
  PROVE  ~Has("main", "mainpool")' /\ Has("main", "mainpool")
<1>1. /\ th = "main" /\ Left(th) = {<<"mainpool">>} \cup Range(Tail(todo[th]))
      /\ Left(th)' = {<<"poll">>} \cup Range(Tail(todo[th]))
      /\ \A o \in Range(Tail(todo[th])) : RankOf(o) > 6
  BY StartMainMoves
<1>2. ASSUME NEW o, o[1] = "mainpool" PROVE ~(RankOf(o) > 6)
  BY <1>2 DEF RankOf, Rank
<1>3. \A o \in Range(todo'["main"]) : o[1] # "mainpool"
  BY <1>1, <1>2 DEF Left
<1>4. <<"mainpool">> \in Range(todo["main"])
  BY <1>1 DEF Left
<1> QED BY <1>3, <1>4 DEF Has, Left

LEMMA BegunStep ==
  ASSUME Types, Scripts, Places, Starting, NEW th \in Threads, Step(th), NEW p \in Pools
  PROVE  /\ Begun(p) => Begun(p)'
         /\ Begun(p)' => \/ Begun(p) \/ (StartMain(th) /\ p = "main")
                         \/ (Start(th) /\ p # "main" /\ pool[p].made)
                         \/ (BuildPool(th) /\ p = Head(todo[th])[2] /\ p # "main" /\ scheduler.started)
         /\ StartMain(th) => Begun("main")' /\ ~Begun("main")
         /\ Start(th) => (Begun(p)' <=> Begun(p) \/ (p # "main" /\ pool[p].made))
         /\ Start(th) => (p # "main" => ~Begun(p))
         /\ BuildPool(th) /\ p = Head(todo[th])[2] => (Begun(p)' <=> scheduler.started) /\ ~Begun(p)
<1>0. "main" \in Pools
  BY Cast
<1>1. /\ Has("main", "mainpool")' => Has("main", "mainpool")
      /\ Has("main", "mainpool") => Has("main", "mainpool")' \/ StartMain(th)
      /\ StartMain(th) => ~Has("main", "mainpool")' /\ Has("main", "mainpool")
  BY OncePerSystem, StartMainStarts
<1>2. /\ pool[p].made => pool'[p].made
      /\ pool'[p].made = pool[p].made \/ BuildPool(th)
      /\ scheduler'.started = scheduler.started \/ Start(th)
  BY PoolFrame, SchedulerTyped
<1>3. ASSUME Start(th)
      PROVE ~scheduler.started /\ scheduler'.started /\ pool' = pool
  <2>1. ~scheduler.started /\ scheduler' = [scheduler EXCEPT !.started = TRUE]
    BY <1>3, StartMoves
  <2> QED BY <1>3, <2>1 DEF Types, Start
<1>4. ASSUME BuildPool(th)
      PROVE LET b == Head(todo[th])[2]
            IN /\ b \in Pools /\ b # "main" /\ ~pool[b].made /\ pool'[b].made
               /\ \A q \in Pools \ {b} : pool'[q] = pool[q]
               /\ scheduler'.started = scheduler.started
  <2>1. scheduler' = [scheduler EXCEPT !.building = Nobody]
    BY <1>4, BuildPoolMoves
  <2>2. scheduler'.started = scheduler.started
    BY <2>1 DEF Types
  <2> QED BY <1>4, <2>2, BuildPoolMoves, BuildPoolPool
<1>5. ~Start(th) => scheduler'.started = scheduler.started
  BY <1>2
<1>6. /\ Begun(p) => Begun(p)'
      /\ Begun(p)' => \/ Begun(p) \/ (StartMain(th) /\ p = "main")
                      \/ (Start(th) /\ p # "main" /\ pool[p].made)
                      \/ (BuildPool(th) /\ p = Head(todo[th])[2] /\ p # "main" /\ scheduler.started)
  <2>1. CASE p = "main"
    BY <1>1, <2>1 DEF Begun
  <2>2. CASE p # "main"
    BY <1>2, <1>3, <1>4, <1>5, <2>2 DEF Begun
  <2> QED BY <2>1, <2>2
<1>7. StartMain(th) => Begun("main")' /\ ~Begun("main")
  BY <1>1 DEF Begun
<1>8. Start(th) => (Begun(p)' <=> Begun(p) \/ (p # "main" /\ pool[p].made))
  <2>1. Start(th) => ~StartMain(th) /\ ~BuildPool(th)
    BY DEF Start, StartMain, BuildPool, At
  <2> QED BY <1>3, <1>6, <2>1 DEF Begun
<1>9. Start(th) => (p # "main" => ~Begun(p))
  BY <1>3 DEF Begun
<1>10. BuildPool(th) /\ p = Head(todo[th])[2] => (Begun(p)' <=> scheduler.started) /\ ~Begun(p)
  BY <1>4 DEF Begun
<1> QED BY <1>6, <1>7, <1>8, <1>9, <1>10

LEMMA Acting ==
  ASSUME NEW th \in Threads, Step(th)
  PROVE  ~terminated /\ todo[th] # <<>>
BY DEF Step, GetPool, MakePool, BuildPool, RefusePool, Route, Accept, Enqueue, Notify, Unregister,
       PollLatched, PollTake, PollIdle, PollDiscard, PollExit, Wake, Done, AddIdle, AddIdleToAll,
       RemoveIdle, RemoveIdleFromAll, Start, Begin, StartMain, Shutdown, StopScheduler, HaltPool,
       AwaitDiscard, Finals, Join, Serves, Wants, At

\* A worker in its loop belongs to a pool that has begun.
LEMMA PollBegun ==
  ASSUME Types, Scripts, Starting, NEW th \in Threads, At(th, "poll")
  PROVE  Begun(PoolOf(th))
<1> DEFINE p == PoolOf(th)
<1>1. todo[th] # <<>> /\ Head(todo[th]) = <<"poll">> /\ p \in Pools /\ th \in Workers(p)
  BY AtPoll
<1>2. CASE p # "main"
  BY <1>1, <1>2 DEF Starting
<1>3. CASE p = "main"
  <2>1. th = "main"
    BY <1>1, <1>3, Cast
  <2>2. todo[th] \in Seq(Op) /\ Left(th) = {Head(todo[th])} \cup Range(Tail(todo[th]))
    BY <1>1, HeadOp
  <2>3. InOrder(todo[th], Lasting)
    BY DEF Scripts, Lasting
  <2>4. \A o \in Range(Tail(todo[th])) : Follows(Rank(o, Lasting), Rank(Head(todo[th]), Lasting))
    BY <1>1, <2>2, <2>3, Later
  <2>5. ASSUME NEW o \in Left(th) PROVE o[1] # "mainpool"
    BY <1>1, <2>2, <2>4 DEF Follows, Rank
  <2> QED BY <1>3, <2>1, <2>5 DEF Begun, Has
<1> QED BY <1>2, <1>3

LEMMA PollRight ==
  ASSUME Types, Scripts, Starting, Counting, NEW th \in Threads, At(th, "poll")
  PROVE  Right(idle, PoolOf(th)) /\ PoolOf(th) \in Pools /\ th \in Workers(PoolOf(th)) /\ Begun(PoolOf(th))
<1>1. PoolOf(th) \in Pools /\ th \in Workers(PoolOf(th)) /\ Begun(PoolOf(th))
  BY AtPoll, PollBegun
<1> QED BY <1>1 DEF Counting, Right, BusyIn, Busy

\* A thread that had nothing to do has been given a loop by its pool.
LEMMA Woken ==
  ASSUME Types, Scripts, Places, Starting, NEW th \in Threads, Step(th),
         NEW p \in Pools \ {"main"}, NEW w \in Workers(p), todo[w] = <<>>, todo'[w] # <<>>
  PROVE  Begun(p)'
<1>0. w \in Threads /\ PoolOf(w) = p
  BY PoolOfWorker
<1>1. w # th /\ Left(w) = {}
  BY Acting DEF Left, Range
<1>2. PICK o : o \in Left(w)'
  <2>1. todo'[w] \in Seq(Op)
    BY <1>0, TodoTyped
  <2>2. Head(todo'[w]) \in Range(todo'[w])
    BY <2>1, RangeSplit
  <2> QED BY <2>2 DEF Left
<1>3. o \notin Left(w)
  BY <1>1
<1>4. BuildPool(th) \/ Start(th) \/ StartMain(th)
  BY <1>0, <1>1, <1>2, <1>3, Brought
<1>5. CASE BuildPool(th)
  <2> DEFINE b == Head(todo[th])[2]
             now == IF scheduler.started THEN {b} ELSE {}
  <2>1. /\ Launched(th, NewWorkers(now)) /\ \A x \in NewWorkers(now) : x \in Workers(b)
        /\ b \in Pools
    BY <1>5, BuildPoolMoves
  <2>2. w \in NewWorkers(now)
    BY <1>0, <1>1, <2>1 DEF Launched
  <2>3. p = b /\ scheduler.started
    BY <1>0, <2>2 DEF NewWorkers
  <2> QED BY <1>5, <2>3, BegunStep
<1>6. CASE Start(th)
  <2> DEFINE now == {q \in Pools \ {"main"} : pool[q].made}
  <2>1. Launched(th, NewWorkers(now))
    BY <1>6, StartMoves
  <2>2. w \in NewWorkers(now)
    BY <1>0, <1>1, <2>1 DEF Launched
  <2>3. pool[p].made
    BY <1>0, <2>2 DEF NewWorkers
  <2> QED BY <1>6, <2>3, BegunStep
<1>7. CASE StartMain(th)
  BY <1>0, <1>1, <1>7, StartMainMoves
<1> QED BY <1>4, <1>5, <1>6, <1>7

LEMMA StartingStep ==
  ASSUME Types, Scripts, Places, Starting, Counting, NEW th \in Threads, Step(th)
  PROVE  Starting'
<1>1. scheduler'.started <=> ~Has("main", "start")'
  <2>1. /\ Has("main", "start")' => Has("main", "start")
        /\ Has("main", "start") => Has("main", "start")' \/ Start(th)
    BY OncePerSystem
  <2>2. Start(th) => ~Has("main", "start")' /\ scheduler'.started
    <3>1. Start(th) => /\ th = "main" /\ ~Has(th, "start")'
                       /\ scheduler' = [scheduler EXCEPT !.started = TRUE]
      BY StartMoves
    <3> QED BY <3>1 DEF Types, Has, Left
  <2>3. scheduler'.started = scheduler.started \/ Start(th)
    BY SchedulerTyped
  <2> QED BY <2>1, <2>2, <2>3 DEF Starting
<1>2. ASSUME NEW p \in Pools \ {"main"}, NEW w \in Workers(p), todo'[w] # <<>> PROVE Begun(p)'
  <2>1. CASE todo[w] # <<>>
    BY <2>1, BegunStep DEF Starting
  <2>2. CASE todo[w] = <<>>
    BY <1>2, <2>2, Woken
  <2> QED BY <2>1, <2>2
<1>3. ASSUME NEW p \in Pools, ~Begun(p)'
      PROVE  idle'.active[p] = 0 /\ \A w \in Workers(p) : ~idle'.thread[w]
  <2>1. ~Begun(p)
    BY <1>3, BegunStep
  <2>2. idle.active[p] = 0 /\ \A w \in Workers(p) : ~idle.thread[w]
    BY <2>1 DEF Starting
  <2>3. CASE PollLatched(th) \/ PollTake(th) \/ PollIdle(th)
    <3>1. At(th, "poll")
      BY <2>3 DEF PollLatched, PollTake, PollIdle, Serves
    <3>2. Right(idle, PoolOf(th)) /\ Begun(PoolOf(th)) /\ PoolOf(th) \in Pools
      BY <3>1, PollRight
    <3>3. SameElsewhere(idle, idle', PoolOf(th))
      BY <2>3, <3>2, PollCounts
    <3> QED BY <2>1, <2>2, <3>2, <3>3 DEF SameElsewhere
  <2>4. CASE MakePool(th) \/ Notify(th)
    BY <2>2, <2>4, PlainCounts
  <2>5. CASE BuildPool(th)
    <3>1. ~(p = Head(todo[th])[2] /\ scheduler.started)
      BY <1>3, <2>5, BegunStep
    <3> QED BY <2>2, <2>5, <3>1, PlainCounts
  <2>6. CASE Start(th)
    <3>1. ~(p # "main" /\ pool[p].made)
      BY <1>3, <2>6, BegunStep
    <3> QED BY <2>2, <2>6, <3>1, PlainCounts
  <2>7. CASE StartMain(th)
    <3>1. p # "main"
      BY <1>3, <2>7, BegunStep
    <3> QED BY <2>2, <2>7, <3>1, PlainCounts
  <2> QED BY <2>2, <2>3, <2>4, <2>5, <2>6, <2>7, Frame
<1>4. UNCHANGED scenario
  BY Frame
<1> QED BY <1>1, <1>2, <1>3, <1>4 DEF Starting, Workers

-----------------------------------------------------------------------------
(* The counting locks are exact.                                           *)

\* A step that leaves a pool's workers as they were leaves its count right.
LEMMA StillRight ==
  ASSUME NEW p, Right(idle, p), idle'.active[p] = idle.active[p],
         \A w \in Workers(p) : idle'.thread[w] = idle.thread[w]
  PROVE  Right(idle', p)
<1>1. BusyIn(idle', p) = BusyIn(idle, p)
  BY DEF BusyIn
<1> QED BY <1>1 DEF Right

\* When the workers of a pool are started, all of them are busy.
LEMMA AllBusy ==
  ASSUME Types, Starting, Counting, NEW p \in Pools, ~Begun(p), idle'.thread = idle.thread,
         idle'.active[p] = IF Counts(p) THEN Cardinality(Workers(p)) ELSE idle.active[p]
  PROVE  Right(idle', p)
<1>1. idle.active[p] = 0 /\ \A w \in Workers(p) : ~idle.thread[w]
  BY DEF Starting
<1>2. BusyIn(idle', p) = Workers(p)
  BY <1>1 DEF BusyIn
<1> QED BY <1>1, <1>2 DEF Right

LEMMA ActiveStep ==
  ASSUME Types, Scripts, Places, Starting, Counting, NEW th \in Threads, Step(th),
         NEW p \in Pools, Begun(p)' \/ ~Counts(p)
  PROVE  Right(idle', p)
<1>1. Begun(p) \/ ~Counts(p) => Right(idle, p)
  BY DEF Counting, Right, BusyIn, Busy
<1>2. CASE PollLatched(th) \/ PollTake(th) \/ PollIdle(th)
  <2>1. At(th, "poll")
    BY <1>2 DEF PollLatched, PollTake, PollIdle, Serves
  <2>2. Right(idle, PoolOf(th)) /\ PoolOf(th) \in Pools
    BY <2>1, PollRight
  <2>3. SameElsewhere(idle, idle', PoolOf(th)) /\ Right(idle', PoolOf(th))
    BY <1>2, <2>2, PollCounts
  <2>4. Begun(p) \/ ~Counts(p)
    <3>1. ~StartMain(th) /\ ~Start(th) /\ ~BuildPool(th)
      BY <2>1 DEF StartMain, Start, BuildPool, At
    <3> QED BY <3>1, BegunStep
  <2>5. CASE p # PoolOf(th)
    BY <1>1, <2>3, <2>4, <2>5, StillRight DEF SameElsewhere
  <2> QED BY <2>3, <2>5
<1>3. CASE MakePool(th) \/ Notify(th) \/ UNCHANGED idle
  <2>1. idle'.thread = idle.thread /\ idle'.active = idle.active
    BY <1>3, PlainCounts
  <2>2. CASE Begun(p) \/ ~Counts(p)
    BY <1>1, <2>1, <2>2, StillRight
  <2>3. CASE ~Begun(p) /\ Counts(p)
    <3>1. idle.active[p] = 0 /\ \A w \in Workers(p) : ~idle.thread[w]
      BY <2>3 DEF Starting
    <3>2. StartMain(th) \/ Start(th) \/ BuildPool(th)
      BY <2>3, BegunStep
    <3>3. ~MakePool(th) /\ ~Notify(th)
      BY <3>2 DEF StartMain, Start, BuildPool, MakePool, Notify, Wants, At
    <3>4. idle' = idle
      BY <1>3, <3>3
    <3>5. idle'.active[p] = IF Counts(p) THEN Cardinality(Workers(p)) ELSE idle.active[p]
      <4>1. CASE StartMain(th)
        BY <2>3, <4>1, BegunStep, PlainCounts
      <4>2. CASE Start(th)
        <5>1. p # "main" /\ pool[p].made
          BY <2>3, <4>2, BegunStep
        <5> QED BY <4>2, <5>1, PlainCounts
      <4>3. CASE BuildPool(th)
        <5>1. p = Head(todo[th])[2] /\ scheduler.started
          <6>1. ~StartMain(th) /\ ~Start(th)
            BY <4>3 DEF StartMain, Start, BuildPool, At
          <6> QED BY <2>3, <6>1, BegunStep
        <5> QED BY <2>3, <4>3, <5>1, PlainCounts
      <4> QED BY <3>2, <4>1, <4>2, <4>3
    <3> QED BY <2>1, <2>3, <3>5, AllBusy
  <2> QED BY <2>2, <2>3
<1>4. CASE BuildPool(th)
  <2> DEFINE b == Head(todo[th])[2]
  <2>1. /\ idle'.thread = idle.thread
        /\ idle'.active[p] = IF p = b /\ Counts(p) /\ scheduler.started
                             THEN Cardinality(Workers(p)) ELSE idle.active[p]
    BY <1>4, PlainCounts
  <2>2. p = b => ~Begun(p) /\ (Begun(p)' <=> scheduler.started)
    BY <1>4, BegunStep
  <2>3. p # b => (Begun(p) <=> Begun(p)')
    <3>1. ~StartMain(th) /\ ~Start(th)
      BY <1>4 DEF StartMain, Start, BuildPool, At
    <3> QED BY <3>1, BegunStep
  <2> HIDE DEF b
  <2>4. CASE p = b
    BY <2>1, <2>2, <2>4, AllBusy
  <2>5. CASE p # b
    BY <1>1, <2>1, <2>3, <2>5, StillRight
  <2> QED BY <2>4, <2>5
<1>5. CASE Start(th) \/ StartMain(th)
  <2> DEFINE m == (Start(th) /\ p # "main" /\ pool[p].made) \/ (StartMain(th) /\ p = "main")
  <2>0. ~(Start(th) /\ StartMain(th)) /\ ~BuildPool(th)
    BY <1>5 DEF Start, StartMain, BuildPool, At
  <2>1. /\ idle'.thread = idle.thread
        /\ idle'.active[p] = IF m /\ Counts(p) THEN Cardinality(Workers(p)) ELSE idle.active[p]
    BY <1>5, <2>0, PlainCounts
  <2>2. m => ~Begun(p)
    BY BegunStep
  <2>3. ~m => (Begun(p) <=> Begun(p)')
    BY <2>0, BegunStep
  <2> HIDE DEF m
  <2>4. CASE m
    BY <2>1, <2>2, <2>4, AllBusy
  <2>5. CASE ~m
    BY <1>1, <2>1, <2>3, <2>5, StillRight
  <2> QED BY <2>4, <2>5
<1> QED BY <1>2, <1>3, <1>4, <1>5, Frame

CountedPools == {p \in scenario.counts : CountedIn(p)}

LEMMA CountedFinite ==
  ASSUME Types
  PROVE  IsFiniteSet(CountedPools) /\ scenario.counts \subseteq Pools
<1>1. scenario.counts \subseteq Pools
  BY Cast
<1> QED BY <1>1, PowerPlantAssumption, FS_Subset DEF CountedPools

LEMMA CountedMoves ==
  ASSUME Types, Counting, NEW q \in Pools,
         \/ CountedPools' = CountedPools /\ idle'.active_pools = idle.active_pools
         \/ /\ q \notin CountedPools /\ CountedPools' = CountedPools \cup {q}
            /\ idle'.active_pools = idle.active_pools + 1
         \/ /\ q \in CountedPools /\ CountedPools' = CountedPools \ {q}
            /\ idle'.active_pools = idle.active_pools - 1
  PROVE  idle'.active_pools = Cardinality(CountedPools')
<1>1. idle.active_pools = Cardinality(CountedPools)
  BY DEF Counting, CountedPools
<1>2. IsFiniteSet(CountedPools)
  BY CountedFinite
<1>3. q \notin CountedPools => Cardinality(CountedPools \cup {q}) = Cardinality(CountedPools) + 1
  BY <1>2, FS_AddElement
<1>4. q \in CountedPools => Cardinality(CountedPools \ {q}) = Cardinality(CountedPools) - 1
  BY <1>2, FS_RemoveElement
<1> QED BY <1>1, <1>3, <1>4

\* One pool is counted in or out, or none.
LEMMA Toggled ==
  ASSUME Types, Places, Counting, UNCHANGED scenario, scheduler'.building = scheduler.building,
         \A p \in Pools : pool'[p].made = pool[p].made,
         NEW q \in Pools, \A p \in Pools \ {q} : idle'.pool[p] = idle.pool[p],
         \/ idle'.pool[q] = idle.pool[q] /\ idle'.active_pools = idle.active_pools
         \/ /\ ~idle.pool[q] /\ idle'.pool[q] /\ idle'.active_pools = idle.active_pools - 1
            /\ Counts(q) /\ pool[q].made
         \/ idle.pool[q] /\ ~idle'.pool[q] /\ idle'.active_pools = idle.active_pools + 1
  PROVE  /\ idle'.active_pools = Cardinality(CountedPools')
         /\ \A p \in Pools : idle'.pool[p] => pool'[p].made /\ Counts(p)
<1>1. idle.pool[q] => pool[q].made /\ Counts(q)
  BY DEF Counting
<1>2. pool[q].made => scheduler.building # q
  BY DEF Places
<1>3. scenario.counts \subseteq Pools
  BY CountedFinite
<1>4. \A p \in scenario.counts \ {q} : CountedIn(p)' <=> CountedIn(p)
  BY <1>3 DEF CountedIn
<1>5. CASE idle'.pool[q] = idle.pool[q] /\ idle'.active_pools = idle.active_pools
  <2>1. CountedIn(q)' <=> CountedIn(q)
    BY <1>5 DEF CountedIn
  <2>2. CountedPools' = CountedPools
    BY <1>4, <2>1 DEF CountedPools
  <2> QED BY <1>5, <2>2, CountedMoves DEF Counting
<1>6. CASE /\ ~idle.pool[q] /\ idle'.pool[q] /\ idle'.active_pools = idle.active_pools - 1
           /\ Counts(q) /\ pool[q].made
  <2>1. CountedIn(q) /\ ~CountedIn(q)'
    BY <1>2, <1>6 DEF CountedIn
  <2>2. q \in CountedPools /\ CountedPools' = CountedPools \ {q}
    BY <1>4, <1>6, <2>1 DEF CountedPools, Counts
  <2> QED BY <1>6, <2>2, CountedMoves DEF Counting
<1>7. CASE idle.pool[q] /\ ~idle'.pool[q] /\ idle'.active_pools = idle.active_pools + 1
  <2>1. ~CountedIn(q) /\ CountedIn(q)'
    BY <1>1, <1>2, <1>7 DEF CountedIn
  <2>2. q \notin CountedPools /\ CountedPools' = CountedPools \cup {q}
    BY <1>1, <1>4, <1>7, <2>1 DEF CountedPools, Counts
  <2> QED BY <1>7, <2>2, CountedMoves DEF Counting
<1> QED BY <1>5, <1>6, <1>7

LEMMA CountedStep ==
  ASSUME Types, Scripts, Places, Starting, Counting, NEW th \in Threads, Step(th)
  PROVE  /\ idle'.active_pools = Cardinality(CountedPools')
         /\ \A p \in Pools : idle'.pool[p] => pool'[p].made /\ Counts(p)
<1>0. scenario' = scenario /\ "main" \in Pools
  BY Frame, Cast
<1>1. ~BuildPool(th) => \A p \in Pools : pool'[p].made = pool[p].made
  BY PoolFrame
<1>2. ~MakePool(th) /\ ~BuildPool(th) => scheduler'.building = scheduler.building
  BY SchedulerTyped
<1>3. CASE PollLatched(th) \/ PollTake(th) \/ PollIdle(th)
  <2> DEFINE q == PoolOf(th)
  <2>1. At(th, "poll")
    BY <1>3 DEF PollLatched, PollTake, PollIdle, Serves
  <2>2. Right(idle, q) /\ q \in Pools /\ Begun(q)
    BY <2>1, PollRight
  <2>3. pool[q].made
    BY <2>2 DEF Begun, Places
  <2>4. ~MakePool(th) /\ ~BuildPool(th)
    BY <2>1 DEF MakePool, BuildPool, Wants, At
  <2>5. /\ SameElsewhere(idle, idle', q)
        /\ \/ idle'.pool[q] = idle.pool[q] /\ idle'.active_pools = idle.active_pools
           \/ /\ ~idle.pool[q] /\ idle'.pool[q] /\ idle'.active_pools = idle.active_pools - 1
              /\ Counts(q)
           \/ idle.pool[q] /\ ~idle'.pool[q] /\ idle'.active_pools = idle.active_pools + 1
    BY <1>3, <2>2, PollCounts
  <2> HIDE DEF q
  <2> QED BY <1>0, <1>1, <1>2, <2>2, <2>3, <2>4, <2>5, Toggled DEF SameElsewhere
<1>4. CASE Notify(th)
  <2> DEFINE q == Head(todo[th])[2]
  <2>1. /\ q \in Pools /\ \A p \in Pools \ {q} : idle'.pool[p] = idle.pool[p]
        /\ \/ idle'.pool[q] = idle.pool[q] /\ idle'.active_pools = idle.active_pools
           \/ idle.pool[q] /\ ~idle'.pool[q] /\ idle'.active_pools = idle.active_pools + 1
    BY <1>4, PlainCounts
  <2>2. ~MakePool(th) /\ ~BuildPool(th)
    BY <1>4 DEF MakePool, BuildPool, Notify, Wants, At
  <2> HIDE DEF q
  <2> QED BY <1>0, <1>1, <1>2, <2>1, <2>2, Toggled
<1>5. CASE MakePool(th)
  <2>0. PICK q \in Pools : q = Wanted(th)
    BY <1>5, MakePoolMoves
  <2>1. /\ q \in Pools /\ ~pool[q].made /\ scheduler.building = Nobody
        /\ scheduler' = [scheduler EXCEPT !.building = q]
    BY <1>5, <2>0, MakePoolMoves DEF MakePool
  <2>2. scheduler'.building = q
    BY <2>1 DEF Types
  <2>3. /\ idle'.pool = idle.pool
        /\ idle'.active_pools = IF Counts(q) THEN idle.active_pools + 1 ELSE idle.active_pools
    BY <1>5, <2>0, PlainCounts
  <2>4. ~BuildPool(th) /\ Nobody \notin Pools
    BY <1>5, Cast DEF MakePool, BuildPool, Wants, At
  <2>5. \A p \in Pools \ {q} : CountedIn(p)' <=> CountedIn(p)
    BY <1>1, <2>1, <2>2, <2>3, <2>4 DEF CountedIn
  <2>6. ~CountedIn(q) /\ CountedIn(q)'
    BY <2>1, <2>2, <2>4 DEF CountedIn
  <2>7. CountedPools' = IF Counts(q) THEN CountedPools \cup {q} ELSE CountedPools
    BY <1>0, <2>1, <2>5, <2>6, CountedFinite DEF CountedPools, Counts
  <2>8. q \notin CountedPools
    BY <2>6 DEF CountedPools
  <2>9. idle'.active_pools = Cardinality(CountedPools')
    BY <2>1, <2>3, <2>7, <2>8, CountedMoves
  <2> QED BY <1>1, <2>3, <2>4, <2>9 DEF Counting
<1>6. CASE BuildPool(th)
  <2>0. PICK b \in Pools : b = Head(todo[th])[2]
    BY <1>6, BuildPoolMoves
  <2>1. /\ b \in Pools /\ ~pool[b].made /\ scheduler.building = b
        /\ scheduler' = [scheduler EXCEPT !.building = Nobody]
    BY <1>6, <2>0, BuildPoolMoves
  <2>2. scheduler'.building = Nobody /\ Nobody \notin Pools
    BY <2>1, Cast DEF Types
  <2>3. /\ \A p \in Pools : idle'.pool[p] = ((p = b /\ Counts(b)) \/ idle.pool[p])
        /\ idle'.active_pools = IF Counts(b) THEN idle.active_pools - 1 ELSE idle.active_pools
    BY <1>6, <2>0, PlainCounts
  <2>4. pool'[b].made /\ \A p \in Pools \ {b} : pool'[p] = pool[p]
    BY <1>6, <2>0, BuildPoolPool
  <2>5. idle \in IdleRec
    BY DEF Types, IdleRec
  <2>6. \A p \in Pools \ {b} : idle'.pool[p] = idle.pool[p]
    BY <2>3, <2>5 DEF IdleRec
  <2>7. \A p \in Pools \ {b} : CountedIn(p)' <=> CountedIn(p)
    BY <2>1, <2>2, <2>4, <2>6 DEF CountedIn
  <2>8. CountedIn(b) /\ (Counts(b) => ~CountedIn(b)')
    BY <2>1, <2>2, <2>3 DEF CountedIn
  <2>9. CountedPools' = IF Counts(b) THEN CountedPools \ {b} ELSE CountedPools
    BY <1>0, <2>1, <2>7, <2>8, CountedFinite DEF CountedPools, Counts
  <2>10. Counts(b) => b \in CountedPools
    BY <2>8 DEF CountedPools, Counts
  <2>11. idle'.active_pools = Cardinality(CountedPools')
    BY <2>1, <2>3, <2>9, <2>10, CountedMoves
  <2>12. \A p \in Pools : idle'.pool[p] => pool'[p].made /\ Counts(p)
    BY <2>3, <2>4, <2>6 DEF Counting
  <2> QED BY <2>11, <2>12
<1>7. CASE (Start(th) \/ StartMain(th) \/ UNCHANGED idle) /\ ~MakePool(th) /\ ~BuildPool(th)
  <2>1. idle'.pool = idle.pool /\ idle'.active_pools = idle.active_pools
    BY <1>7, PlainCounts
  <2> QED BY <1>0, <1>1, <1>2, <1>7, <2>1, Toggled
<1> QED BY <1>3, <1>4, <1>5, <1>6, <1>7, Frame

LEMMA CountingStep ==
  ASSUME Types, Scripts, Places, Starting, Counting, NEW th \in Threads, Step(th)
  PROVE  Counting'
<1>1. scenario' = scenario
  BY Frame
<1>2. /\ idle'.active_pools = Cardinality(CountedPools')
      /\ \A p \in Pools : idle'.pool[p] => pool'[p].made /\ Counts(p)
  BY CountedStep
<1>3. ASSUME NEW p \in Pools
      PROVE  (IF Counts(p) THEN Begun(p) => idle.active[p] = Cardinality(Busy(p))
              ELSE idle.active[p] = 0 /\ \A w \in Workers(p) : ~idle.thread[w])'
  <2>1. Begun(p)' \/ ~Counts(p) => Right(idle', p)
    BY ActiveStep
  <2>2. BusyIn(idle', p) = Busy(p)'
    BY <1>1 DEF BusyIn, Busy, Workers
  <2> QED BY <1>1, <2>1, <2>2 DEF Right, Counts, Workers
<1> QED BY <1>1, <1>2, <1>3 DEF Counting, CountedPools, Counts

-----------------------------------------------------------------------------
(* Idle is idle.                                                           *)

\* Who changes what the counting locks say of a thread, or counts a pool out.
LEMMA CountedOut ==
  ASSUME Types, Scripts, Places, Starting, Counting, NEW th \in Threads, Step(th)
  PROVE  /\ \A w \in Threads : idle'.thread[w] = idle.thread[w] \/ (w = th /\ At(th, "poll"))
         /\ \A p \in Pools : idle'.pool[p] =>
              \/ idle.pool[p]
              \/ PollIdle(th) /\ p = PoolOf(th) /\ Counts(p) /\ idle'.active[p] = 0 /\ Right(idle', p)
              \/ BuildPool(th) /\ p = Head(todo[th])[2] /\ ~pool[p].made
<1>1. CASE PollLatched(th) \/ PollTake(th) \/ PollIdle(th)
  <2> DEFINE q == PoolOf(th)
  <2>1. At(th, "poll")
    BY <1>1 DEF PollLatched, PollTake, PollIdle, Serves
  <2>2. Right(idle, q) /\ q \in Pools
    BY <2>1, PollRight
  <2>3. /\ SameElsewhere(idle, idle', q) /\ Right(idle', q)
        /\ \A w \in Threads \ {th} : idle'.thread[w] = idle.thread[w]
        /\ \/ idle'.pool[q] = idle.pool[q]
           \/ Counts(q) /\ PollIdle(th) /\ idle'.active[q] = 0
           \/ ~idle'.pool[q]
    BY <1>1, <2>2, PollCounts
  <2> HIDE DEF q
  <2>4. ASSUME NEW p \in Pools, idle'.pool[p], ~idle.pool[p]
        PROVE  PollIdle(th) /\ p = q /\ Counts(p) /\ idle'.active[p] = 0 /\ Right(idle', p)
    <3>1. p = q
      BY <2>3, <2>4 DEF SameElsewhere
    <3> QED BY <2>3, <2>4, <3>1
  <2> QED BY <2>1, <2>3, <2>4 DEF q
<1>2. CASE Notify(th)
  <2> DEFINE q == Head(todo[th])[2]
  <2>1. /\ q \in Pools /\ \A p \in Pools \ {q} : idle'.pool[p] = idle.pool[p]
        /\ idle'.pool[q] = idle.pool[q] \/ ~idle'.pool[q]
        /\ idle'.thread = idle.thread
    BY <1>2, PlainCounts
  <2> HIDE DEF q
  <2> QED BY <2>1
<1>3. CASE MakePool(th) \/ Start(th) \/ StartMain(th) \/ UNCHANGED idle
  BY <1>3, PlainCounts
<1>4. CASE BuildPool(th)
  <2>1. ~pool[Head(todo[th])[2]].made
    BY <1>4, BuildPoolMoves
  <2>2. /\ idle'.thread = idle.thread
        /\ \A p \in Pools : idle'.pool[p] =>
             (p = Head(todo[th])[2] /\ Counts(Head(todo[th])[2])) \/ idle.pool[p]
    BY <1>4, PlainCounts
  <2> QED BY <1>4, <2>1, <2>2
<1> QED BY <1>1, <1>2, <1>3, <1>4, Frame

\* Nothing but the ends of a script comes after the loop.
LEMMA AfterPoll ==
  ASSUME Types, Scripts, NEW th \in Threads, At(th, "poll"), NEW o \in Left(th)
  PROVE  o = <<"poll">> \/ RankOf(o) > 6
<1>1. todo[th] # <<>> /\ Head(todo[th]) = <<"poll">>
  BY AtPoll
<1>2. todo[th] \in Seq(Op) /\ Left(th) = {Head(todo[th])} \cup Range(Tail(todo[th])) /\ Left(th) \subseteq Op
  <2>1. todo[th] \in Seq(Op)
    BY DEF Types
  <2> QED BY <1>1, <2>1, HeadOp, RangeJoin DEF Left
<1>3. InOrder(todo[th], Lasting)
  BY DEF Scripts, Lasting
<1>4. \A a \in Range(Tail(todo[th])) : Follows(Rank(a, Lasting), Rank(Head(todo[th]), Lasting))
  BY <1>1, <1>2, <1>3, Later
<1>5. Rank(<<"poll">>, Lasting) = 6
  BY DEF Rank, Closing
<1>6. RankOf(o) \in Int
  BY DEF RankOf, Rank
<1> QED BY <1>1, <1>2, <1>4, <1>5, <1>6 DEF Follows, RankOf

LEMMA RunnersAreBusy ==
  ASSUME Types, Scripts, Places, Starting, Counting, Working, NEW th \in Threads, Step(th),
         NEW p \in scenario.counts, NEW w \in Workers(p), Has(w, "done")'
  PROVE  ~idle'.thread[w] /\ ~idle'.pool[p]
<1>0. p \in Pools /\ w \in Threads /\ PoolOf(w) = p
  BY Cast, PoolOfWorker
<1>1. PICK o : o \in Left(w)' /\ o[1] = "done"
  BY DEF Has
<1>2. CASE o \notin Left(w)
  <2>1. PollTake(th) /\ w = th
    BY <1>0, <1>1, <1>2, Brought
  <2>2. At(th, "poll")
    BY <2>1 DEF PollTake, Serves
  <2>3. Right(idle, PoolOf(th))
    BY <2>2, PollRight
  <2> QED BY <1>0, <2>1, <2>3, PollCounts
<1>3. CASE o \in Left(w)
  <2>1. ~idle.thread[w] /\ ~idle.pool[p]
    BY <1>1, <1>3 DEF Working, Has
  <2>2. ~idle'.thread[w]
    <3>1. ASSUME w = th, At(th, "poll") PROVE FALSE
      BY <1>1, <1>3, <3>1, AfterPoll DEF RankOf, Rank
    <3> QED BY <1>0, <2>1, <3>1, CountedOut
  <2>3. ASSUME idle'.pool[p] PROVE FALSE
    <3>1. CASE idle'.active[p] = 0 /\ Counts(p) /\ Right(idle', p)
      <4>1. Cardinality(BusyIn(idle', p)) = 0
        BY <3>1 DEF Right
      <4>2. BusyIn(idle', p) \subseteq Workers(p)
        BY DEF BusyIn
      <4>3. IsFiniteSet(BusyIn(idle', p))
        BY <1>0, <4>2, WorkersFinite
      <4>4. BusyIn(idle', p) = {}
        BY <4>1, <4>3, FS_EmptySet
      <4> QED BY <2>2, <4>4 DEF BusyIn
    <3>2. CASE BuildPool(th) /\ p = Head(todo[th])[2]
      <4>1. p # "main" /\ ~Begun(p)
        BY <1>0, <3>2, BegunStep, BuildPoolMoves
      <4>2. todo[w] # <<>>
        BY <1>3 DEF Left, Range
      <4> QED BY <1>0, <4>1, <4>2 DEF Starting
    <3> QED BY <1>0, <2>1, <2>3, <3>1, <3>2, CountedOut
  <2> QED BY <2>2, <2>3
<1> QED BY <1>2, <1>3

LEMMA OwedWaits ==
  ASSUME Types, Scripts, Places, Starting, Counting, Working, NEW th \in Threads, Step(th), NEW t \in owed'
  PROVE  t \in Range(pool'[Home(t)].queue) /\ pool'[Home(t)].live /\ ~idle'.pool[Home(t)]
<1>0. owed \subseteq Tasks
  BY DEF Types
<1>1. CASE t \in owed
  <2>1. /\ t \in Tasks /\ Home(t) \in Pools /\ t \in Range(pool[Home(t)].queue)
        /\ pool[Home(t)].live /\ ~idle.pool[Home(t)] /\ pool[Home(t)].queue # <<>>
    BY <1>0, <1>1, Cast DEF Working, Range
  <2>2. ~(PollIdle(th) /\ PoolOf(th) = Home(t))
    BY <2>1 DEF PollIdle, Take
  <2>3. ~idle'.pool[Home(t)]
    <3>1. pool[Home(t)].made
      BY <2>1 DEF Places
    <3> QED BY <2>1, <2>2, <3>1, CountedOut
  <2>4. pool'[Home(t)].live
    <3>1. CASE SameLive
      BY <2>1, <3>1 DEF SameLive
    <3>2. CASE Notify(th)
      BY <2>1, <3>2, NotifyPool
    <3>3. CASE PollIdle(th)
      BY <2>1, <2>2, <3>3, PollIdlePool
    <3>4. CASE HaltPool(th)
      BY <2>1, <3>4, HaltPoolPool
    <3> QED BY <3>1, <3>2, <3>3, <3>4, PoolFrame
  <2>5. t \in Range(pool'[Home(t)].queue)
    <3>1. CASE SameQueues
      BY <2>1, <3>1 DEF SameQueues
    <3>2. CASE Enqueue(th)
      BY <2>1, <3>2, EnqueuePool
    <3>3. CASE PollTake(th)
      <4>1. t # Head(pool[PoolOf(th)].queue)
        BY <3>3 DEF PollTake
      <4> QED BY <2>1, <3>3, <4>1, PollTakePool
    <3>4. CASE PollDiscard(th)
      <4>1. t \notin Range(pool[PoolOf(th)].queue)
        BY <3>4 DEF PollDiscard
      <4> QED BY <2>1, <3>4, <4>1, PollDiscardPool
    <3>5. CASE HaltPool(th)
      <4> DEFINE p == Head(todo[th])[2]
                 drops == Head(todo[th])[3] = "FORCE" /\ ~ConsumerAlive(p, th)
      <4>1. /\ p \in Pools /\ \A q \in Pools \ {p} : pool'[q] = pool[q]
            /\ pool'[p].queue = IF drops THEN <<>> ELSE pool[p].queue
        BY <3>5, HaltPoolPool
      <4>2. drops => t \notin Range(pool[p].queue)
        BY <3>5 DEF HaltPool, Arg
      <4> HIDE DEF p, drops
      <4> QED BY <2>1, <4>1, <4>2
    <3> QED BY <3>1, <3>2, <3>3, <3>4, <3>5, PoolFrame
  <2> QED BY <2>3, <2>4, <2>5
<1>2. CASE t \notin owed
  <2> DEFINE p == Head(todo[th])[2]
  <2>1. Notify(th)
    BY <1>2, Frame DEF PollTake, PollDiscard, HaltPool
  <2>2. Head(todo[th])[3] /\ t \in Range(pool[p].queue)
    BY <1>2, <2>1 DEF Notify, Arg
  <2>3. /\ p \in Pools /\ pool'[p].queue = pool[p].queue /\ pool'[p].live
    BY <2>1, NotifyPool DEF SameQueues
  <2>4. ~idle'.pool[p]
    BY <2>1, <2>2, PlainCounts
  <2>5. Home(t) = p
    BY <2>2, <2>3 DEF Places
  <2> QED BY <2>2, <2>3, <2>4, <2>5
<1> QED BY <1>1, <1>2

LEMMA WorkingStep ==
  ASSUME Types, Scripts, Places, Starting, Counting, Working, NEW th \in Threads, Step(th)
  PROVE  Working'
<1>1. scenario' = scenario
  BY Frame
<1> QED BY <1>1, RunnersAreBusy, OwedWaits DEF Working, Workers, Home

\* When no pool is counted in, nothing is going on.
LEMMA WorkingIdle ==
  ASSUME Types, Scripts, Places, Starting, Counting, Working
  PROVE  IdleIsIdle
<1> SUFFICES ASSUME idle.active_pools = 0, NEW p \in scenario.counts
             PROVE  /\ \A w \in Workers(p), t \in Tasks : ~Runs(w, t)
                    /\ \A t \in owed : Home(t) # p
  BY DEF IdleIsIdle
<1>1. p \in Pools /\ IsFiniteSet(CountedPools) /\ Cardinality(CountedPools) = 0
  BY CountedFinite DEF Counting, CountedPools
<1>2. CountedPools = {}
  BY <1>1, FS_EmptySet
<1>3. ~pool[p].made \/ idle.pool[p]
  BY <1>2 DEF CountedPools, CountedIn
<1>4. ASSUME NEW w \in Workers(p), NEW t \in Tasks, Runs(w, t) PROVE FALSE
  <2>1. Has(w, "done") /\ todo[w] # <<>>
    BY <1>4 DEF Runs, Has, Left, Range
  <2>2. ~idle.pool[p]
    BY <2>1 DEF Working
  <2>3. pool[p].made
    BY <1>1, <2>1 DEF Starting, Begun, Places
  <2> QED BY <1>3, <2>2, <2>3
<1>5. ASSUME NEW t \in owed, Home(t) = p PROVE FALSE
  BY <1>1, <1>3, <1>5 DEF Working, Places
<1> QED BY <1>4, <1>5

-----------------------------------------------------------------------------
(* The external waiters are those that wait.                               *)

\* The places of a sequence whose elements are in a set.
Places_(s, H) == {i \in DOMAIN s : s[i] \in H}

LEMMA PlacesFinite ==
  ASSUME NEW S, NEW s \in Seq(S), NEW H
  PROVE  IsFiniteSet(Places_(s, H)) /\ Cardinality(Places_(s, H)) \in Nat
<1>1. DOMAIN s = 1 .. Len(s) /\ Len(s) \in Nat
  OBVIOUS
<1>2. IsFiniteSet(1 .. Len(s))
  BY <1>1, FS_Interval
<1>3. Places_(s, H) \subseteq 1 .. Len(s)
  BY <1>1 DEF Places_
<1> QED BY <1>2, <1>3, FS_Subset, FS_CardinalityType

LEMMA PlacesAppend ==
  ASSUME NEW S, NEW s \in Seq(S), NEW e \in S, NEW H
  PROVE  Cardinality(Places_(Append(s, e), H)) = Cardinality(Places_(s, H)) + (IF e \in H THEN 1 ELSE 0)
<1> DEFINE n == Len(s) + 1
           a == Append(s, e)
<1>1. /\ DOMAIN s = 1 .. Len(s) /\ Len(s) \in Nat /\ DOMAIN a = 1 .. n /\ a[n] = e
      /\ \A i \in 1 .. Len(s) : a[i] = s[i]
  OBVIOUS
<1>2. n \notin DOMAIN s /\ DOMAIN a = DOMAIN s \cup {n}
  BY <1>1
<1> HIDE DEF n, a
<1>3. Places_(a, H) = IF e \in H THEN Places_(s, H) \cup {n} ELSE Places_(s, H)
  <2>1. \A i \in DOMAIN s : a[i] = s[i]
    BY <1>1
  <2>2. CASE e \in H
    BY <1>1, <1>2, <2>1, <2>2 DEF Places_
  <2>3. CASE e \notin H
    BY <1>1, <1>2, <2>1, <2>3 DEF Places_
  <2> QED BY <2>2, <2>3
<1>4. n \notin Places_(s, H)
  BY <1>2 DEF Places_
<1>5. IsFiniteSet(Places_(s, H)) /\ Cardinality(Places_(s, H)) \in Nat
  BY PlacesFinite
<1>6. Cardinality(Places_(s, H) \cup {n}) = Cardinality(Places_(s, H)) + 1
  BY <1>4, <1>5, FS_AddElement
<1>7. Cardinality(Places_(a, H)) = Cardinality(Places_(s, H)) + (IF e \in H THEN 1 ELSE 0)
  BY <1>3, <1>5, <1>6
<1> QED BY <1>7 DEF a

LEMMA PlacesTail ==
  ASSUME NEW S, NEW s \in Seq(S), s # <<>>, NEW H
  PROVE  Cardinality(Places_(Tail(s), H)) = Cardinality(Places_(s, H)) - (IF Head(s) \in H THEN 1 ELSE 0)
<1> DEFINE t == Tail(s)
           A == Places_(s, H)
           B == Places_(t, H)
           f == [i \in B |-> i + 1]
<1>1. /\ DOMAIN s = 1 .. Len(s) /\ Len(s) \in Nat \ {0} /\ DOMAIN t = 1 .. (Len(s) - 1)
      /\ \A i \in 1 .. (Len(s) - 1) : t[i] = s[i + 1]
      /\ Head(s) = s[1] /\ t \in Seq(S)
  OBVIOUS
<1> HIDE DEF t
<1>2. \A i \in B : i \in Int /\ i + 1 \in A \ {1}
  BY <1>1 DEF Places_
<1>3. \A k \in A \ {1} : k - 1 \in B /\ (k - 1) + 1 = k
  BY <1>1 DEF Places_
<1>4. IsFiniteSet(A) /\ Cardinality(A) \in Nat /\ IsFiniteSet(B)
  BY <1>1, PlacesFinite
<1> HIDE DEF A, B
<1>5. f \in Bijection(B, A \ {1})
  <2>1. f \in [B -> A \ {1}]
    BY <1>2
  <2>2. \A i, j \in B : f[i] = f[j] => i = j
    BY <1>2
  <2>3. \A k \in A \ {1} : \E i \in B : f[i] = k
    <3>1. ASSUME NEW k \in A \ {1} PROVE \E i \in B : f[i] = k
      <4>1. k - 1 \in B /\ f[k - 1] = k
        BY <1>3
      <4> QED BY <4>1
    <3> QED BY <3>1
  <2> HIDE DEF f
  <2> QED BY <2>1, <2>2, <2>3 DEF Bijection, Injection, Surjection, IsInjective
<1>6. Cardinality(A \ {1}) = Cardinality(B)
  BY <1>4, <1>5, FS_Bijection DEF ExistsBijection
<1>7. 1 \in A <=> Head(s) \in H
  BY <1>1 DEF A, Places_
<1>8. CASE Head(s) \in H
  <2>1. Cardinality(A \ {1}) = Cardinality(A) - 1
    BY <1>4, <1>7, <1>8, FS_RemoveElement
  <2> QED BY <1>6, <1>8, <2>1 DEF A, B, t
<1>9. CASE Head(s) \notin H
  <2>1. A \ {1} = A
    BY <1>7, <1>9
  <2>2. Cardinality(B) = Cardinality(A)
    BY <1>6, <2>1
  <2>3. Cardinality(B) = Cardinality(A) - (IF Head(s) \in H THEN 1 ELSE 0)
    BY <1>4, <1>9, <2>2
  <2> QED BY <2>3 DEF A, B, t
<1> QED BY <1>8, <1>9

Waiters(p) == {e \in Tasks \X BOOLEAN : Home(e[1]) = p}

LEMMA ParkedPlaces ==
  ASSUME Types, NEW p \in Pools
  PROVE  /\ Parked(p) = Places_(group.waiting, Waiters(p))
         /\ HandingTo(p) = {x \in Threads : <<"unregister", p>> \in Left(x)}
         /\ IsFiniteSet(HandingTo(p)) /\ Cardinality(HandingTo(p)) \in Nat
         /\ Cardinality(Parked(p)) \in Nat
<1>1. group.waiting \in Seq(Tasks \X BOOLEAN)
  BY DEF Types
<1>2. Parked(p) = Places_(group.waiting, Waiters(p))
  <2>1. \A i \in DOMAIN group.waiting : group.waiting[i] \in Tasks \X BOOLEAN
    BY <1>1
  <2> QED BY <2>1 DEF Parked, Places_, Waiters
<1>3. HandingTo(p) = {x \in Threads : <<"unregister", p>> \in Left(x)}
  BY DEF HandingTo, Left, Range
<1>4. HandingTo(p) \subseteq Threads
  BY DEF HandingTo
<1>5. IsFiniteSet(HandingTo(p))
  BY <1>4, PowerPlantAssumption, FS_Subset
<1> QED BY <1>1, <1>2, <1>3, <1>5, PlacesFinite, FS_CardinalityType

\* Who is about to count a waiter out.
LEMMA HandingStep ==
  ASSUME Types, Scripts, Places, Starting, NEW th \in Threads, Step(th), NEW p \in Pools
  PROVE  LET u == <<"unregister", p>>
             hands == HandsOver(th) /\ Home(Head(group.waiting)[1]) = p
             ends == Unregister(th) /\ Head(todo[th])[2] = p
         IN /\ \A x \in Threads \ {th} : u \in Left(x)' <=> u \in Left(x)
            /\ hands => u \notin Left(th) /\ u \in Left(th)'
            /\ ends => u \in Left(th) /\ u \notin Left(th)'
            /\ ~hands /\ ~ends => (u \in Left(th)' <=> u \in Left(th))
            /\ ~(hands /\ ends)
<1> DEFINE u == <<"unregister", p>>
           hands == HandsOver(th) /\ Home(Head(group.waiting)[1]) = p
           ends == Unregister(th) /\ Head(todo[th])[2] = p
<1>0. todo[th] # <<>> /\ u[1] = "unregister" /\ u[1] # "poll" /\ u[2] = p
  BY Acting
<1>1. ASSUME NEW x \in Threads, u \in Left(x)', u \notin Left(x) PROVE x = th /\ hands
  <2>1. x = th /\ HandsOver(th) /\ u = <<"unregister", Home(Head(group.waiting)[1])>>
    BY <1>0, <1>1, Brought
  <2> QED BY <2>1
<1>2. ASSUME NEW x \in Threads, u \in Left(x), u \notin Left(x)' PROVE x = th /\ ends
  <2>1. x = th /\ u = Head(todo[th])
    BY <1>2, Departs
  <2>2. Unregister(th)
    BY <1>0, <2>1, Acts
  <2> QED BY <1>0, <2>1, <2>2
<1>3. ASSUME Unregister(th) \/ HandsOver(th), u \in Range(Tail(todo[th])) PROVE FALSE
  <2>1. Head(todo[th])[1] \in {"unregister", "accept", "done"}
    BY <1>3, Heads DEF HandsOver
  <2> QED BY <1>0, <1>3, <2>1, Rest1
<1>4. Left(th) = {Head(todo[th])} \cup Range(Tail(todo[th])) /\ Head(todo[th]) \in Op
  BY <1>0, HeadOp
<1>5. ASSUME hands PROVE u \notin Left(th) /\ u \in Left(th)'
  <2>1. Head(todo[th])[1] \in {"accept", "done"} /\ group.waiting # <<>>
    BY <1>5, Heads DEF HandsOver
  <2>2. u \notin Left(th)
    BY <1>0, <1>3, <1>4, <1>5, <2>1
  <2>3. u \in HandedSet
    BY <1>5, <2>1 DEF HandedSet
  <2>4. Moved(th, HandedSet, FALSE)
    BY <1>5, GroupStep
  <2>5. Left(th)' = HandedSet \cup After(th, FALSE)
    BY <2>4, OrdinaryLeft
  <2> QED BY <2>2, <2>3, <2>5
<1>6. ASSUME ends PROVE u \in Left(th) /\ u \notin Left(th)'
  <2>1. Head(todo[th])[1] = "unregister" /\ Moved(th, {}, FALSE)
    BY <1>6, UnregisterMoves
  <2>2. Head(todo[th]) = u
    BY <1>4, <1>6, <2>1, Arguments
  <2>3. Left(th)' = {} \cup After(th, FALSE)
    BY <2>1, OrdinaryLeft
  <2> QED BY <1>3, <1>4, <1>6, <2>2, <2>3 DEF After
<1>7. ~(hands /\ ends)
  BY Heads DEF HandsOver
<1> HIDE DEF u, hands, ends
<1>8. /\ \A x \in Threads \ {th} : u \in Left(x)' <=> u \in Left(x)
      /\ ~hands /\ ~ends => (u \in Left(th)' <=> u \in Left(th))
  BY <1>1, <1>2
<1> QED BY <1>5, <1>6, <1>7, <1>8 DEF u, hands, ends

LEMMA ParkedAfter ==
  ASSUME Types, Scripts, Places, Starting, NEW th \in Threads, Step(th), NEW p \in Pools
  PROVE  /\ Parked(p)' = Places_(group'.waiting, Waiters(p))
         /\ HandingTo(p)' = {x \in Threads : <<"unregister", p>> \in Left(x)'}
<1>1. scenario' = scenario /\ group'.waiting \in Seq(Tasks \X BOOLEAN)
  BY Frame, GroupStep
<1>2. Parked(p)' = Places_(group'.waiting, Waiters(p))
  <2>1. \A i \in DOMAIN group'.waiting : group'.waiting[i] \in Tasks \X BOOLEAN
    BY <1>1
  <2> QED BY <1>1, <2>1 DEF Parked, Places_, Waiters, Home
<1> QED BY <1>2 DEF HandingTo, Left, Range

LEMMA HandingCount ==
  ASSUME Types, Scripts, Places, Starting, NEW th \in Threads, Step(th), NEW p \in Pools
  PROVE  LET hands == HandsOver(th) /\ Home(Head(group.waiting)[1]) = p
             ends == Unregister(th) /\ Head(todo[th])[2] = p
         IN Cardinality(HandingTo(p)') = IF hands THEN Cardinality(HandingTo(p)) + 1
                                         ELSE IF ends THEN Cardinality(HandingTo(p)) - 1
                                         ELSE Cardinality(HandingTo(p))
<1> DEFINE u == <<"unregister", p>>
           hands == HandsOver(th) /\ Home(Head(group.waiting)[1]) = p
           ends == Unregister(th) /\ Head(todo[th])[2] = p
<1>1. /\ HandingTo(p) = {x \in Threads : u \in Left(x)} /\ IsFiniteSet(HandingTo(p))
      /\ HandingTo(p)' = {x \in Threads : u \in Left(x)'}
  BY ParkedPlaces, ParkedAfter
<1>2. /\ \A x \in Threads \ {th} : u \in Left(x)' <=> u \in Left(x)
      /\ hands => u \notin Left(th) /\ u \in Left(th)'
      /\ ends => u \in Left(th) /\ u \notin Left(th)'
      /\ ~hands /\ ~ends => (u \in Left(th)' <=> u \in Left(th))
      /\ ~(hands /\ ends)
  BY HandingStep
<1> HIDE DEF u, hands, ends
<1>3. CASE hands
  <2>1. th \notin HandingTo(p) /\ HandingTo(p)' = HandingTo(p) \cup {th}
    BY <1>1, <1>2, <1>3
  <2> QED BY <1>1, <1>3, <2>1, FS_AddElement DEF hands
<1>4. CASE ends
  <2>1. th \in HandingTo(p) /\ HandingTo(p)' = HandingTo(p) \ {th}
    BY <1>1, <1>2, <1>4
  <2> QED BY <1>1, <1>2, <1>4, <2>1, FS_RemoveElement DEF hands, ends
<1>5. CASE ~hands /\ ~ends
  <2>1. HandingTo(p)' = HandingTo(p)
    BY <1>1, <1>2, <1>5
  <2> QED BY <1>5, <2>1 DEF hands, ends
<1> QED BY <1>3, <1>4, <1>5

LEMMA ParkedCount ==
  ASSUME Types, Scripts, Places, Starting, NEW th \in Threads, Step(th), NEW p \in Pools
  PROVE  LET hands == HandsOver(th) /\ Home(Head(group.waiting)[1]) = p
             parks == Parks(th) /\ Home(Head(todo[th])[2]) = p
         IN Cardinality(Parked(p)') = IF hands THEN Cardinality(Parked(p)) - 1
                                      ELSE IF parks THEN Cardinality(Parked(p)) + 1
                                      ELSE Cardinality(Parked(p))
<1> DEFINE w == group.waiting
           H == Waiters(p)
           hands == HandsOver(th) /\ Home(Head(group.waiting)[1]) = p
           parks == Parks(th) /\ Home(Head(todo[th])[2]) = p
<1>1. /\ Parked(p) = Places_(w, H) /\ Parked(p)' = Places_(group'.waiting, H)
      /\ Cardinality(Places_(w, H)) \in Nat
  BY ParkedPlaces, ParkedAfter
<1>2. w \in Seq(Tasks \X BOOLEAN)
  BY DEF Types
<1>3. ~(HandsOver(th) /\ Parks(th))
  BY Heads DEF HandsOver, Parks
<1>4. CASE HandsOver(th)
  <2>1. w # <<>> /\ group'.waiting = Tail(w)
    BY <1>4, GroupStep DEF HandsOver
  <2>2. Head(w) \in Tasks \X BOOLEAN
    BY <1>2, <2>1
  <2>3. Head(w) \in H <=> hands
    BY <1>4, <2>2 DEF Waiters
  <2> HIDE DEF H
  <2>4. Cardinality(Places_(Tail(w), H)) = Cardinality(Places_(w, H)) - (IF Head(w) \in H THEN 1 ELSE 0)
    BY <1>2, <2>1, PlacesTail
  <2>5. ~parks
    BY <1>3, <1>4
  <2> HIDE DEF w, hands, parks
  <2>6. Cardinality(Parked(p)') = IF hands THEN Cardinality(Parked(p)) - 1
                                  ELSE IF parks THEN Cardinality(Parked(p)) + 1
                                  ELSE Cardinality(Parked(p))
    BY <1>1, <2>1, <2>3, <2>4, <2>5
  <2> QED BY <2>6 DEF hands, parks
<1>5. CASE Parks(th)
  <2> DEFINE e == <<Head(todo[th])[2], ~CurrentIdle(th)>>
  <2>1. group'.waiting = Append(w, e)
    BY <1>5, GroupStep
  <2>2. Head(todo[th])[2] \in Tasks
    <3>1. Head(todo[th]) \in Op /\ Head(todo[th])[1] = "route"
      BY <1>5, RouteMoves DEF Parks
    <3> QED BY <3>1, Arguments
  <2>3. e \in Tasks \X BOOLEAN
    BY <2>2 DEF CurrentIdle, Types
  <2>4. e \in H <=> parks
    BY <1>5, <2>3 DEF Waiters
  <2> HIDE DEF H, e
  <2>5. Cardinality(Places_(Append(w, e), H)) = Cardinality(Places_(w, H)) + (IF e \in H THEN 1 ELSE 0)
    BY <1>2, <2>3, PlacesAppend
  <2>6. ~hands
    BY <1>3, <1>5
  <2> HIDE DEF w, hands, parks
  <2>7. Cardinality(Parked(p)') = IF hands THEN Cardinality(Parked(p)) - 1
                                  ELSE IF parks THEN Cardinality(Parked(p)) + 1
                                  ELSE Cardinality(Parked(p))
    BY <1>1, <2>1, <2>4, <2>5, <2>6
  <2> QED BY <2>7 DEF hands, parks
<1>6. CASE ~HandsOver(th) /\ ~Parks(th)
  <2>1. group'.waiting = group.waiting
    BY <1>6, GroupStep
  <2>2. Cardinality(Parked(p)') = Cardinality(Parked(p))
    BY <1>1, <2>1
  <2> QED BY <1>6, <2>2
<1> QED BY <1>4, <1>5, <1>6

LEMMA WaitersStep ==
  ASSUME Types, Scripts, Places, Starting, NEW th \in Threads, Step(th), NEW p \in Pools
  PROVE  LET parks == Parks(th) /\ Home(Head(todo[th])[2]) = p
             ends == Unregister(th) /\ Head(todo[th])[2] = p
         IN /\ pool'[p].external_waiters = IF parks THEN pool[p].external_waiters + 1
                                           ELSE IF ends THEN pool[p].external_waiters - 1
                                           ELSE pool[p].external_waiters
            /\ ~(parks /\ ends)
<1>1. CASE SameWaiters
  <2>1. ASSUME Parks(th) /\ Home(Head(todo[th])[2]) = p PROVE FALSE
    <3>1. pool'[p].external_waiters = pool[p].external_waiters + 1
      BY <2>1, RoutePool DEF Parks
    <3> QED BY <1>1, <3>1 DEF SameWaiters, Types
  <2>2. ASSUME Unregister(th) /\ Head(todo[th])[2] = p PROVE FALSE
    <3>1. pool'[p].external_waiters = pool[p].external_waiters - 1
      BY <2>2, UnregisterPool
    <3> QED BY <1>1, <3>1 DEF SameWaiters, Types
  <2>3. pool'[p].external_waiters = pool[p].external_waiters
    BY <1>1 DEF SameWaiters
  <2> QED BY <2>1, <2>2, <2>3
<1>2. CASE Route(th)
  <2>0. ~Unregister(th)
    BY <1>2, Heads
  <2>1. LET t == Head(todo[th])[2]
        IN IF t \in scenario.sync /\ group.taken
           THEN /\ pool'[Home(t)].external_waiters = pool[Home(t)].external_waiters + 1
                /\ \A q \in Pools \ {Home(t)} : pool'[q] = pool[q]
           ELSE pool' = pool
    BY <1>2, RoutePool
  <2> QED BY <1>2, <2>0, <2>1 DEF Parks
<1>3. CASE Unregister(th)
  <2>0. ~Parks(th)
    BY <1>3, Heads DEF Parks
  <2>1. LET q == Head(todo[th])[2]
        IN /\ pool'[q].external_waiters = pool[q].external_waiters - 1
           /\ \A r \in Pools \ {q} : pool'[r] = pool[r]
    BY <1>3, UnregisterPool
  <2> QED BY <1>3, <2>0, <2>1
<1> QED BY <1>1, <1>2, <1>3, PoolFrame

LEMMA WaitersCountStep ==
  ASSUME Types, Scripts, Places, Starting, WaitersCount, NEW th \in Threads, Step(th)
  PROVE  WaitersCount'
<1> SUFFICES ASSUME NEW p \in Pools
             PROVE  pool'[p].external_waiters = Cardinality(Parked(p)') + Cardinality(HandingTo(p)')
  BY DEF WaitersCount
<1> DEFINE hands == HandsOver(th) /\ Home(Head(group.waiting)[1]) = p
           parks == Parks(th) /\ Home(Head(todo[th])[2]) = p
           ends == Unregister(th) /\ Head(todo[th])[2] = p
<1>1. pool[p].external_waiters = Cardinality(Parked(p)) + Cardinality(HandingTo(p))
  BY DEF WaitersCount
<1>2. Cardinality(Parked(p)) \in Nat /\ Cardinality(HandingTo(p)) \in Nat
  BY ParkedPlaces
<1>3. pool'[p].external_waiters = IF parks THEN pool[p].external_waiters + 1
                                  ELSE IF ends THEN pool[p].external_waiters - 1
                                  ELSE pool[p].external_waiters
  BY WaitersStep
<1>4. Cardinality(Parked(p)') = IF hands THEN Cardinality(Parked(p)) - 1
                                ELSE IF parks THEN Cardinality(Parked(p)) + 1
                                ELSE Cardinality(Parked(p))
  BY ParkedCount
<1>5. Cardinality(HandingTo(p)') = IF hands THEN Cardinality(HandingTo(p)) + 1
                                   ELSE IF ends THEN Cardinality(HandingTo(p)) - 1
                                   ELSE Cardinality(HandingTo(p))
  BY HandingCount
<1>6. ~(hands /\ parks) /\ ~(hands /\ ends) /\ ~(parks /\ ends)
  BY Heads DEF HandsOver, Parks
<1> HIDE DEF hands, parks, ends
<1> QED BY <1>1, <1>2, <1>3, <1>4, <1>5, <1>6

-----------------------------------------------------------------------------
(* The first states.                                                       *)

LEMMA OrderJoin ==
  ASSUME NEW lasting, NEW x \in Seq(Op), NEW y \in Seq(Op), InOrder(x, lasting), InOrder(y, lasting),
         \A a \in Range(x) : \A b \in Range(y) : Follows(Rank(b, lasting), Rank(a, lasting))
  PROVE  InOrder(x \o y, lasting)
<1> DEFINE s == x \o y
<1>1. /\ DOMAIN x = 1 .. Len(x) /\ DOMAIN y = 1 .. Len(y) /\ Len(x) \in Nat /\ Len(y) \in Nat
      /\ DOMAIN s = 1 .. (Len(x) + Len(y))
      /\ \A i \in 1 .. Len(x) : s[i] = x[i]
      /\ \A i \in (Len(x) + 1) .. (Len(x) + Len(y)) : s[i] = y[i - Len(x)]
  OBVIOUS
<1> HIDE DEF s
<1>2. ASSUME NEW i \in DOMAIN s, NEW j \in DOMAIN s, i < j
      PROVE  Follows(Rank(s[j], lasting), Rank(s[i], lasting))
  <2>1. CASE j <= Len(x)
    <3>1. i \in DOMAIN x /\ j \in DOMAIN x /\ s[i] = x[i] /\ s[j] = x[j]
      BY <1>1, <1>2, <2>1
    <3> QED BY <1>2, <3>1 DEF InOrder
  <2>2. CASE i > Len(x)
    <3>1. /\ i - Len(x) \in DOMAIN y /\ j - Len(x) \in DOMAIN y /\ i - Len(x) < j - Len(x)
          /\ s[i] = y[i - Len(x)] /\ s[j] = y[j - Len(x)]
      BY <1>1, <1>2, <2>2
    <3> DEFINE m == i - Len(x)
               n == j - Len(x)
    <3>2. Follows(Rank(y[n], lasting), Rank(y[m], lasting))
      <4> HIDE DEF m, n
      <4>1. m \in DOMAIN y /\ n \in DOMAIN y /\ m < n
        BY <3>1 DEF m, n
      <4> QED BY <4>1 DEF InOrder
    <3> QED BY <3>1, <3>2
  <2>3. CASE i <= Len(x) /\ j > Len(x)
    <3>1. /\ i \in DOMAIN x /\ j - Len(x) \in DOMAIN y
          /\ s[i] = x[i] /\ s[j] = y[j - Len(x)]
      BY <1>1, <1>2, <2>3
    <3>2. s[i] \in Range(x) /\ s[j] \in Range(y)
      BY <3>1 DEF Range
    <3> QED BY <3>2
  <2> QED BY <1>1, <1>2, <2>1, <2>2, <2>3
<1>3. InOrder(s, lasting)
  BY <1>2 DEF InOrder
<1> QED BY <1>3 DEF s

CallKinds == {"submit", "bindall", "unbindall", "bind", "unbind", "shutdown"}
Ends_ == <<<<"start">>, <<"mainpool">>, <<"finals">>>>

LEMMA EndsOf ==
  /\ Ends_ \in Seq(Op) /\ Range(Ends_) = {<<"start">>, <<"mainpool">>, <<"finals">>}
  /\ \A lasting : InOrder(Ends_, lasting) /\ \A o \in Range(Ends_) : Rank(o, lasting) >= 4
<1>1. <<"start">> \in Op /\ <<"mainpool">> \in Op /\ <<"finals">> \in Op
  BY Operations DEF Simple
<1>2. Ends_ \in Seq(Op) /\ DOMAIN Ends_ = 1 .. 3
  BY <1>1 DEF Ends_
<1>3. Ends_[1] = <<"start">> /\ Ends_[2] = <<"mainpool">> /\ Ends_[3] = <<"finals">>
  BY DEF Ends_
<1>4. Range(Ends_) = {<<"start">>, <<"mainpool">>, <<"finals">>}
  <2>1. Range(Ends_) = {Ends_[i] : i \in 1 .. 3}
    BY <1>2 DEF Range
  <2>2. 1 .. 3 = {1, 2, 3}
    OBVIOUS
  <2> HIDE DEF Ends_
  <2> QED BY <1>3, <2>1, <2>2
<1>5. ASSUME NEW lasting
      PROVE  /\ Rank(<<"start">>, lasting) = 4 /\ Rank(<<"mainpool">>, lasting) = 6
             /\ Rank(<<"finals">>, lasting) = 9
  BY DEF Rank, Closing
<1>6. ASSUME NEW lasting PROVE InOrder(Ends_, lasting)
  <2>1. ASSUME NEW i \in 1 .. 3, NEW j \in 1 .. 3, i < j
        PROVE  Follows(Rank(Ends_[j], lasting), Rank(Ends_[i], lasting))
    <3>1. (i = 1 /\ j = 2) \/ (i = 1 /\ j = 3) \/ (i = 2 /\ j = 3)
      BY <2>1
    <3> HIDE DEF Ends_
    <3> QED BY <1>3, <1>5, <3>1 DEF Follows
  <2> QED BY <1>2, <2>1 DEF InOrder
<1> HIDE DEF Ends_
<1> QED BY <1>2, <1>4, <1>5, <1>6

\* What the threads have to do at first.
LEMMA InitLeft ==
  ASSUME Init, NEW th \in Threads
  PROVE  /\ todo[th] \in Seq(Op) /\ InOrder(todo[th], scenario.persistent)
         /\ \A o \in Left(th) : \/ o[1] \in CallKinds \/ o = <<"begin">>
                                \/ th = "main" /\ o \in {<<"start">>, <<"mainpool">>, <<"finals">>}
         /\ th = "main" => {<<"start">>, <<"mainpool">>, <<"finals">>} \subseteq Left(th)
         /\ \A p \in Pools \ {"main"} : th \in scenario.workers[p] => todo[th] = <<>>
<1> DEFINE L == scenario.persistent
<1>1. /\ scenario.setup \in Seq(Calls) /\ scenario.outside \in [Threads -> Seq(Calls)]
      /\ "main" \in Pools /\ scenario.workers["main"] = {"main"}
      /\ \A p, q \in Pools : p # q => scenario.workers[p] \cap scenario.workers[q] = {}
      /\ \A p \in Pools : \A w \in scenario.workers[p] : scenario.outside[w] = <<>>
  BY PowerPlantAssumption DEF Init
<1>2. ASSUME NEW s \in Seq(Calls)
      PROVE  /\ s \in Seq(Op) /\ InOrder(s, L)
             /\ \A o \in Range(s) : o[1] \in CallKinds /\ Rank(o, L) = 2
  <2>1. Range(s) \subseteq Calls
    BY RangeJoin
  <2>2. s \in Seq(Op)
    BY CallsAreOps
  <2>3. \A o \in Range(s) : o[1] \in CallKinds /\ Rank(o, L) = 2
    BY <2>1, CallsAreOps DEF CallKinds
  <2> QED BY <2>2, <2>3, Uniform
<1>3. todo[th] = IF th = "main" THEN scenario.setup \o Ends_
                 ELSE IF scenario.outside[th] # <<>> THEN <<<<"begin">>>> \o scenario.outside[th] ELSE <<>>
  BY DEF Init, Ends_
<1>4. CASE th = "main"
  <2> DEFINE s == scenario.setup
  <2>1. todo[th] = s \o Ends_
    BY <1>3, <1>4
  <2>2. /\ s \in Seq(Op) /\ InOrder(s, L) /\ \A o \in Range(s) : o[1] \in CallKinds /\ Rank(o, L) = 2
    BY <1>1, <1>2
  <2>3. /\ Ends_ \in Seq(Op) /\ Range(Ends_) = {<<"start">>, <<"mainpool">>, <<"finals">>}
        /\ InOrder(Ends_, L) /\ \A o \in Range(Ends_) : Rank(o, L) >= 4
    BY EndsOf
  <2> HIDE DEF s
  <2>4. \A a \in Range(s) : \A b \in Range(Ends_) : Follows(Rank(b, L), Rank(a, L))
    <3>1. ASSUME NEW a \in Range(s), NEW b \in Range(Ends_) PROVE Follows(Rank(b, L), Rank(a, L))
      <4>1. Rank(a, L) = 2 /\ Rank(b, L) >= 4
        BY <2>2, <2>3
      <4>2. Rank(b, L) \in Int
        BY DEF Rank
      <4> QED BY <4>1, <4>2 DEF Follows
    <3> QED BY <3>1
  <2>5. s \o Ends_ \in Seq(Op) /\ Range(s \o Ends_) = Range(s) \cup Range(Ends_) /\ InOrder(s \o Ends_, L)
    <3>1. s \o Ends_ \in Seq(Op) /\ Range(s \o Ends_) = Range(s) \cup Range(Ends_)
      BY <2>2, <2>3, RangeJoin
    <3>2. InOrder(s \o Ends_, L)
      BY <2>2, <2>3, <2>4, OrderJoin
    <3> QED BY <3>1, <3>2
  <2>6. \A p \in Pools \ {"main"} : th \notin scenario.workers[p]
    BY <1>1, <1>4
  <2>7. Left(th) = Range(s) \cup {<<"start">>, <<"mainpool">>, <<"finals">>}
    BY <2>1, <2>3, <2>5 DEF Left
  <2> QED BY <1>4, <2>1, <2>2, <2>5, <2>6, <2>7
<1>5. CASE th # "main" /\ scenario.outside[th] # <<>>
  <2> DEFINE s == scenario.outside[th]
             b == <<<<"begin">>>>
  <2>1. todo[th] = b \o s
    BY <1>3, <1>5
  <2>2. /\ s \in Seq(Op) /\ InOrder(s, L) /\ \A o \in Range(s) : o[1] \in CallKinds /\ Rank(o, L) = 2
    BY <1>1, <1>2
  <2>3. b \in Seq(Op) /\ Range(b) = {<<"begin">>} /\ Rank(<<"begin">>, L) = 2
    <3>1. <<"begin">> \in Op
      BY Operations DEF Simple
    <3> QED BY <3>1, RangeOf DEF Rank, Closing
  <2>4. InOrder(b, L)
    BY <2>3, Uniform
  <2> HIDE DEF s, b
  <2>5. \A x \in Range(b) : \A y \in Range(s) : Follows(Rank(y, L), Rank(x, L))
    BY <2>2, <2>3 DEF Follows
  <2>6. b \o s \in Seq(Op) /\ Range(b \o s) = Range(b) \cup Range(s) /\ InOrder(b \o s, L)
    BY <2>2, <2>3, <2>4, <2>5, OrderJoin, RangeJoin
  <2>7. \A p \in Pools : th \notin scenario.workers[p]
    BY <1>1, <1>5
  <2> QED BY <1>5, <2>1, <2>2, <2>3, <2>6, <2>7 DEF Left
<1>6. CASE th # "main" /\ scenario.outside[th] = <<>>
  <2>1. todo[th] = <<>>
    BY <1>3, <1>6
  <2>2. Left(th) = {} /\ InOrder(todo[th], L)
    BY <2>1 DEF Left, Range, InOrder
  <2> QED BY <1>6, <2>1, <2>2
<1> QED BY <1>4, <1>5, <1>6

LEMMA NewPool ==
  ASSUME NEW b \in BOOLEAN
  PROVE  LET r == [NoPool EXCEPT !.made = b]
         IN /\ r \in PoolRec /\ r.made = b /\ r.queue = <<>> /\ r.external_waiters = 0
            /\ r.live /\ r.accept /\ r.running /\ ~r.discard
<1> DEFINE n == NoPool
<1>1. /\ n \in PoolRec /\ n.queue = <<>> /\ n.external_waiters = 0
      /\ n.live /\ n.accept /\ n.running /\ ~n.discard
  BY DEF NoPool, PoolRec
<1> HIDE DEF n
<1> DEFINE r == [n EXCEPT !.made = b]
<1>2. /\ r \in PoolRec /\ r.made = b /\ r.queue = <<>> /\ r.external_waiters = 0
      /\ r.live /\ r.accept /\ r.running /\ ~r.discard
  BY <1>1 DEF PoolRec
<1> QED BY <1>2 DEF n

LEMMA InitPools ==
  ASSUME Init
  PROVE  /\ pool \in [Pools -> PoolRec]
         /\ \A p \in Pools : /\ pool[p].made <=> p = "main"
                             /\ pool[p].queue = <<>> /\ pool[p].external_waiters = 0
                             /\ pool[p].live /\ pool[p].accept /\ pool[p].running /\ ~pool[p].discard
<1>1. pool = [p \in Pools |-> [NoPool EXCEPT !.made = (p = "main")]]
  BY DEF Init
<1>2. ASSUME NEW p \in Pools
      PROVE  /\ pool[p] \in PoolRec
             /\ pool[p].made <=> p = "main"
             /\ pool[p].queue = <<>> /\ pool[p].external_waiters = 0
             /\ pool[p].live /\ pool[p].accept /\ pool[p].running /\ ~pool[p].discard
  <2> DEFINE b == p = "main"
  <2>1. pool[p] = [NoPool EXCEPT !.made = b] /\ b \in BOOLEAN
    BY <1>1
  <2> HIDE DEF b
  <2>2. /\ pool[p] \in PoolRec /\ pool[p].made = b
        /\ pool[p].queue = <<>> /\ pool[p].external_waiters = 0
        /\ pool[p].live /\ pool[p].accept /\ pool[p].running /\ ~pool[p].discard
    BY <2>1, NewPool
  <2>3. pool[p].made <=> p = "main"
    BY <2>2 DEF b
  <2> QED BY <2>2, <2>3
<1>3. pool = [p \in Pools |-> pool[p]]
  BY <1>1
<1> QED BY <1>2, <1>3

LEMMA InitTypes ==
  ASSUME Init
  PROVE  Types
<1>1. pool \in [Pools -> PoolRec]
  BY InitPools
<1>2. idle \in IdleRec
  BY DEF Init, IdleRec
<1>3. todo \in [Threads -> Seq(Op)]
  <2>1. \A th \in Threads : todo[th] \in Seq(Op)
    BY InitLeft
  <2>2. todo = [th \in Threads |-> todo[th]]
    BY DEF Init
  <2> QED BY <2>1, <2>2
<1>4. group \in [taken : BOOLEAN, waiting : Seq(Tasks \X BOOLEAN)]
  BY DEF Init
<1>5. scheduler \in [started : BOOLEAN, running : BOOLEAN, building : Pools \cup {Nobody},
                     idle_tasks : SUBSET Tasks]
  BY DEF Init
<1>6. sleeping \in [Pools -> SUBSET Threads]
  BY DEF Init
<1> QED BY <1>1, <1>2, <1>3, <1>4, <1>5, <1>6 DEF Types, Init, PoolRec, IdleRec

\* No thread is in the middle of anything.
LEMMA InitKinds ==
  ASSUME Init, NEW th \in Threads, NEW o \in Left(th)
  PROVE  /\ o[1] \notin {"poll", "wait", "done", "route", "accept", "enqueue", "notify", "unregister", "build",
                         "halt", "join", "await", "stop", "add"}
         /\ ~Closing(o) /\ o[1] \in {"start", "mainpool", "finals"} => th = "main"
         /\ ~Closing(o)
<1>1. \/ o[1] \in CallKinds \/ o = <<"begin">>
      \/ th = "main" /\ o \in {<<"start">>, <<"mainpool">>, <<"finals">>}
  BY InitLeft
<1> QED BY <1>1 DEF CallKinds, Closing

LEMMA InitMain ==
  ASSUME Init
  PROVE  Has("main", "start") /\ Has("main", "mainpool") /\ Has("main", "finals") /\ "main" \in Threads
<1>1. "main" \in Threads
  BY PowerPlantAssumption
<1>2. <<"start">> \in Left("main") /\ <<"mainpool">> \in Left("main") /\ <<"finals">> \in Left("main")
  BY <1>1, InitLeft
<1> QED BY <1>1, <1>2 DEF Has

LEMMA InitSound ==
  ASSUME Init
  PROVE  Sound
<1>1. Types
  BY InitTypes
<1>2. /\ \A th \in Threads : \A o \in Left(th) :
           /\ o[1] \notin {"poll", "wait", "done", "route", "accept", "enqueue", "notify", "unregister", "build",
                           "halt", "join", "await", "stop", "add"}
           /\ o[1] \in {"start", "mainpool", "finals"} => th = "main"
           /\ ~Closing(o)
      /\ Has("main", "start") /\ Has("main", "mainpool") /\ Has("main", "finals") /\ "main" \in Threads
  BY InitKinds, InitMain
<1>3. Scripts
  <2>1. \A th \in Threads : InOrder(todo[th], scenario.persistent)
    BY InitLeft
  <2> QED BY <1>2, <2>1 DEF Scripts, Has
<1>4. /\ \A p \in Pools : /\ idle.active[p] = 0
                          /\ idle.pool[p] <=> (p = "main" /\ Counts("main"))
      /\ \A w \in Threads : ~idle.thread[w]
      /\ idle.active_pools = 0 /\ group.waiting = <<>> /\ owed = {} /\ ran = {}
      /\ ~scheduler.started /\ scheduler.running /\ scheduler.building = Nobody
  BY DEF Init
<1>5. \A p \in Pools : /\ pool[p].made <=> p = "main"
                       /\ pool[p].queue = <<>> /\ pool[p].external_waiters = 0
                       /\ pool[p].live /\ pool[p].accept /\ pool[p].running /\ ~pool[p].discard
  BY InitPools
<1>6. "main" \in Pools /\ Nobody \notin Pools /\ scenario.counts \subseteq Pools
  BY <1>1, Cast
<1>7. Places
  <2>1. Range(<<>>) = {}
    BY RangeOf
  <2>2. \A th \in Threads : ~Has(th, "build")
    BY <1>2 DEF Has
  <2> QED BY <1>2, <1>4, <1>5, <1>6, <2>1, <2>2 DEF Places
<1>8. \A p \in Pools : ~Begun(p)
  BY <1>2, <1>4 DEF Begun
<1>9. \A p \in Pools : \A w \in Workers(p) : w \in Threads
  BY <1>1, PoolOfWorker
<1>10. Starting
  <2>1. \A p \in Pools \ {"main"} : \A w \in Workers(p) : todo[w] = <<>>
    BY <1>9, InitLeft DEF Workers
  <2> QED BY <1>2, <1>4, <1>8, <1>9, <2>1 DEF Starting
<1>11. Counting
  <2>1. {p \in scenario.counts : CountedIn(p)} = {}
    BY <1>4, <1>5, <1>6 DEF CountedIn, Counts
  <2> QED BY <1>4, <1>5, <1>8, <1>9, <2>1, FS_EmptySet DEF Counting
<1>12. Working
  BY <1>2, <1>4, <1>6, <1>9 DEF Working, Has
<1>13. WaitersCount
  <2>1. ASSUME NEW p \in Pools PROVE pool[p].external_waiters = Cardinality(Parked(p)) + Cardinality(HandingTo(p))
    <3>1. HandingTo(p) = {}
      BY <1>1, <1>2, ParkedPlaces
    <3>2. Parked(p) = {}
      BY <1>4 DEF Parked
    <3> QED BY <1>5, <3>1, <3>2, FS_EmptySet
  <2> QED BY <2>1 DEF WaitersCount
<1> QED BY <1>1, <1>3, <1>7, <1>10, <1>11, <1>12, <1>13 DEF Sound

LEMMA SoundStep ==
  ASSUME Sound, [Next]_vars
  PROVE  Sound'
<1>1. ASSUME NEW th \in Threads, Step(th) PROVE Sound'
  BY <1>1, TypesStep, ScriptsStep, PlacesStep, StartingStep, CountingStep, WorkingStep, WaitersCountStep DEF Sound
<1>2. CASE UNCHANGED vars
  <2>0. /\ scenario' = scenario /\ scheduler' = scheduler /\ pool' = pool /\ idle' = idle
        /\ group' = group /\ todo' = todo /\ sleeping' = sleeping /\ forced' = forced /\ ran' = ran
        /\ owed' = owed
    BY <1>2 DEF vars, history
  <2>1. Types'
    BY <2>0 DEF Sound, Types
  <2>2. Scripts'
    BY <2>0 DEF Sound, Scripts, Left, Has, Workers, Home
  <2>3. Places'
    BY <2>0 DEF Sound, Places, Left, Has, Home
  <2>4. Starting'
    BY <2>0 DEF Sound, Starting, Begun, Left, Has, Workers
  <2>5. Counting'
    BY <2>0 DEF Sound, Counting, Begun, Busy, CountedIn, Counts, Workers, Left, Has
  <2>6. Working'
    BY <2>0 DEF Sound, Working, Left, Has, Workers, Home
  <2>7. WaitersCount'
    BY <2>0 DEF Sound, WaitersCount, Parked, HandingTo, Home
  <2> QED BY <2>1, <2>2, <2>3, <2>4, <2>5, <2>6, <2>7 DEF Sound
<1> QED BY <1>1, <1>2 DEF Next, Rest

LEMMA SoundCounts ==
  ASSUME Sound
  PROVE  IdleCounts
<1>1. TypeOK
  <2>1. ASSUME NEW p \in Pools
        PROVE  /\ pool[p].queue \in Seq(Tasks) /\ pool[p].external_waiters \in Nat
               /\ pool[p].idle_tasks \subseteq Tasks
               /\ idle.active[p] \in 0..Cardinality(Workers(p))
               /\ sleeping[p] \subseteq Threads
    <3>1. pool[p].external_waiters \in Nat
      <4>1. Cardinality(Parked(p)) \in Nat /\ Cardinality(HandingTo(p)) \in Nat
        BY ParkedPlaces DEF Sound
      <4> QED BY <4>1 DEF Sound, WaitersCount
    <3>2. idle.active[p] \in 0..Cardinality(Workers(p))
      <4>1. /\ Cardinality(Workers(p)) \in Nat
            /\ Cardinality(Busy(p)) \in 0 .. Cardinality(Workers(p))
        BY WorkersFinite DEF Sound, Busy
      <4>2. idle.active[p] = 0 \/ idle.active[p] = Cardinality(Busy(p))
        BY DEF Sound, Starting, Counting
      <4> QED BY <4>1, <4>2
    <3> QED BY <3>1, <3>2 DEF Sound, Types
  <2>2. idle.active_pools \in 0..Cardinality(scenario.counts)
    <3>1. idle.active_pools = Cardinality(CountedPools)
      BY DEF Sound, Counting, CountedPools
    <3>2. scenario.counts \subseteq Pools /\ CountedPools \subseteq scenario.counts
      BY CountedFinite DEF Sound, CountedPools
    <3>3. IsFiniteSet(scenario.counts)
      BY <3>2, PowerPlantAssumption, FS_Subset
    <3>4. /\ Cardinality(CountedPools) <= Cardinality(scenario.counts)
          /\ Cardinality(CountedPools) \in Nat /\ Cardinality(scenario.counts) \in Nat
      BY <3>2, <3>3, FS_Subset, FS_CardinalityType
    <3> QED BY <3>1, <3>4
  <2> QED BY <2>1, <2>2 DEF TypeOK, Sound, Types
<1> QED BY <1>1, WorkingIdle DEF IdleCounts, Sound

\* For any scenario, the counting locks count exactly the workers and the pools that
\* are not idle; no pool is idle, and no idle reaction of the system fires, while a
\* task runs or waits; and a pool's external waiters are those that wait
\* (Pool.cpp:216-255, 338-433).
THEOREM IdleCountsHold == Spec => []IdleCounts
<1>1. Init => Sound
  BY InitSound
<1>2. Sound /\ [Next]_vars => Sound'
  BY SoundStep
<1>3. Sound => IdleCounts
  BY SoundCounts
<1> QED BY <1>1, <1>2, <1>3, PTL DEF Spec

-----------------------------------------------------------------------------
(* A stop reaches every pool.                                              *)

\* A thread leaves the loop of its pool in one way.
LEMMA PollEnds ==
  ASSUME Types, Scripts, Places, Starting, NEW th \in Threads, Step(th),
         NEW x \in Threads, Has(x, "poll"), ~Has(x, "poll")'
  PROVE  x = th /\ PollExit(th)
<1>1. PICK o \in Left(x) : o[1] = "poll"
  BY DEF Has
<1>2. o \notin Left(x)'
  BY <1>1 DEF Has
<1>3. x = th /\ todo[th] # <<>> /\ Head(todo[th])[1] = "poll"
  BY <1>1, <1>2, Departs
<1>4. ~BuildPool(th) /\ ~Start(th) /\ ~StartMain(th) /\ ~Finals(th)
  BY <1>3 DEF BuildPool, Start, StartMain, Finals, At
<1>5. ~UNCHANGED todo
  BY <1>1, <1>2 DEF Left
<1>6. ~Ordered(th)
  <2>1. ASSUME NEW new, NEW kept \in BOOLEAN, Moved(th, new, kept) PROVE FALSE
    <3>1. \A k \in Marks : Has(x, k)' <=> Has(x, k)
      BY <2>1, OrdinaryLeft
    <3> QED BY <3>1 DEF Marks
  <2> QED BY <2>1 DEF Ordered
<1> QED BY <1>3, <1>4, <1>5, <1>6, Kinds

\* The last stops come when the main thread has left its loop.
LEMMA FinalsAlone ==
  ASSUME Types, Scripts, NEW th \in Threads, Finals(th)
  PROVE  th = "main" /\ ~Has("main", "mainpool") /\ ~Has("main", "poll")
<1>1. Left(th) = {<<"finals">>} /\ th = "main"
  BY FinalsMoves
<1> QED BY <1>1 DEF Has

LEMMA Halts1 ==
  ASSUME Types, Scripts, Places, Starting, NEW th \in Threads, Step(th), NEW p \in Pools, Halting(p),
         ~Halting(p)'
  PROVE  HaltPool(th) /\ Head(todo[th])[2] = p
<1>1. PICK x \in Threads : \E o \in Left(x) : o[1] = "halt" /\ o[2] = p
  BY DEF Halting
<1>2. PICK o \in Left(x) : o[1] = "halt" /\ o[2] = p
  BY <1>1
<1>3. o \notin Left(x)'
  BY <1>2 DEF Halting
<1>4. x = th /\ todo[th] # <<>> /\ o = Head(todo[th])
  BY <1>2, <1>3, Departs
<1> QED BY <1>2, <1>4, Acts

LEMMA BuildIsOn ==
  ASSUME Types, Places, NEW th \in Threads, BuildPool(th)
  PROVE  scheduler.building = Head(todo[th])[2] /\ scheduler.building \in Pools /\ scheduler.building # Nobody
<1>1. todo[th] # <<>> /\ Head(todo[th])[1] = "build"
  BY Heads
<1>2. Head(todo[th]) \in Op /\ Head(todo[th]) \in Left(th)
  BY <1>1, HeadOp
<1>3. Head(todo[th])[2] \in Pools
  BY <1>1, <1>2, Arguments
<1> QED BY <1>1, <1>2, <1>3, Cast, ZenonT(40) DEF Places

LEMMA StoppingStep ==
  ASSUME Types, Scripts, Places, Starting, Stopping, NEW th \in Threads, Step(th)
  PROVE  Stopping'
<1>0. scenario' = scenario /\ "main" \in Threads /\ "main" \in Pools /\ Workers("main") = {"main"}
  BY Frame, Cast
<1>1. scheduler'.running = scheduler.running \/ (StopScheduler(th) /\ ~scheduler'.running)
  BY SchedulerTyped
<1>2. ASSUME HaltPool(th) PROVE \E p \in Pools : Halting(p) /\ p = Head(todo[th])[2]
  <2>1. todo[th] # <<>> /\ Head(todo[th])[1] = "halt"
    BY <1>2, Heads
  <2>2. Head(todo[th]) \in Left(th) /\ Head(todo[th])[2] \in Pools
    BY <1>2, <2>1, HeadOp, HaltPoolMoves
  <2> QED BY <2>1, <2>2 DEF Halting
<1>3. ASSUME scheduler'.running
      PROVE  /\ \A p \in Pools : pool'[p].accept /\ pool'[p].running /\ ~Halting(p)'
             /\ Has("main", "mainpool")' \/ Has("main", "poll")'
  <2>1. /\ scheduler.running
        /\ \A p \in Pools : pool[p].accept /\ pool[p].running /\ ~Halting(p)
        /\ Has("main", "mainpool") \/ Has("main", "poll")
    BY <1>1, <1>3 DEF Stopping
  <2>2. ~HaltPool(th)
    BY <1>2, <2>1
  <2>3. \A p \in Pools : pool'[p].accept /\ pool'[p].running
    BY <2>1, <2>2, PoolFrame
  <2>4. ASSUME NEW p \in Pools, Halting(p)' PROVE FALSE
    <3>1. PICK x \in Threads : \E o \in Left(x)' : o[1] = "halt" /\ o[2] = p
      BY <2>4 DEF Halting
    <3>2. PICK o \in Left(x)' : o[1] = "halt" /\ o[2] = p
      BY <3>1
    <3>3. o \notin Left(x)
      BY <2>1, <3>2 DEF Halting
    <3>4. StopScheduler(th) \/ Finals(th)
      BY <3>2, <3>3, Brought
    <3>5. ~Finals(th)
      BY <2>1, FinalsAlone
    <3>6. StopScheduler(th) => ~scheduler'.running
      <4>1. StopScheduler(th) => scheduler' = [scheduler EXCEPT !.running = FALSE]
        BY DEF StopScheduler
      <4> QED BY <4>1 DEF Types
    <3> QED BY <1>3, <3>4, <3>5, <3>6
  <2>5. Has("main", "mainpool")' \/ Has("main", "poll")'
    <3>1. CASE StartMain(th)
      <4>1. th = "main" /\ Left(th)' = {<<"poll">>} \cup Range(Tail(todo[th]))
        BY <3>1, StartMainMoves
      <4>2. <<"poll">> \in Range(todo'["main"])
        BY <4>1 DEF Left
      <4> QED BY <4>2 DEF Has, Left
    <3>2. CASE ~StartMain(th)
      <4>1. Has("main", "mainpool") => Has("main", "mainpool")'
        BY <3>2, OncePerSystem
      <4>2. ASSUME Has("main", "poll"), ~Has("main", "poll")' PROVE FALSE
        <5>1. th = "main" /\ PollExit(th)
          BY <1>0, <4>2, PollEnds
        <5>2. PoolOf(th) = "main"
          BY <1>0, <5>1, PoolOfWorker
        <5> QED BY <1>0, <2>1, <5>1, <5>2 DEF PollExit, GoesOn
      <4> QED BY <2>1, <4>1, <4>2
    <3> QED BY <3>1, <3>2
  <2> QED BY <2>3, <2>4, <2>5
<1>4. ASSUME ~scheduler'.running
      PROVE  /\ scheduler'.building = Nobody
             /\ \A p \in Pools : pool'[p].made => Persistent(p) \/ ~pool'[p].running \/ Halting(p)'
  <2>1. CASE scheduler.running
    <3>1. StopScheduler(th)
      BY <1>1, <1>4, <2>1
    <3>2. scheduler' = [scheduler EXCEPT !.running = FALSE] /\ scheduler.building = Nobody /\ pool' = pool
      BY <3>1 DEF StopScheduler
    <3>3. scheduler'.building = Nobody
      BY <3>2 DEF Types
    <3> DEFINE new == {<<"halt", p, Head(todo[th])[2]>> : p \in {q \in Pools : pool[q].made}}
    <3>4. Moved(th, new, FALSE)
      BY <3>1, StopSchedulerMoves
    <3>5. new \subseteq Left(th)'
      <4> HIDE DEF new
      <4>1. Left(th)' = new \cup After(th, FALSE)
        BY <3>4, OrdinaryLeft
      <4> QED BY <4>1
    <3>6. ASSUME NEW p \in Pools, pool[p].made PROVE Halting(p)'
      <4> DEFINE o == <<"halt", p, Head(todo[th])[2]>>
      <4>1. o \in Left(th)'
        BY <3>5, <3>6
      <4>2. o[1] = "halt" /\ o[2] = p
        OBVIOUS
      <4>3. \E x \in Threads : \E a \in Left(x)' : a[1] = "halt" /\ a[2] = p
        BY <4>1, <4>2
      <4> QED BY <4>3 DEF Halting
    <3> QED BY <3>2, <3>3, <3>6
  <2>2. CASE ~scheduler.running
    <3>1. /\ scheduler.building = Nobody
          /\ \A p \in Pools : pool[p].made => Persistent(p) \/ ~pool[p].running \/ Halting(p)
      BY <2>2 DEF Stopping
    <3>2. ~BuildPool(th)
      BY <3>1, BuildIsOn
    <3>3. ~MakePool(th)
      BY <2>2 DEF MakePool
    <3>4. scheduler'.building = Nobody
      BY <3>1, <3>2, <3>3, SchedulerTyped
    <3>5. ASSUME NEW p \in Pools, pool'[p].made PROVE Persistent(p) \/ ~pool'[p].running \/ Halting(p)'
      <4>1. pool[p].made
        BY <3>2, <3>5, PoolFrame
      <4>2. CASE HaltPool(th) /\ Head(todo[th])[2] = p
        <5>1. pool'[p].running = (Persistent(p) /\ Head(todo[th])[3] = "NORMAL")
          BY <4>2, HaltPoolPool
        <5> QED BY <5>1
      <4>3. CASE ~(HaltPool(th) /\ Head(todo[th])[2] = p)
        <5>1. Halting(p) => Halting(p)'
          BY <4>3, Halts1
        <5>2. pool'[p].running = pool[p].running
          BY <4>3, PoolFrame, HaltPoolPool
        <5> QED BY <3>1, <4>1, <5>1, <5>2
      <4> QED BY <4>2, <4>3
    <3> QED BY <3>4, <3>5
  <2> QED BY <2>1, <2>2
<1> QED BY <1>0, <1>3, <1>4 DEF Stopping, Persistent

LEMMA NothingMissed ==
  ASSUME Types, Stopping
  PROVE  NoPoolIsMissed
<1> SUFFICES ASSUME ~scheduler.running, \A th \in Threads : \A i \in DOMAIN todo[th] : todo[th][i][1] # "halt",
                    NEW p \in Pools, pool[p].made
             PROVE  Persistent(p) \/ ~pool[p].running
  BY DEF NoPoolIsMissed
<1>1. ~Halting(p)
  BY DEF Halting, Left, Range
<1> QED BY <1>1 DEF Stopping

-----------------------------------------------------------------------------
(* What is forced, and who is joined when.                                 *)

LEMMA ForcedStep ==
  ASSUME Types, NEW th \in Threads, Step(th), ~forced'
  PROVE  ~forced /\ (StopScheduler(th) => Head(todo[th])[2] # "FORCE")
BY Frame DEF StopScheduler, Arg

\* Without a forced stop a stop forces nothing.
LEMMA HaltIsGentle ==
  ASSUME Types, Gentle, ~forced, NEW th \in Threads, HaltPool(th)
  PROVE  /\ Head(todo[th])[3] \in {"NORMAL", "FINAL"} /\ Head(todo[th])[2] \in Pools
         /\ Head(todo[th])[1] = "halt" /\ Head(todo[th]) \in Left(th)
         /\ \A p \in Pools : pool'[p].queue = pool[p].queue /\ pool'[p].discard = pool[p].discard
         /\ \A p \in Pools : Persistent(p) => pool'[p].accept
<1>1. todo[th] # <<>> /\ Head(todo[th])[1] = "halt" /\ Head(todo[th])[3] \in {"NORMAL", "FORCE", "FINAL"}
  BY HaltPoolMoves, Heads
<1>2. Head(todo[th]) \in Left(th)
  BY <1>1, HeadOp
<1>3. Head(todo[th])[3] # "FORCE"
  BY <1>1, <1>2 DEF Gentle
<1>4. LET p == Head(todo[th])[2]
          type == Head(todo[th])[3]
          asks == type = "FORCE" /\ ConsumerAlive(p, th)
      IN /\ p \in Pools
         /\ pool'[p].accept = (Persistent(p) /\ type # "FORCE")
         /\ pool'[p].discard = (pool[p].discard \/ asks)
         /\ pool'[p].queue = IF type = "FORCE" /\ ~asks THEN <<>> ELSE pool[p].queue
         /\ \A q \in Pools \ {p} : pool'[q] = pool[q]
  BY HaltPoolPool
<1>5. \A p \in Pools : pool[p].discard \in BOOLEAN /\ (Persistent(p) => pool[p].accept)
  BY DEF Types, Gentle
<1>6. ASSUME NEW p \in Pools
      PROVE  /\ pool'[p].queue = pool[p].queue /\ pool'[p].discard = pool[p].discard
             /\ Persistent(p) => pool'[p].accept
  <2>1. CASE p = Head(todo[th])[2]
    BY <1>3, <1>4, <1>5, <2>1
  <2>2. CASE p # Head(todo[th])[2]
    BY <1>4, <1>5, <2>2
  <2> QED BY <2>1, <2>2
<1> QED BY <1>1, <1>2, <1>3, <1>4, <1>6

LEMMA GentleStep ==
  ASSUME Types, Scripts, Places, Starting, Gentle, NEW th \in Threads, Step(th)
  PROVE  Gentle'
<1> SUFFICES ASSUME ~forced'
             PROVE  /\ \A p \in Pools : ~pool'[p].discard /\ (Persistent(p) => pool'[p].accept)
                    /\ \A x \in Threads : \A o \in Left(x)' : o[1] = "halt" => o[3] # "FORCE"
  <2>1. scenario' = scenario
    BY Frame
  <2> QED BY <2>1 DEF Gentle, Persistent
<1>1. ~forced /\ (StopScheduler(th) => Head(todo[th])[2] # "FORCE")
  BY ForcedStep
<1>2. /\ \A p \in Pools : ~pool[p].discard /\ (Persistent(p) => pool[p].accept)
      /\ \A x \in Threads : \A o \in Left(x) : o[1] = "halt" => o[3] # "FORCE"
  BY <1>1 DEF Gentle
<1>3. ASSUME NEW p \in Pools PROVE ~pool'[p].discard /\ (Persistent(p) => pool'[p].accept)
  <2>1. CASE HaltPool(th)
    <3>1. pool'[p].discard = pool[p].discard /\ (Persistent(p) => pool'[p].accept)
      BY <1>1, <2>1, HaltIsGentle
    <3> QED BY <1>2, <3>1
  <2>2. CASE ~HaltPool(th)
    <3>1. pool'[p].accept = pool[p].accept
      BY <2>2, PoolFrame
    <3>2. CASE PollDiscard(th)
      BY <1>2, <3>1, <3>2, PollDiscardPool
    <3>3. CASE ~PollDiscard(th)
      <4>1. SameDiscard
        BY <2>2, <3>3, PoolFrame
      <4> QED BY <1>2, <3>1, <4>1 DEF SameDiscard
    <3> QED BY <3>2, <3>3
  <2> QED BY <2>1, <2>2
<1>4. ASSUME NEW x \in Threads, NEW o \in Left(x)', o[1] = "halt" PROVE o[3] # "FORCE"
  <2>1. CASE o \in Left(x)
    BY <1>2, <1>4, <2>1
  <2>2. CASE o \notin Left(x)
    <3>1. CASE BringsEarly(th, o)
      <4>1. HandsOver(th) /\ o \in HandedSet => group.waiting # <<>>
        BY DEF HandsOver
      <4> QED BY <1>4, <3>1, <4>1 DEF BringsEarly, HandedSet
    <3>2. CASE BringsLate(th, o)
      <4>1. \/ o[3] = Head(todo[th])[2] /\ StopScheduler(th)
            \/ Closing(o)
            \/ PollTake(th) /\ o \in Range(scenario.body[Head(pool[PoolOf(th)].queue)])
        BY <1>4, <3>2 DEF BringsLate
      <4>2. ~(PollTake(th) /\ o \in Range(scenario.body[Head(pool[PoolOf(th)].queue)]))
        <5>1. ASSUME PollTake(th), o \in Range(scenario.body[Head(pool[PoolOf(th)].queue)]) PROVE FALSE
          <6>1. scenario.body[Head(pool[PoolOf(th)].queue)] \in Seq(Calls)
            BY <5>1, PollTakePool, Cast
          <6>2. o \in Calls
            BY <5>1, <6>1, RangeJoin
          <6> QED BY <1>4, <6>2, CallsAreOps
        <5> QED BY <5>1
      <4> QED BY <1>1, <1>4, <4>1, <4>2 DEF Closing
    <3> QED BY <2>2, <3>1, <3>2, Arrives
  <2> QED BY <2>1, <2>2
<1> QED BY <1>3, <1>4

\* Once the main thread has left its loop no pool is made, and a thread that has
\* nothing left stays so.
LEMMA AfterMain ==
  ASSUME Types, Scripts, Places, Starting, Stopping, NEW th \in Threads, Step(th), ~Has("main", "finals")
  PROVE  /\ ~BuildPool(th) /\ ~Start(th) /\ ~StartMain(th) /\ ~Has("main", "finals")'
         /\ \A p \in Pools : pool'[p].made = pool[p].made
         /\ \A w \in Threads : todo[w] = <<>> => todo'[w] = <<>>
         /\ \A p \in Pools : Gone(p) => Gone(p)'
<1>1. ~Has("main", "mainpool") /\ ~Has("main", "poll") /\ ~Has("main", "start")
  BY DEF Scripts
<1>2. ~scheduler.running /\ scheduler.building = Nobody
  BY <1>1 DEF Stopping
<1>3. ~BuildPool(th)
  BY <1>2, BuildIsOn
<1>4. ~StartMain(th)
  BY <1>1, StartMainStarts
<1>5. ~Start(th)
  <2>1. ASSUME Start(th) PROVE FALSE
    <3>1. todo[th] # <<>> /\ Head(todo[th])[1] = "start" /\ th = "main"
      BY <2>1, StartMoves
    <3>2. Head(todo[th]) \in Left(th)
      BY <3>1, HeadOp
    <3> QED BY <1>1, <3>1, <3>2 DEF Has
  <2> QED BY <2>1
<1>6. ~Has("main", "finals")'
  BY OncePerSystem
<1>7. \A p \in Pools : pool'[p].made = pool[p].made
  BY <1>3, PoolFrame
<1>8. ASSUME NEW w \in Threads, todo[w] = <<>>, todo'[w] # <<>> PROVE FALSE
  <2>1. w # th /\ Left(w) = {}
    BY <1>8, Acting DEF Left, Range
  <2>2. PICK o : o \in Left(w)'
    <3>1. todo'[w] \in Seq(Op)
      BY TodoTyped
    <3>2. Head(todo'[w]) \in Range(todo'[w])
      BY <1>8, <3>1, RangeSplit
    <3> QED BY <3>2 DEF Left
  <2>3. o \notin Left(w)
    BY <2>1
  <2> QED BY <1>3, <1>4, <1>5, <2>1, <2>2, <2>3, Brought
<1>9. ASSUME NEW p \in Pools, Gone(p) PROVE Gone(p)'
  <2>1. scenario' = scenario /\ Workers(p) \subseteq Threads
    BY Frame, Cast
  <2> QED BY <1>8, <1>9, <2>1 DEF Gone, Workers
<1> QED BY <1>3, <1>4, <1>5, <1>6, <1>7, <1>8, <1>9

LEMMA ClosedStep ==
  ASSUME Types, Scripts, Places, Starting, Stopping, Gentle, Closed, NEW th \in Threads, Step(th)
  PROVE  Closed'
<1>0. scenario' = scenario /\ "main" \in Threads
  BY Frame, Cast
<1>1. ASSUME ~Has("main", "finals")', NEW p \in Pools, pool'[p].made
      PROVE  Gone(p)' \/ <<"join", p>> \in Left("main")'
  <2>1. CASE Finals(th)
    <3>1. pool' = pool
      BY <2>1 DEF Finals
    <3>2. th = "main" /\ {<<"join", q>> : q \in {q \in Pools : pool[q].made}} \subseteq Left(th)'
      BY <2>1, FinalsMoves
    <3>3. p \in {q \in Pools : pool[q].made}
      BY <1>1, <3>1
    <3>4. <<"join", p>> \in Left(th)'
      BY <3>2, <3>3
    <3> QED BY <3>2, <3>4
  <2>2. CASE ~Finals(th)
    <3>1. ~Has("main", "finals")
      BY <1>1, <2>2, OncePerSystem
    <3>2. pool[p].made /\ (Gone(p) => Gone(p)')
      BY <1>1, <3>1, AfterMain
    <3>3. Gone(p) \/ <<"join", p>> \in Left("main")
      BY <3>1, <3>2 DEF Closed
    <3>4. ASSUME <<"join", p>> \in Left("main"), <<"join", p>> \notin Left("main")' PROVE Gone(p)
      <4>1. th = "main" /\ todo[th] # <<>> /\ <<"join", p>> = Head(todo[th])
        BY <1>0, <3>4, Departs
      <4>2. Head(todo[th])[1] = "join" /\ Head(todo[th])[2] = p
        BY <4>1
      <4>3. Join(th)
        BY <4>1, <4>2, Acts
      <4> QED BY <4>1, <4>2, <4>3 DEF Join, Gone, Arg
    <3> QED BY <3>2, <3>3, <3>4
  <2> QED BY <2>1, <2>2
<1>2. ASSUME ~forced', NEW p \in Pools, pool'[p].made, Persistent(p), ~pool'[p].running
      PROVE  /\ ~Has("main", "finals")'
             /\ \A q \in Pools : pool'[q].made /\ ~Persistent(q) => Gone(q)'
  <2>0. ~forced
    BY <1>2, ForcedStep
  <2>1. CASE ~pool[p].running
    <3>1. ~scheduler.running
      BY <2>1 DEF Stopping
    <3>2. ~BuildPool(th)
      BY <3>1, BuildIsOn DEF Stopping
    <3>3. pool[p].made
      BY <1>2, <3>2, PoolFrame
    <3>4. Lasts(p)
      BY <1>2, <2>0, <2>1, <3>3 DEF Closed
    <3> QED BY <3>4, AfterMain DEF Lasts
  <2>2. CASE pool[p].running
    <3>1. HaltPool(th) /\ p = Head(todo[th])[2]
      BY <1>2, <2>2, PoolFrame, HaltPoolPool
    <3>2. /\ Head(todo[th])[3] \in {"NORMAL", "FINAL"} /\ Head(todo[th])[1] = "halt"
          /\ Head(todo[th]) \in Left(th) /\ todo[th] # <<>>
      BY <2>0, <3>1, HaltIsGentle, Heads
    <3>3. pool'[p].running = (Persistent(p) /\ Head(todo[th])[3] = "NORMAL")
      BY <3>1, HaltPoolPool
    <3>4. Head(todo[th])[3] = "FINAL"
      BY <1>2, <3>2, <3>3
    <3>5. Closing(Head(todo[th]))
      BY <3>2, <3>4 DEF Closing
    <3>6. th = "main"
      BY <3>2, <3>5 DEF Scripts
    <3>7. ~Has("main", "finals")
      BY <3>2, <3>5, <3>6 DEF Scripts
    <3>8. ASSUME NEW q \in Pools, pool[q].made, ~Persistent(q), ~Gone(q) PROVE FALSE
      <4>1. <<"join", q>> \in Left("main")
        BY <3>7, <3>8 DEF Closed
      <4>2. <<"join", q>> # Head(todo[th])
        BY <3>2
      <4>3. Left(th) = {Head(todo[th])} \cup Range(Tail(todo[th]))
        BY <3>2, HeadOp
      <4>4. RankOf(Head(todo[th])) <= RankOf(<<"join", q>>)
        BY <3>2, <3>6, <4>1, <4>2, <4>3, Rest1
      <4>5. RankOf(<<"join", q>>) = 7
        BY <3>8 DEF RankOf, Rank, Closing, Persistent, Lasting
      <4>6. RankOf(Head(todo[th])) = 8
        BY <1>2, <3>1, <3>2, <3>5 DEF RankOf, Rank, Persistent, Lasting
      <4> QED BY <4>4, <4>5, <4>6
    <3> QED BY <3>7, <3>8, AfterMain
  <2> QED BY <2>1, <2>2
<1> QED BY <1>0, <1>1, <1>2 DEF Closed, Lasts, Persistent

-----------------------------------------------------------------------------
(* A task that has been accepted is not lost.                              *)

\* The one who takes over the token has the task to put in its queue.
LEMMA HandsOn ==
  ASSUME Types, NEW th \in Threads, Step(th), HandsOver(th), NEW t \in Tasks, t = Head(group.waiting)[1]
  PROVE  HandedOver(th, t)'
<1>1. Moved(th, HandedSet, FALSE) /\ scenario' = scenario
  BY GroupStep, Frame
<1>2. Left(th)' = HandedSet \cup After(th, FALSE)
  BY <1>1, OrdinaryLeft
<1>3. group.waiting # <<>>
  BY DEF HandsOver
<1>4. <<"enqueue", t, Head(group.waiting)[2]>> \in Left(th)' /\ <<"unregister", Home(t)>> \in Left(th)'
  BY <1>2, <1>3 DEF HandedSet
<1>5. <<"unregister", Home(t)'>> \in Left(th)'
  BY <1>1, <1>4 DEF Home
<1>6. \E o \in Left(th)' : o[1] = "enqueue" /\ o[2] = t
  BY <1>4
<1> QED BY <1>5, <1>6 DEF HandedOver

\* A task leaves its queue only to be run.
LEMMA QueueStays ==
  ASSUME Types, Scripts, Places, Starting, Gentle, ~forced, NEW th \in Threads, Step(th),
         NEW t \in Tasks, t \in Range(pool[Home(t)].queue)
  PROVE  t \in Range(pool'[Home(t)].queue) \/ <<"done", t>> \in Left(th)'
<1> DEFINE p == Home(t)
<1>1. p \in Pools
  BY Cast
<1>2. CASE SameQueues
  BY <1>1, <1>2 DEF SameQueues
<1>3. CASE HaltPool(th)
  BY <1>1, <1>3, HaltIsGentle
<1>4. CASE PollDiscard(th)
  BY <1>4, PollDiscardPool DEF Gentle
<1>5. CASE Enqueue(th)
  <2>1. LET u == Head(todo[th])[2]
        IN /\ Range(pool'[Home(u)].queue) = Range(pool[Home(u)].queue) \cup {u}
           /\ \A q \in Pools \ {Home(u)} : pool'[q] = pool[q]
    BY <1>5, EnqueuePool
  <2> QED BY <1>1, <2>1
<1>6. CASE PollTake(th)
  <2>1. LET q == PoolOf(th)
        IN /\ q \in Pools
           /\ Range(pool[q].queue) = {Head(pool[q].queue)} \cup Range(pool'[q].queue)
           /\ \A r \in Pools \ {q} : pool'[r] = pool[r]
    BY <1>6, PollTakePool
  <2>2. CASE p # PoolOf(th)
    BY <1>1, <2>1, <2>2
  <2>3. CASE p = PoolOf(th)
    <3>1. t \in Range(pool'[p].queue) \/ t = Head(pool[PoolOf(th)].queue)
      BY <2>1, <2>3
    <3> DEFINE new == Range(scenario.body[Head(pool[PoolOf(th)].queue)])
                        \cup {<<"done", Head(pool[PoolOf(th)].queue)>>}
    <3>2. Moved(th, new, TRUE) /\ <<"done", Head(pool[PoolOf(th)].queue)>> \in new
      BY <1>6, PollTakeMoves
    <3> HIDE DEF new
    <3>3. Left(th)' = new \cup After(th, TRUE)
      BY <3>2, OrdinaryLeft
    <3> QED BY <3>1, <3>2, <3>3
  <2> QED BY <2>2, <2>3
<1> QED BY <1>2, <1>3, <1>4, <1>5, <1>6, PoolFrame

\* The task handed over comes to its queue before its pool is told so.
LEMMA HandedStays ==
  ASSUME Types, Scripts, Places, Starting, NEW th \in Threads, Step(th),
         NEW t \in Tasks, NEW x \in Threads, HandedOver(x, t)
  PROVE  HandedOver(x, t)' \/ t \in Range(pool'[Home(t)].queue)
<1>1. PICK o \in Left(x) : o[1] = "enqueue" /\ o[2] = t
  BY DEF HandedOver
<1> DEFINE u == <<"unregister", Home(t)>>
<1>2. u \in Left(x) /\ u[1] = "unregister"
  BY DEF HandedOver
<1> HIDE DEF u
<1>3. CASE o \notin Left(x)'
  <2>1. x = th /\ todo[th] # <<>> /\ o = Head(todo[th])
    BY <1>3, Departs
  <2>2. Enqueue(th)
    BY <1>1, <2>1, Acts
  <2>3. Range(pool'[Home(t)].queue) = Range(pool[Home(t)].queue) \cup {t}
    BY <1>1, <2>1, <2>2, EnqueuePool
  <2> QED BY <2>3
<1>4. CASE o \in Left(x)' /\ u \notin Left(x)'
  <2>1. x = th /\ todo[th] # <<>> /\ u = Head(todo[th])
    BY <1>2, <1>4, Departs
  <2>2. o \in Range(Tail(todo[th]))
    BY <1>1, <1>2, <2>1, HeadOp
  <2>3. RankOf(Head(todo[th])) <= RankOf(o)
    BY <2>1, <2>2, Rest1
  <2>4. RankOf(o) = 0 /\ RankOf(Head(todo[th])) = 1
    BY <1>1, <1>2, <2>1 DEF RankOf, Rank
  <2> QED BY <2>3, <2>4
<1>5. CASE o \in Left(x)' /\ u \in Left(x)'
  <2>1. scenario' = scenario
    BY Frame
  <2>2. <<"unregister", Home(t)'>> \in Left(x)'
    BY <1>5, <2>1 DEF u, Home
  <2> QED BY <1>1, <1>5, <2>2 DEF HandedOver
<1> QED BY <1>3, <1>4, <1>5

LEMMA SafeStep ==
  ASSUME Types, Scripts, Places, Starting, Gentle, ~forced, NEW th \in Threads, Step(th),
         NEW t \in Tasks, Safe(t)
  PROVE  Safe(t)'
<1>1. scenario' = scenario /\ Home(t)' = Home(t)
  BY Frame DEF Home
<1>2. SUFFICES \/ t \in ran' \/ t \in Range(pool'[Home(t)].queue)
               \/ \E i \in DOMAIN group'.waiting : group'.waiting[i][1] = t
               \/ \E x \in Threads : <<"done", t>> \in Left(x)' \/ HandedOver(x, t)'
  BY <1>1 DEF Safe
<1>3. CASE t \in ran
  BY <1>3, Frame DEF Done
<1>4. CASE t \in Range(pool[Home(t)].queue)
  BY <1>4, QueueStays
<1>5. ASSUME NEW i \in DOMAIN group.waiting, group.waiting[i][1] = t
      PROVE  \/ \E k \in DOMAIN group'.waiting : group'.waiting[k][1] = t
             \/ HandedOver(th, t)'
  <2>1. group.waiting \in Seq(Tasks \X BOOLEAN)
    BY DEF Types
  <2>2. CASE group'.waiting = group.waiting
    BY <1>5, <2>2
  <2>3. CASE Parks(th)
    <3>1. PICK e : group'.waiting = Append(group.waiting, e)
      BY <2>3, GroupStep
    <3>2. i \in DOMAIN group'.waiting /\ group'.waiting[i] = group.waiting[i]
      BY <2>1, <3>1
    <3> QED BY <1>5, <3>2
  <2>4. CASE HandsOver(th)
    <3>1. group.waiting # <<>> /\ group'.waiting = Tail(group.waiting)
      BY <2>4, GroupStep DEF HandsOver
    <3>2. CASE i = 1
      <4>1. t = Head(group.waiting)[1]
        BY <1>5, <2>1, <3>1, <3>2
      <4> QED BY <2>4, <4>1, HandsOn
    <3>3. CASE i # 1
      <4>1. i \in 1 .. Len(group.waiting) /\ Len(group.waiting) \in Nat
        BY <1>5, <2>1
      <4>2. (i - 1) \in DOMAIN Tail(group.waiting) /\ Tail(group.waiting)[i - 1] = group.waiting[i]
        BY <2>1, <3>1, <3>3, <4>1
      <4> QED BY <1>5, <3>1, <4>2
    <3> QED BY <3>2, <3>3
  <2> QED BY <2>2, <2>3, <2>4, GroupStep
<1>6. ASSUME NEW x \in Threads, <<"done", t>> \in Left(x)
      PROVE  <<"done", t>> \in Left(x)' \/ t \in ran'
  <2>1. SUFFICES ASSUME <<"done", t>> \notin Left(x)' PROVE t \in ran'
    OBVIOUS
  <2>2. x = th /\ todo[th] # <<>> /\ <<"done", t>> = Head(todo[th])
    BY <1>6, <2>1, Departs
  <2>3. Done(th)
    BY <2>2, Acts
  <2> QED BY <2>2, <2>3 DEF Done, Arg
<1>7. ASSUME NEW x \in Threads, HandedOver(x, t)
      PROVE  HandedOver(x, t)' \/ t \in Range(pool'[Home(t)].queue)
  BY <1>7, HandedStays
<1> QED BY <1>3, <1>4, <1>5, <1>6, <1>7 DEF Safe

-----------------------------------------------------------------------------
(* A call on its way comes to the queue of its pool.                       *)

\* What replaces a call that is on its way.
Forwards(th, t) ==
  \E new : /\ Moved(th, new, FALSE)
           /\ \E o \in new : OnItsWay(o, t)
           /\ \A o \in new : o[1] # "stop"

LEMMA OnWayMoves ==
  ASSUME Types, Scripts, Places, Starting, NEW th \in Threads, Step(th), todo[th] # <<>>,
         NEW t \in Tasks, OnItsWay(Head(todo[th]), t), pool[Home(t)].accept
  PROVE  Safe(t)' \/ UNCHANGED todo \/ Forwards(th, t)
<1>1. scenario' = scenario /\ Home(t)' = Home(t)
  BY Frame DEF Home
<1>2. Head(todo[th])[1] \in {"submit", "route", "accept", "enqueue"} /\ Head(todo[th])[2] = t
  BY DEF OnItsWay
<1>3. CASE GetPool(th)
  <2> DEFINE new == {<<"route", t>>}
  <2>1. Head(todo[th])[1] # "bind"
    BY <1>2
  <2>2. Moved(th, new, FALSE)
    BY <1>2, <1>3, <2>1, GetPoolMoves
  <2>3. (\E o \in new : OnItsWay(o, t)) /\ \A o \in new : o[1] # "stop"
    BY DEF OnItsWay
  <2> HIDE DEF new
  <2> QED BY <2>2, <2>3 DEF Forwards
<1>4. CASE MakePool(th)
  <2> DEFINE new == {<<"build", Wanted(th)>>, <<"route", t>>}
  <2>1. Head(todo[th])[1] # "bind"
    BY <1>2
  <2>2. Moved(th, new, FALSE)
    BY <1>2, <1>4, <2>1, MakePoolMoves
  <2>3. (\E o \in new : OnItsWay(o, t)) /\ \A o \in new : o[1] # "stop"
    BY DEF OnItsWay
  <2> HIDE DEF new
  <2> QED BY <2>2, <2>3 DEF Forwards
<1>5. CASE RefusePool(th)
  BY <1>5 DEF RefusePool
<1>6. CASE Route(th) /\ Parks(th)
  <2>1. group'.waiting = Append(group.waiting, <<t, ~CurrentIdle(th)>>) /\ group.waiting \in Seq(Tasks \X BOOLEAN)
    BY <1>2, <1>6, GroupStep DEF Types
  <2> DEFINE n == Len(group.waiting) + 1
  <2>2. n \in DOMAIN group'.waiting /\ group'.waiting[n] = <<t, ~CurrentIdle(th)>>
    BY <2>1
  <2>3. group'.waiting[n][1] = t
    BY <2>2
  <2> QED BY <2>2, <2>3 DEF Safe
<1>7. CASE Route(th) /\ ~Parks(th)
  <2> DEFINE new == {<<"accept", t, ~CurrentIdle(th)>>}
  <2>1. Moved(th, new, FALSE)
    BY <1>2, <1>7, RouteMoves DEF Parks
  <2>2. (\E o \in new : OnItsWay(o, t)) /\ \A o \in new : o[1] # "stop"
    BY DEF OnItsWay
  <2> HIDE DEF new
  <2> QED BY <2>1, <2>2 DEF Forwards
<1>8. CASE Accept(th)
  <2> DEFINE new == {<<"enqueue", t, Head(todo[th])[3]>>}
  <2>1. Moved(th, new, FALSE)
    BY <1>2, <1>8, AcceptMoves
  <2>2. (\E o \in new : OnItsWay(o, t)) /\ \A o \in new : o[1] # "stop"
    BY DEF OnItsWay
  <2> HIDE DEF new
  <2> QED BY <2>1, <2>2 DEF Forwards
<1>9. CASE Enqueue(th)
  <2>1. Range(pool'[Home(t)].queue) = Range(pool[Home(t)].queue) \cup {t}
    BY <1>2, <1>9, EnqueuePool
  <2>2. t \in Range(pool'[Home(t)'].queue)
    BY <1>1, <2>1
  <2> QED BY <2>2 DEF Safe
<1> QED BY <1>2, <1>3, <1>4, <1>5, <1>6, <1>7, <1>8, <1>9, Acts

LEMMA OnWayStep ==
  ASSUME Types, Scripts, Places, Starting, NEW th \in Threads, Step(th), NEW x \in Threads,
         NEW o \in Left(x), NEW t \in Tasks, OnItsWay(o, t), pool[Home(t)].accept
  PROVE  Safe(t)' \/ \E n \in Left(x)' : OnItsWay(n, t)
<1>1. CASE o \in Left(x)'
  BY <1>1
<1>2. CASE o \notin Left(x)'
  <2>1. x = th /\ todo[th] # <<>> /\ o = Head(todo[th])
    BY <1>2, Departs
  <2>2. Safe(t)' \/ UNCHANGED todo \/ Forwards(th, t)
    BY <2>1, OnWayMoves
  <2>3. CASE UNCHANGED todo
    <3>1. Left(x)' = Left(x)
      BY <2>3 DEF Left
    <3> QED BY <1>2, <3>1
  <2>4. CASE Forwards(th, t)
    <3>1. PICK new : Moved(th, new, FALSE) /\ \E n \in new : OnItsWay(n, t)
      BY <2>4 DEF Forwards
    <3>2. Left(th)' = new \cup After(th, FALSE)
      BY <3>1, OrdinaryLeft
    <3> QED BY <2>1, <3>1, <3>2
  <2> QED BY <2>2, <2>3, <2>4
<1> QED BY <1>1, <1>2

-----------------------------------------------------------------------------
(* Before the stop of a shutdown come its reactions.                       *)

LEMMA NoStop ==
  ASSUME NEW ops, NEW t, \A o \in Range(ops) : o[1] # "stop"
  PROVE  Covered(ops, t)
BY DEF Covered, Range

LEMMA CoverTail ==
  ASSUME NEW ops \in Seq(Op), ops # <<>>, NEW t, Covered(ops, t), ~OnItsWay(Head(ops), t)
  PROVE  Covered(Tail(ops), t)
<1> SUFFICES ASSUME NEW j \in DOMAIN Tail(ops), Tail(ops)[j][1] = "stop"
             PROVE  \E i \in 1 .. (j - 1) : OnItsWay(Tail(ops)[i], t)
  BY DEF Covered
<1>1. Len(ops) \in Nat /\ Len(ops) > 0 /\ DOMAIN ops = 1 .. Len(ops) /\ Head(ops) = ops[1]
  OBVIOUS
<1>2. DOMAIN Tail(ops) = 1 .. (Len(ops) - 1) /\ \A i \in 1 .. (Len(ops) - 1) : Tail(ops)[i] = ops[i + 1]
  OBVIOUS
<1>3. j \in Int /\ j + 1 \in DOMAIN ops /\ ops[j + 1][1] = "stop"
  BY <1>1, <1>2
<1>4. PICK i \in 1 .. j : OnItsWay(ops[i], t)
  BY <1>3 DEF Covered
<1>5. i # 1
  BY <1>1, <1>4
<1>6. i - 1 \in 1 .. (j - 1) /\ i - 1 \in 1 .. (Len(ops) - 1) /\ (i - 1) + 1 = i
  BY <1>1, <1>2, <1>3, <1>4, <1>5
<1>7. Tail(ops)[i - 1] = ops[i]
  BY <1>2, <1>6
<1> QED BY <1>4, <1>6, <1>7

LEMMA CoverJoin ==
  ASSUME NEW a \in Seq(Op), NEW ops \in Seq(Op), ops # <<>>, NEW t, Covered(ops, t), Covered(a, t),
         (\E o \in Range(a) : OnItsWay(o, t)) \/ ~OnItsWay(Head(ops), t)
  PROVE  Covered(a \o Tail(ops), t)
<1> DEFINE b == Tail(ops)
<1>1. b \in Seq(Op) /\ Len(b) \in Nat /\ Len(a) \in Nat /\ DOMAIN a = 1 .. Len(a) /\ DOMAIN b = 1 .. Len(b)
  OBVIOUS
<1>2. ~OnItsWay(Head(ops), t) => Covered(b, t)
  BY CoverTail
<1> HIDE DEF b
<1>3. /\ DOMAIN (a \o b) = 1 .. (Len(a) + Len(b))
      /\ \A i \in 1 .. Len(a) : (a \o b)[i] = a[i]
      /\ \A i \in 1 .. Len(b) : (a \o b)[Len(a) + i] = b[i]
  BY <1>1
<1> DEFINE c == a \o b
<1> SUFFICES ASSUME NEW j \in DOMAIN c, c[j][1] = "stop"
             PROVE  \E i \in 1 .. (j - 1) : OnItsWay(c[i], t)
  BY DEF Covered, b
<1>4. DOMAIN c = 1 .. (Len(a) + Len(b)) /\ (\A i \in 1 .. Len(a) : c[i] = a[i])
      /\ \A i \in 1 .. Len(b) : c[Len(a) + i] = b[i]
  BY <1>3
<1> HIDE DEF c
<1>5. CASE j \in 1 .. Len(a)
  <2>1. PICK i \in 1 .. (j - 1) : OnItsWay(a[i], t)
    BY <1>1, <1>4, <1>5 DEF Covered
  <2>2. i \in 1 .. Len(a)
    BY <1>1, <1>5
  <2> QED BY <1>4, <2>1, <2>2
<1>6. CASE j \notin 1 .. Len(a)
  <2>1. j \in Int /\ j > Len(a) /\ j - Len(a) \in 1 .. Len(b) /\ Len(a) + (j - Len(a)) = j
    BY <1>1, <1>4, <1>6
  <2>2. b[j - Len(a)][1] = "stop"
    BY <1>4, <2>1
  <2>3. CASE \E o \in Range(a) : OnItsWay(o, t)
    <3>1. PICK i \in DOMAIN a : OnItsWay(a[i], t)
      BY <2>3 DEF Range
    <3>2. i \in 1 .. (j - 1)
      BY <1>1, <2>1
    <3> QED BY <1>1, <1>4, <3>1, <3>2
  <2>4. CASE ~OnItsWay(Head(ops), t)
    <3>1. PICK i \in 1 .. ((j - Len(a)) - 1) : OnItsWay(b[i], t)
      BY <1>1, <1>2, <2>1, <2>2, <2>4 DEF Covered
    <3>2. i \in 1 .. Len(b) /\ Len(a) + i \in 1 .. (j - 1)
      BY <1>1, <2>1
    <3> QED BY <1>4, <3>1, <3>2
  <2> QED BY <2>3, <2>4
<1> QED BY <1>5, <1>6

\* An ordinary step covers as its new operations do.
LEMMA CoverMoved ==
  ASSUME Types, NEW th \in Threads, NEW new, Moved(th, new, FALSE), NEW t, Covered(todo[th], t),
         \A o \in new : o[1] # "stop", (\E o \in new : OnItsWay(o, t)) \/ ~OnItsWay(Head(todo[th]), t)
  PROVE  Covered(todo'[th], t)
<1>1. PICK ops : Ordinary(th, ops, FALSE) /\ Range(ops) = new
  BY DEF Moved
<1>2. todo[th] # <<>> /\ ops \in Seq(Op) /\ todo' = [todo EXCEPT ![th] = ops \o Rest_(th, FALSE)]
  BY <1>1 DEF Ordinary, Rewrites
<1>3. todo[th] \in Seq(Op) /\ todo'[th] = ops \o Tail(todo[th])
  BY <1>2 DEF Types, Rest_
<1>4. Covered(ops, t)
  BY <1>1, NoStop
<1> QED BY <1>1, <1>2, <1>3, <1>4, CoverJoin

\* Only a shutdown brings a stop of the scheduler, and in order with its reactions.
Quietly(th) == \E new : Moved(th, new, FALSE) /\ \A o \in new : o[1] # "stop"

LEMMA Quiets ==
  ASSUME NEW th \in Threads, NEW new, Moved(th, new, FALSE), \A o \in new : o[1] # "stop"
  PROVE  Quietly(th)
BY DEF Quietly

LEMMA QuietNone ==
  ASSUME NEW th \in Threads, Moved(th, {}, FALSE)
  PROVE  Quietly(th)
<1> DEFINE new == {}
<1>1. Moved(th, new, FALSE) /\ \A o \in new : o[1] # "stop"
  OBVIOUS
<1> HIDE DEF new
<1> QED BY <1>1, Quiets

LEMMA QuietOne ==
  ASSUME NEW th \in Threads, NEW a, Moved(th, {a}, FALSE), a[1] # "stop"
  PROVE  Quietly(th)
<1> DEFINE new == {a}
<1>1. Moved(th, new, FALSE) /\ \A o \in new : o[1] # "stop"
  OBVIOUS
<1> HIDE DEF new
<1> QED BY <1>1, Quiets

LEMMA QuietTwo ==
  ASSUME NEW th \in Threads, NEW a, NEW b, Moved(th, {a, b}, FALSE), a[1] # "stop", b[1] # "stop"
  PROVE  Quietly(th)
<1> DEFINE new == {a, b}
<1>1. Moved(th, new, FALSE) /\ \A o \in new : o[1] # "stop"
  OBVIOUS
<1> HIDE DEF new
<1> QED BY <1>1, Quiets

LEMMA QuietHandover ==
  ASSUME NEW th \in Threads, Moved(th, HandedSet, FALSE)
  PROVE  Quietly(th)
<1> DEFINE new == HandedSet
<1>1. Moved(th, new, FALSE)
  OBVIOUS
<1>2. \A o \in new : o[1] # "stop"
  BY DEF HandedSet
<1> HIDE DEF new
<1> QED BY <1>1, <1>2, Quiets

LEMMA MostlyQuiet ==
  ASSUME Types, Scripts, Places, NEW th \in Threads, Step(th), todo[th] # <<>>, Head(todo[th])[1] # "poll"
  PROVE  \/ UNCHANGED todo \/ Quietly(th)
         \/ BuildPool(th) \/ Start(th) \/ StartMain(th) \/ Finals(th) \/ Shutdown(th)
<1>1. GetPool(th) => Quietly(th)
  BY QuietNone, QuietOne, GetPoolMoves
<1>2. MakePool(th) => Quietly(th)
  <2> SUFFICES ASSUME MakePool(th) PROVE Quietly(th)
    OBVIOUS
  <2> DEFINE b == <<"build", Wanted(th)>>
             r == <<"route", Head(todo[th])[2]>>
             a == <<"add", Head(todo[th])[2], Head(todo[th])[3]>>
  <2>1. Moved(th, {b, r}, FALSE) \/ Moved(th, {b, a}, FALSE)
    BY MakePoolMoves
  <2>2. b[1] # "stop" /\ r[1] # "stop" /\ a[1] # "stop"
    OBVIOUS
  <2> HIDE DEF a, b, r
  <2> QED BY <2>1, <2>2, QuietTwo
<1>3. Route(th) => Quietly(th)
  BY QuietNone, QuietOne, RouteMoves
<1>5. Accept(th) => Quietly(th)
  BY QuietNone, QuietOne, QuietHandover, AcceptMoves
<1>6. Enqueue(th) => Quietly(th)
  BY QuietNone, QuietOne, EnqueueMoves
<1>7. Notify(th) => Quietly(th)
  BY QuietNone, QuietOne, NotifyMoves
<1>8. Unregister(th) => Quietly(th)
  BY QuietNone, QuietOne, UnregisterMoves
<1>9. Done(th) => Quietly(th)
  BY QuietNone, QuietHandover, DoneMoves
<1>10. AddIdle(th) => Quietly(th)
  BY QuietNone, QuietOne, AddIdleMoves
<1>11. AddIdleToAll(th) => Quietly(th)
  BY QuietNone, QuietOne, AddIdleToAllMoves
<1>12. RemoveIdle(th) => Quietly(th)
  BY QuietNone, QuietOne, RemoveIdleMoves
<1>13. RemoveIdleFromAll(th) => Quietly(th)
  BY QuietNone, QuietOne, RemoveIdleFromAllMoves
<1>14. Begin(th) => Quietly(th)
  BY QuietNone, QuietOne, BeginMoves
<1>15. StopScheduler(th) => Quietly(th)
  <2> DEFINE new == {<<"halt", p, Head(todo[th])[2]>> : p \in {q \in Pools : pool[q].made}}
  <2>1. \A o \in new : o[1] # "stop"
    OBVIOUS
  <2>2. StopScheduler(th) => Moved(th, new, FALSE)
    BY StopSchedulerMoves
  <2> HIDE DEF new
  <2> QED BY <2>1, <2>2, Quiets
<1>16. HaltPool(th) => Quietly(th)
  BY QuietNone, QuietOne, HaltPoolMoves
<1>17. Join(th) => Quietly(th)
  BY QuietNone, QuietOne, JoinMoves
<1>18. Wake(th) => Quietly(th) \/ UNCHANGED todo
  BY QuietNone, QuietOne, WakeMoves
<1>19. AwaitDiscard(th) => Quietly(th) \/ UNCHANGED todo
  BY QuietNone, QuietOne, AwaitDiscardMoves
<1>20. RefusePool(th) => UNCHANGED todo
  BY DEF RefusePool
<1>21. ~(PollLatched(th) \/ PollTake(th) \/ PollIdle(th) \/ PollDiscard(th) \/ PollExit(th))
  BY DEF PollLatched, PollTake, PollIdle, PollDiscard, PollExit, Serves, At
<1> QED BY <1>1, <1>2, <1>3, <1>5, <1>6, <1>7, <1>8, <1>9, <1>10, <1>11, <1>12, <1>13, <1>14, <1>15, <1>16, <1>17, <1>18, <1>19, <1>20, <1>21 DEF Step

\* A thread that serves its pool has no stop left, and takes on none.
LEMMA ServersDoNotStop ==
  ASSUME Types, Scripts, Places, Starting, NEW th \in Threads, Step(th),
         Head(todo[th])[1] \in {"poll", "mainpool", "finals"}, NEW o \in Left(th)', o[1] = "stop"
  PROVE  FALSE
<1>1. todo[th] # <<>>
  BY Acting
<1>2. o \in Left(th)
  <2>1. ~Shutdown(th)
    BY Heads
  <2> QED BY <2>1, Brought
<1>3. o # Head(todo[th]) /\ Left(th) = {Head(todo[th])} \cup Range(Tail(todo[th]))
  BY <1>1, HeadOp
<1>4. RankOf(Head(todo[th])) <= RankOf(o)
  BY <1>1, <1>2, <1>3, Rest1
<1>5. RankOf(o) = 2 /\ RankOf(Head(todo[th])) \in {6, 9}
  BY DEF RankOf, Rank, Closing
<1> QED BY <1>4, <1>5

LEMMA ShutdownCovers ==
  ASSUME Types, NEW th \in Threads, Shutdown(th), NEW s \in scenario.shutdown, Covered(todo[th], s)
  PROVE  Covered(todo'[th], s)
<1> DEFINE a == Submits(scenario.shutdown)
           z == <<"stop", Head(todo[th])[2]>>
<1>1. todo[th] # <<>> /\ todo[th] \in Seq(Op) /\ Head(todo[th]) \in Op /\ Head(todo[th])[1] = "shutdown"
  BY Heads, HeadOp
<1>2. /\ a \in Seq(Op) /\ Range(a) = {<<"submit", t>> : t \in scenario.shutdown}
      /\ \A o \in Range(a) : o[1] = "submit"
  BY Cast, SubmitsOf
<1>3. z \in Op /\ z[1] = "stop"
  BY <1>1, Arguments, Operations
<1>4. todo'[th] = (a \o <<z>>) \o Tail(todo[th])
  BY DEF Shutdown, Do, Arg, Types
<1>5. <<"submit", s>> \in Range(a) /\ OnItsWay(<<"submit", s>>, s)
  BY <1>2 DEF OnItsWay
<1> HIDE DEF a, z
<1>6. a \o <<z>> \in Seq(Op) /\ Range(a \o <<z>>) = Range(a) \cup Range(<<z>>)
  <2> DEFINE y == <<z>>
  <2>1. y \in Seq(Op)
    BY <1>3
  <2> HIDE DEF y
  <2>2. a \o y \in Seq(Op) /\ Range(a \o y) = Range(a) \cup Range(y)
    BY <1>2, <2>1, RangeJoin
  <2> QED BY <2>2 DEF y
<1>7. Covered(a \o <<z>>, s)
  <2>1. PICK i \in DOMAIN a : a[i] = <<"submit", s>>
    BY <1>5 DEF Range
  <2>2. Len(a) \in Nat /\ DOMAIN a = 1 .. Len(a)
    BY <1>2
  <2>3. /\ DOMAIN (a \o <<z>>) = 1 .. (Len(a) + 1)
        /\ \A k \in 1 .. Len(a) : (a \o <<z>>)[k] = a[k]
    BY <1>2, <2>2
  <2> DEFINE c == a \o <<z>>
  <2>4. DOMAIN c = 1 .. (Len(a) + 1) /\ \A k \in 1 .. Len(a) : c[k] = a[k]
    BY <2>3
  <2> HIDE DEF c
  <2>5. ASSUME NEW j \in DOMAIN c, c[j][1] = "stop" PROVE \E k \in 1 .. (j - 1) : OnItsWay(c[k], s)
    <3>1. j \notin 1 .. Len(a)
      BY <1>2, <2>2, <2>4, <2>5 DEF Range
    <3>2. i \in 1 .. (j - 1) /\ i \in 1 .. Len(a)
      BY <2>1, <2>2, <2>4, <3>1
    <3>3. c[i] = <<"submit", s>>
      BY <2>1, <2>4, <3>2
    <3> QED BY <1>5, <3>2, <3>3
  <2> QED BY <2>5 DEF Covered, c
<1>8. \E o \in Range(a \o <<z>>) : OnItsWay(o, s)
  BY <1>5, <1>6
<1> QED BY <1>1, <1>4, <1>6, <1>7, <1>8, CoverJoin

\* The threads that start with serving a pool have no stop to cover.
LEMMA OthersCovered ==
  ASSUME Types, Scripts, Places, Starting, NEW th \in Threads, Step(th), NEW x \in Threads \ {th},
         NEW s, Covered(todo[x], s)
  PROVE  Covered(todo'[x], s)
<1>1. CASE \A o \in Left(x)' : o[1] # "stop"
  BY <1>1, NoStop DEF Left
<1>2. CASE \E o \in Left(x)' : o[1] = "stop"
  <2>1. CASE UNCHANGED todo
    BY <2>1
  <2>2. CASE Ordered(th)
    BY <2>2, OrdinaryLeft DEF Ordered
  <2>3. CASE StartMain(th) \/ PollExit(th) \/ Finals(th)
    BY <2>3, StartMainMoves, PollExitMoves, FinalsMoves
  <2>4. CASE BuildPool(th) \/ Start(th)
    <3>1. PICK F : Launched(th, F)
      BY <2>4, BuildPoolMoves, StartMoves
    <3>2. \A y \in F : Left(y)' = {<<"poll">>}
      BY <3>1, LaunchedLeft
    <3>3. x \notin F
      BY <1>2, <3>2
    <3> QED BY <3>1, <3>3 DEF Launched
  <2> QED BY <2>1, <2>2, <2>3, <2>4, Kinds
<1> QED BY <1>1, <1>2

LEMMA CoverStep ==
  ASSUME Types, Scripts, Places, Starting, Stopping, Gentle, Kept, ~forced, NEW th \in Threads, Step(th),
         NEW x \in Threads, NEW s \in scenario.shutdown
  PROVE  Safe(s)' \/ Covered(todo'[x], s)
<1>1. s \in Tasks /\ Home(s) \in Pools
  BY Cast
<1>2. SUFFICES ASSUME ~(Safe(s)') PROVE Covered(todo'[x], s)
  OBVIOUS
<1>3. ~Safe(s) /\ Covered(todo[x], s) /\ Covered(todo[th], s)
  BY <1>1, <1>2, SafeStep DEF Kept
<1>4. pool[Home(s)].accept
  BY <1>1, <1>3 DEF Kept, Stopping
<1>5. CASE x # th
  BY <1>3, <1>5, OthersCovered
<1>6. CASE x = th
  <2>1. todo[th] # <<>>
    BY Acting
  <2>2. CASE Head(todo[th])[1] \in {"poll", "mainpool", "finals"}
    <3>1. \A o \in Left(th)' : o[1] # "stop"
      BY <2>2, ServersDoNotStop
    <3> QED BY <1>6, <3>1, NoStop DEF Left
  <2>3. CASE OnItsWay(Head(todo[th]), s)
    <3>1. UNCHANGED todo \/ Forwards(th, s)
      BY <1>1, <1>2, <1>4, <2>1, <2>3, OnWayMoves
    <3>2. CASE Forwards(th, s)
      <4>1. PICK new : /\ Moved(th, new, FALSE)
                       /\ \E o \in new : OnItsWay(o, s)
                       /\ \A o \in new : o[1] # "stop"
        BY <3>2 DEF Forwards
      <4> QED BY <1>3, <1>6, <4>1, CoverMoved
    <3> QED BY <1>3, <1>6, <3>1, <3>2
  <2>4. CASE /\ ~OnItsWay(Head(todo[th]), s)
             /\ Head(todo[th])[1] \notin {"poll", "mainpool", "finals"}
    <3>1. CASE UNCHANGED todo
      BY <1>3, <1>6, <3>1
    <3>2. CASE Quietly(th)
      <4>1. PICK new : Moved(th, new, FALSE) /\ \A o \in new : o[1] # "stop"
        BY <3>2 DEF Quietly
      <4> QED BY <1>3, <1>6, <2>4, <4>1, CoverMoved
    <3>3. CASE Shutdown(th)
      BY <1>3, <1>6, <3>3, ShutdownCovers
    <3>4. CASE BuildPool(th) \/ Start(th)
      <4>1. todo'[th] = Tail(todo[th]) /\ todo[th] \in Seq(Op)
        BY <3>4, BuildPoolMoves, StartMoves DEF Launched, Types
      <4> QED BY <1>3, <1>6, <2>1, <2>4, <4>1, CoverTail
    <3>5. ~StartMain(th) /\ ~Finals(th)
      BY <2>4 DEF StartMain, Finals, At
    <3> QED BY <2>1, <2>4, <3>1, <3>2, <3>3, <3>4, <3>5, MostlyQuiet
  <2> QED BY <2>2, <2>3, <2>4
<1> QED BY <1>5, <1>6

-----------------------------------------------------------------------------
(* What a shutdown and the tasks of the other pools leave to be run.       *)

LEMMA ReactionsSafe ==
  ASSUME Types, Scripts, Places, Starting, Gentle, Kept, ~forced, NEW th \in Threads, Step(th),
         ~scheduler'.running, NEW s \in scenario.shutdown
  PROVE  Safe(s)'
<1>1. s \in Tasks
  BY Cast
<1>2. CASE ~scheduler.running
  BY <1>1, <1>2, SafeStep DEF Kept
<1>3. CASE scheduler.running
  <2>1. StopScheduler(th)
    BY <1>3, SchedulerTyped
  <2>2. todo[th] # <<>> /\ Head(todo[th])[1] = "stop" /\ Head(todo[th]) = todo[th][1] /\ 1 \in DOMAIN todo[th]
    BY <2>1, Heads, HeadOp
  <2>3. ~Covered(todo[th], s)
    BY <2>2 DEF Covered
  <2> QED BY <1>1, <2>3, SafeStep DEF Kept
<1> QED BY <1>2, <1>3

LEMMA BequestOf ==
  ASSUME Types, NEW t, NEW u \in Bequest(t)
  PROVE  u \in Tasks /\ Home(u) \in Pools /\ Persistent(Home(u)) /\ ~Persistent(Home(t))
         /\ <<"submit", u>> \in Range(scenario.body[t])
BY Cast DEF Bequest

LEMMA BequestStays ==
  ASSUME NEW th \in Threads, Step(th), NEW t
  PROVE  Bequest(t)' = Bequest(t)
<1>1. scenario' = scenario
  BY Frame
<1> QED BY <1>1 DEF Bequest, Persistent, Home

LEMMA RunnersBequeath ==
  ASSUME Types, Scripts, Places, Starting, Gentle, Kept, ~forced, NEW th \in Threads, Step(th),
         NEW x \in Threads, NEW t \in Tasks, <<"done", t>> \in Left(x)', NEW u \in Bequest(t)
  PROVE  Safe(u)' \/ \E o \in Left(x)' : OnItsWay(o, u)
<1>1. u \in Tasks /\ Home(u) \in Pools /\ pool[Home(u)].accept /\ <<"submit", u>> \in Range(scenario.body[t])
  BY BequestOf DEF Gentle
<1>2. CASE <<"done", t>> \in Left(x)
  <2>1. Safe(u) \/ \E o \in Left(x) : OnItsWay(o, u)
    BY <1>2 DEF Kept
  <2> QED BY <1>1, <2>1, SafeStep, OnWayStep
<1>3. CASE <<"done", t>> \notin Left(x)
  <2> DEFINE d == <<"done", t>>
  <2>1. d \in Left(x)' /\ d \notin Left(x) /\ d[1] = "done" /\ d[1] # "poll"
    BY <1>3
  <2> HIDE DEF d
  <2>2. x = th /\ PollTake(th) /\ d = <<"done", Head(pool[PoolOf(th)].queue)>>
    BY <2>1, Brought
  <2>3. t = Head(pool[PoolOf(th)].queue)
    BY <2>2 DEF d
  <2> DEFINE new == Range(scenario.body[Head(pool[PoolOf(th)].queue)])
                      \cup {<<"done", Head(pool[PoolOf(th)].queue)>>}
  <2>4. Moved(th, new, TRUE) /\ <<"submit", u>> \in new
    BY <1>1, <2>2, <2>3, PollTakeMoves
  <2> HIDE DEF new
  <2>5. Left(th)' = new \cup After(th, TRUE)
    BY <2>4, OrdinaryLeft
  <2>6. <<"submit", u>> \in Left(x)'
    BY <2>2, <2>4, <2>5
  <2>7. OnItsWay(<<"submit", u>>, u)
    BY DEF OnItsWay
  <2> QED BY <2>6, <2>7
<1> QED BY <1>2, <1>3

LEMMA BequestsSafe ==
  ASSUME Types, Scripts, Places, Starting, Gentle, Kept, ~forced, NEW th \in Threads, Step(th),
         NEW t \in ran', NEW u \in Bequest(t)
  PROVE  Safe(u)'
<1>1. u \in Tasks
  BY BequestOf
<1>2. CASE t \in ran
  BY <1>1, <1>2, SafeStep DEF Kept
<1>3. CASE t \notin ran
  <2>1. Done(th)
    BY <1>3, Frame
  <2>2. todo[th] # <<>> /\ Head(todo[th])[1] = "done" /\ Head(todo[th])[2] = t /\ Head(todo[th]) \in Op
    BY <1>3, <2>1, Heads, HeadOp DEF Done, Arg
  <2>3. Head(todo[th]) = <<"done", t>> /\ t \in Tasks /\ Left(th) = {Head(todo[th])} \cup Range(Tail(todo[th]))
    BY <2>2, HeadOp, Arguments
  <2>4. Safe(u) \/ \E o \in Left(th) : OnItsWay(o, u)
    BY <2>3 DEF Kept
  <2>5. ASSUME NEW o \in Left(th), OnItsWay(o, u) PROVE FALSE
    <3>1. o \in Range(Tail(todo[th]))
      BY <2>2, <2>3, <2>5 DEF OnItsWay
    <3>2. RankOf(Head(todo[th])) <= RankOf(o)
      BY <2>2, <3>1, Rest1
    <3>3. RankOf(Head(todo[th])) = 3 /\ RankOf(o) \in {0, 2}
      BY <2>2, <2>5 DEF OnItsWay, RankOf, Rank, Closing
    <3> QED BY <3>2, <3>3
  <2> QED BY <1>1, <2>4, <2>5, SafeStep
<1> QED BY <1>2, <1>3

-----------------------------------------------------------------------------
(* A pool is left by its workers only when it has nothing more to do.      *)

\* The workers of a pool that starts serve it.
LEMMA BegunServes ==
  ASSUME Types, Scripts, Places, Starting, NEW th \in Threads, Step(th), NEW p \in Pools,
         ~Begun(p), Begun(p)'
  PROVE  \E w \in Workers(p) : Has(w, "poll")'
<1>0. PICK w \in Workers(p) : w \in Threads
  BY Cast
<1>1. CASE StartMain(th) /\ p = "main"
  <2>1. "main" \in Workers(p) /\ th = "main" /\ Left(th)' = {<<"poll">>} \cup Range(Tail(todo[th]))
    BY <1>1, StartMainMoves, Cast
  <2>2. <<"poll">> \in Left("main")'
    BY <2>1
  <2> QED BY <2>1, <2>2 DEF Has
<1>2. CASE Start(th) /\ p # "main" /\ pool[p].made
  <2> DEFINE now == {q \in Pools \ {"main"} : pool[q].made}
  <2>1. PICK F : Launched(th, F) /\ (w \in F <=> p \in now)
    BY <1>0, <1>2, StartMoves
  <2>2. w \in F
    BY <1>2, <2>1
  <2>3. <<"poll">> \in Left(w)'
    BY <2>1, <2>2, LaunchedLeft
  <2> QED BY <1>0, <2>3 DEF Has
<1>3. CASE BuildPool(th) /\ p = Head(todo[th])[2] /\ p # "main" /\ scheduler.started
  <2>1. PICK F : Launched(th, F) /\ F = Workers(p)
    BY <1>3, BuildPoolMoves
  <2>2. <<"poll">> \in Left(w)'
    BY <1>0, <2>1, LaunchedLeft
  <2> QED BY <1>0, <2>2 DEF Has
<1> QED BY <1>1, <1>2, <1>3, BegunStep

\* A task that is safe in a pool with nothing queued, nobody parked and nobody
\* serving has been run.
LEMMA LastOut ==
  ASSUME Types, Scripts, WaitersCount, NEW p \in Pools, pool[p].queue = <<>>, ~(pool[p].external_waiters > 0),
         \A w \in Workers(p) : ~Has(w, "done"), NEW t \in Tasks, Home(t) = p, Safe(t)
  PROVE  t \in ran
<1>1. Cardinality(Parked(p)) \in Nat /\ Cardinality(HandingTo(p)) \in Nat /\ IsFiniteSet(HandingTo(p))
  BY ParkedPlaces
<1>2. pool[p].external_waiters = Cardinality(Parked(p)) + Cardinality(HandingTo(p))
  BY DEF WaitersCount
<1>3. Cardinality(Parked(p)) = 0 /\ Cardinality(HandingTo(p)) = 0
  BY <1>1, <1>2
<1>4. HandingTo(p) = {}
  BY <1>1, <1>3, FS_EmptySet
<1>5. IsFiniteSet(Parked(p))
  <2>1. group.waiting \in Seq(Tasks \X BOOLEAN)
    BY DEF Types
  <2>2. IsFiniteSet(Places_(group.waiting, Waiters(p)))
    BY <2>1, PlacesFinite
  <2> QED BY <2>2, ParkedPlaces
<1>6. Parked(p) = {}
  BY <1>3, <1>5, FS_EmptySet
<1>7. t \notin Range(pool[Home(t)].queue)
  BY RangeOf
<1>8. ASSUME NEW i \in DOMAIN group.waiting, group.waiting[i][1] = t PROVE FALSE
  BY <1>6, <1>8 DEF Parked
<1>9. ASSUME NEW x \in Threads, <<"done", t>> \in Left(x) PROVE FALSE
  <2>1. x \in Workers(Home(t))
    <3> DEFINE d == <<"done", t>>
    <3>1. d[1] = "done" /\ d[2] = t /\ d \in Left(x)
      BY <1>9
    <3> HIDE DEF d
    <3> QED BY <3>1 DEF Scripts
  <2>2. Has(x, "done")
    BY <1>9 DEF Has
  <2> QED BY <2>1, <2>2
<1>10. ASSUME NEW x \in Threads, HandedOver(x, t) PROVE FALSE
  <2>1. <<"unregister", p>> \in Left(x)
    BY <1>10 DEF HandedOver
  <2>2. x \in HandingTo(p)
    BY <2>1, ParkedPlaces
  <2> QED BY <1>4, <2>2
<1> QED BY <1>7, <1>8, <1>9, <1>10 DEF Safe

\* The last worker to leave a pool.
LEMMA LastLeaves ==
  ASSUME Types, Scripts, Places, Starting, WaitersCount, Stopping, Gentle, Closed, Kept, ~forced,
         NEW th \in Threads, Step(th), NEW p \in Pools, ~Exited(p), Exited(p)'
  PROVE  /\ ~scheduler'.running /\ (Persistent(p) => Lasts(p)')
         /\ \A t \in Tasks : Home(t) = p /\ Safe(t) => t \in ran
         /\ ran' = ran /\ ~scheduler.running
<1>0. scenario' = scenario /\ \A w \in Workers(p) : w \in Threads
  BY Frame, Cast
<1>1. Begun(p)' /\ \A w \in Workers(p) : ~(Has(w, "poll")')
  BY <1>0 DEF Exited, Workers
<1>2. Begun(p)
  BY <1>1, BegunServes
<1>3. PICK w \in Workers(p) : Has(w, "poll")
  BY <1>2 DEF Exited
<1>4. w = th /\ PollExit(th)
  BY <1>0, <1>1, <1>3, PollEnds
<1>5. PoolOf(th) = p
  BY <1>3, <1>4, PoolOfWorker
<1>6. /\ At(th, "poll") /\ ~pool[p].running /\ pool[p].queue = <<>> /\ ~(pool[p].external_waiters > 0)
      /\ UNCHANGED <<scheduler, pool, ran>>
  BY <1>4, <1>5 DEF PollExit, GoesOn, history
<1>7. ~scheduler.running
  BY <1>6 DEF Stopping
<1>8. pool[p].made
  BY <1>2 DEF Begun, Places
<1>9. Persistent(p) => Lasts(p)'
  <2> SUFFICES ASSUME Persistent(p) PROVE Lasts(p)'
    OBVIOUS
  <2>1. Lasts(p)
    BY <1>6, <1>8 DEF Closed
  <2>2. ~(Has("main", "finals")') /\ \A q \in Pools : Gone(q) => Gone(q)'
    BY <2>1, AfterMain DEF Lasts
  <2> QED BY <1>0, <1>6, <2>1, <2>2 DEF Lasts, Persistent
<1>10. ASSUME NEW v \in Workers(p) PROVE ~Has(v, "done")
  <2>1. CASE v = th
    <3>1. \A o \in Left(th) : o = <<"poll">> \/ RankOf(o) > 6
      BY <1>6, AfterPoll
    <3>2. \A o : o[1] = "done" => RankOf(o) = 3
      BY DEF RankOf, Rank
    <3> QED BY <2>1, <3>1, <3>2 DEF Has
  <2>2. CASE v # th
    <3>1. Left(v)' = Left(v)
      BY <1>0, <1>4, <2>2, PollExitMoves
    <3>2. ~Has(v, "poll")
      BY <1>1, <3>1 DEF Has
    <3> QED BY <1>0, <3>2 DEF Scripts, Has
  <2> QED BY <2>1, <2>2
<1>11. \A t \in Tasks : Home(t) = p /\ Safe(t) => t \in ran
  BY <1>6, <1>10, LastOut
<1> QED BY <1>6, <1>7, <1>9, <1>11

LEMMA ExitedStep ==
  ASSUME Types, Scripts, Places, Starting, WaitersCount, Stopping, Gentle, Closed, Kept, ~forced,
         NEW th \in Threads, Step(th), NEW p \in Pools, Exited(p)'
  PROVE  /\ ~scheduler'.running /\ (Persistent(p) => Lasts(p)')
         /\ \A s \in scenario.shutdown : Home(s) = p => s \in ran'
         /\ \A t \in ran' : \A u \in Bequest(t) : Home(u) = p => u \in ran'
<1>0. scenario' = scenario /\ ran \subseteq ran' /\ \A s \in scenario.shutdown : s \in Tasks
  BY Frame, Cast DEF Done
<1>1. CASE ~Exited(p)
  <2>1. ASSUME NEW s \in scenario.shutdown, Home(s) = p PROVE s \in ran'
    BY <1>0, <1>1, <2>1, LastLeaves DEF Kept
  <2>2. ASSUME NEW t \in ran', NEW u \in Bequest(t), Home(u) = p PROVE u \in ran'
    <3>1. t \in ran /\ u \in Tasks
      BY <1>1, LastLeaves, BequestOf
    <3>2. Safe(u)
      BY <3>1 DEF Kept
    <3> QED BY <1>1, <2>2, <3>1, <3>2, LastLeaves
  <2> QED BY <1>1, <2>1, <2>2, LastLeaves
<1>2. CASE Exited(p)
  <2>1. /\ ~scheduler.running /\ (Persistent(p) => Lasts(p))
        /\ \A s \in scenario.shutdown : Home(s) = p => s \in ran
        /\ \A t \in ran : \A u \in Bequest(t) : Home(u) = p => u \in ran
    BY <1>2 DEF Kept
  <2>2. ~scheduler'.running
    BY <2>1, SchedulerTyped DEF StopScheduler
  <2>3. ASSUME Persistent(p) PROVE Lasts(p)'
    <3>1. Lasts(p)
      BY <2>1, <2>3
    <3>2. /\ ~(Has("main", "finals")') /\ \A q \in Pools : Gone(q) => Gone(q)'
          /\ \A q \in Pools : pool'[q].made = pool[q].made
      BY <3>1, AfterMain DEF Lasts
    <3> QED BY <1>0, <3>1, <3>2 DEF Lasts, Persistent
  <2>4. ASSUME NEW t \in ran', t \notin ran, NEW u \in Bequest(t), Home(u) = p PROVE FALSE
    <3>1. Done(th)
      BY <2>4, Frame
    <3>2. todo[th] # <<>> /\ Head(todo[th])[1] = "done" /\ Head(todo[th])[2] = t /\ Head(todo[th]) \in Left(th)
      BY <2>4, <3>1, Heads, HeadOp DEF Done, Arg
    <3>3. th \in Workers(Home(t)) /\ Has(th, "poll")
      BY <3>2 DEF Scripts
    <3>4. t \in Tasks /\ Home(t) \in Pools
      BY <3>2, HeadOp, Arguments, Cast
    <3>5. Lasts(p) /\ ~Persistent(Home(t))
      BY <2>1, <2>4, BequestOf
    <3>6. th # "main"
      BY <3>3, <3>5 DEF Lasts, Scripts
    <3>7. Home(t) # "main"
      BY <3>3, <3>4, <3>6, Cast
    <3>8. Begun(Home(t))
      BY <3>2, <3>3, <3>4, <3>7 DEF Starting
    <3>9. pool[Home(t)].made
      BY <3>7, <3>8 DEF Begun
    <3>10. Gone(Home(t))
      BY <3>4, <3>5, <3>9 DEF Lasts
    <3> QED BY <3>2, <3>3, <3>6, <3>10 DEF Gone
  <2> QED BY <1>0, <2>1, <2>2, <2>3, <2>4
<1> QED BY <1>1, <1>2

LEMMA KeptStep ==
  ASSUME Types, Scripts, Places, Starting, WaitersCount, Stopping, Gentle, Closed, Kept,
         NEW th \in Threads, Step(th)
  PROVE  Kept'
<1>0. scenario' = scenario /\ (~forced' => ~forced)
  BY Frame, ForcedStep
<1> SUFFICES ASSUME ~forced, ~forced'
             PROVE
    /\ ~scheduler'.running => \A s \in scenario.shutdown : Safe(s)'
    /\ \A x \in Threads : \A s \in scenario.shutdown : Safe(s)' \/ Covered(todo'[x], s)
    /\ \A x \in Threads : \A t \in Tasks : <<"done", t>> \in Left(x)' =>
         \A u \in Bequest(t)' : Safe(u)' \/ \E o \in Left(x)' : OnItsWay(o, u)
    /\ \A t \in ran' : \A u \in Bequest(t)' : Safe(u)'
    /\ \A p \in Pools : Exited(p)' =>
         /\ ~scheduler'.running /\ (Persistent(p)' => Lasts(p)')
         /\ \A s \in scenario.shutdown : Home(s)' = p => s \in ran'
         /\ \A t \in ran' : \A u \in Bequest(t)' : Home(u)' = p => u \in ran'
  BY <1>0 DEF Kept, Covered, OnItsWay
<1>1. ~scheduler'.running => \A s \in scenario.shutdown : Safe(s)'
  BY ReactionsSafe
<1>2. \A x \in Threads : \A s \in scenario.shutdown : Safe(s)' \/ Covered(todo'[x], s)
  BY CoverStep
<1>3. ASSUME NEW x \in Threads, NEW t \in Tasks, <<"done", t>> \in Left(x)', NEW u \in Bequest(t)'
      PROVE  Safe(u)' \/ \E o \in Left(x)' : OnItsWay(o, u)
  <2>1. u \in Bequest(t)
    BY <1>3, BequestStays
  <2> QED BY <1>3, <2>1, RunnersBequeath
<1>4. ASSUME NEW t \in ran', NEW u \in Bequest(t)' PROVE Safe(u)'
  <2>1. u \in Bequest(t)
    BY <1>4, BequestStays
  <2> QED BY <1>4, <2>1, BequestsSafe
<1>5. ASSUME NEW p \in Pools, Exited(p)'
      PROVE  /\ ~scheduler'.running /\ (Persistent(p)' => Lasts(p)')
             /\ \A s \in scenario.shutdown : Home(s)' = p => s \in ran'
             /\ \A t \in ran' : \A u \in Bequest(t)' : Home(u)' = p => u \in ran'
  <2>1. (Persistent(p)' <=> Persistent(p)) /\ \A t : Home(t)' = Home(t)
    BY <1>0 DEF Persistent, Home
  <2>2. \A t : Bequest(t)' = Bequest(t)
    BY BequestStays
  <2>3. /\ ~scheduler'.running /\ (Persistent(p) => Lasts(p)')
        /\ \A s \in scenario.shutdown : Home(s) = p => s \in ran'
        /\ \A t \in ran' : \A u \in Bequest(t) : Home(u) = p => u \in ran'
    BY <1>5, ExitedStep
  <2> QED BY <2>1, <2>2, <2>3
<1> QED BY <1>1, <1>2, <1>3, <1>4, <1>5

-----------------------------------------------------------------------------
(* The invariant holds, and a stop reaches everyone.                       *)

LEMMA InitInv ==
  ASSUME Init
  PROVE  Inv
<1>1. Sound /\ Types
  BY InitSound DEF Sound
<1>2. /\ scheduler.running /\ scheduler.building = Nobody /\ ~forced /\ ran = {}
      /\ Has("main", "mainpool") /\ Has("main", "finals")
  BY InitMain DEF Init
<1>3. \A x \in Threads : \A o \in Left(x) : o[1] \notin {"halt", "stop", "done"}
  BY InitKinds
<1>4. Stopping
  <2>1. \A p \in Pools : ~Halting(p)
    BY <1>3 DEF Halting
  <2> QED BY <1>2, <2>1, InitPools DEF Stopping
<1>5. Gentle
  BY <1>3, InitPools DEF Gentle
<1>6. Closed
  BY <1>2, InitPools DEF Closed
<1>7. Kept
  <2>1. \A x \in Threads : \A s : Covered(todo[x], s)
    BY <1>3, NoStop DEF Left
  <2>2. \A x \in Threads : \A t \in Tasks : <<"done", t>> \notin Left(x)
    <3> SUFFICES ASSUME NEW x \in Threads, NEW t \in Tasks, <<"done", t>> \in Left(x) PROVE FALSE
      OBVIOUS
    <3> DEFINE d == <<"done", t>>
    <3>1. d \in Left(x) /\ d[1] = "done"
      OBVIOUS
    <3> HIDE DEF d
    <3> QED BY <1>3, <3>1
  <2>3. ASSUME NEW p \in Pools PROVE ~Exited(p)
    <3>1. CASE p = "main"
      BY <1>2, <3>1 DEF Exited, Begun
    <3>2. CASE p # "main"
      BY <3>2, InitPools DEF Exited, Begun
    <3> QED BY <3>1, <3>2
  <2> QED BY <1>2, <2>1, <2>2, <2>3 DEF Kept
<1> QED BY <1>1, <1>4, <1>5, <1>6, <1>7 DEF Inv

LEMMA InvStep ==
  ASSUME Inv, [Next]_vars
  PROVE  Inv'
<1>1. Sound'
  BY SoundStep DEF Inv
<1>2. ASSUME NEW th \in Threads, Step(th) PROVE Stopping' /\ Gentle' /\ Closed' /\ Kept'
  BY <1>2, StoppingStep, GentleStep, ClosedStep, KeptStep DEF Inv, Sound
<1>3. CASE UNCHANGED vars
  <2>0. /\ scenario' = scenario /\ scheduler' = scheduler /\ pool' = pool /\ group' = group
        /\ todo' = todo /\ forced' = forced /\ ran' = ran
    BY <1>3 DEF vars, history
  <2>1. Stopping'
    BY <2>0 DEF Inv, Stopping, Halting, Has, Left, Persistent
  <2>2. Gentle'
    BY <2>0 DEF Inv, Gentle, Left, Persistent
  <2>3. Closed'
    BY <2>0 DEF Inv, Closed, Lasts, Gone, Has, Left, Persistent, Workers
  <2>4. Kept'
    <3>1. \A t : (Safe(t)' <=> Safe(t)) /\ Bequest(t)' = Bequest(t) /\ Home(t)' = Home(t)
      BY <2>0 DEF Safe, HandedOver, Left, Home, Bequest, Persistent
    <3>2. \A x : Left(x)' = Left(x)
      BY <2>0 DEF Left
    <3>3. \A p : (Exited(p)' <=> Exited(p)) /\ (Lasts(p)' <=> Lasts(p)) /\ (Persistent(p)' <=> Persistent(p))
      BY <2>0 DEF Exited, Begun, Lasts, Gone, Has, Left, Persistent, Workers
    <3>4. \A o, t : OnItsWay(o, t)' <=> OnItsWay(o, t)
      BY DEF OnItsWay
    <3>5. \A x, s : Covered(todo[x], s)' <=> Covered(todo[x], s)
      BY <2>0 DEF Covered, OnItsWay
    <3> QED BY <2>0, <3>1, <3>2, <3>3, <3>4, <3>5 DEF Inv, Kept
  <2> QED BY <1>1, <2>1, <2>2, <2>3, <2>4 DEF Inv
<1> QED BY <1>1, <1>2, <1>3 DEF Inv, Next, Rest

\* Once start has returned, the pool of a task that is safe has been left.
LEMMA AllExited ==
  ASSUME Inv, Returned, NEW t \in Tasks, Safe(t)
  PROVE  t \in ran \/ Exited(Home(t))
<1>0. Home(t) \in Pools /\ "main" \in Threads /\ Types
  BY Cast DEF Inv, Sound
<1>1. todo["main"] = <<>> /\ Left("main") = {}
  BY RangeOf DEF Returned, Left
<1>2. SUFFICES ASSUME t \notin ran PROVE Exited(Home(t))
  OBVIOUS
<1> DEFINE p == Home(t)
<1>3. \A k : ~Has("main", k)
  BY <1>1 DEF Has
<1>4. pool[p].made
  <2>1. CASE t \in Range(pool[p].queue)
    BY <1>0, <2>1 DEF Inv, Sound, Places
  <2>2. CASE \E i \in DOMAIN group.waiting : group.waiting[i][1] = t
    BY <2>2 DEF Inv, Sound, Places
  <2>3. ASSUME NEW x \in Threads, <<"done", t>> \in Left(x) PROVE pool[p].made
    <3> DEFINE d == <<"done", t>>
    <3>1. d \in Left(x) /\ d[1] = "done" /\ d[2] = t
      BY <2>3
    <3> HIDE DEF d
    <3>2. x \in Workers(p) /\ x # "main"
      BY <1>1, <3>1 DEF Inv, Sound, Scripts
    <3>3. p # "main"
      BY <1>0, <3>2, Cast
    <3>4. todo[x] # <<>>
      BY <3>1, RangeOf DEF Left
    <3> QED BY <1>0, <3>2, <3>3, <3>4 DEF Inv, Sound, Starting, Begun
  <2>4. ASSUME NEW x \in Threads, HandedOver(x, t) PROVE pool[p].made
    BY <2>4 DEF HandedOver, Inv, Sound, Places
  <2> QED BY <1>2, <2>1, <2>2, <2>3, <2>4 DEF Safe
<1>5. Gone(p)
  BY <1>0, <1>1, <1>3, <1>4 DEF Inv, Closed
<1>6. Begun(p)
  BY <1>3, <1>4 DEF Begun, Inv, Sound, Starting
<1>7. ASSUME NEW w \in Workers(p) PROVE ~Has(w, "poll")
  <2>1. todo[w] = <<>>
    BY <1>1, <1>5 DEF Gone
  <2> QED BY <2>1, RangeOf DEF Has, Left
<1> QED BY <1>6, <1>7 DEF Exited

LEMMA InvReaches ==
  ASSUME Inv
  PROVE  StopReachesAll
<1>0. Types /\ Stopping /\ Kept
  BY DEF Inv, Sound
<1>1. NoPoolIsMissed
  BY <1>0, NothingMissed
<1>2. ASSUME Returned, ~forced PROVE ~scheduler.running
  <2>1. \A k : ~Has("main", k)
    BY <1>2, RangeOf DEF Returned, Has, Left
  <2> QED BY <1>0, <2>1 DEF Stopping
<1>3. ShutdownIsSeen
  <2> SUFFICES ASSUME Returned, ~forced, NEW s \in scenario.shutdown PROVE s \in ran
    BY DEF ShutdownIsSeen
  <2>1. s \in Tasks /\ Home(s) \in Pools
    BY <1>0, Cast
  <2>2. Safe(s)
    BY <1>0, <1>2 DEF Kept
  <2>3. s \in ran \/ Exited(Home(s))
    BY <2>1, <2>2, AllExited
  <2> QED BY <1>0, <2>1, <2>3 DEF Kept
<1>4. PersistentServes
  <2> SUFFICES ASSUME Returned, ~forced, NEW t \in ran, NEW i \in DOMAIN scenario.body[t],
                      ~Persistent(Home(t)), scenario.body[t][i][1] = "submit",
                      Persistent(Home(scenario.body[t][i][2]))
               PROVE  scenario.body[t][i][2] \in ran
    BY DEF PersistentServes
  <2> DEFINE u == scenario.body[t][i][2]
  <2>1. t \in Tasks /\ scenario.body[t] \in Seq(Calls)
    BY <1>0, Cast DEF Types
  <2>2. scenario.body[t][i] \in Op
    BY <2>1, CallsAreOps
  <2>3. u \in Tasks /\ scenario.body[t][i] = <<"submit", u>>
    BY <2>2, Arguments
  <2>4. u \in Bequest(t)
    BY <2>3 DEF Bequest, Range
  <2>5. Safe(u)
    BY <1>0, <2>4 DEF Kept
  <2>6. u \in ran \/ Exited(Home(u))
    BY <2>3, <2>5, AllExited
  <2>7. Home(u) \in Pools
    BY <1>0, <2>3, Cast
  <2> QED BY <1>0, <2>4, <2>6, <2>7 DEF Kept
<1> QED BY <1>1, <1>3, <1>4 DEF StopReachesAll

\* For any scenario: once every call of stop is over no pool goes on that is not
\* persistent, though pools are made meanwhile; when start returns from a shutdown
\* that was not forced every reaction to Shutdown has been run, and every task the
\* tasks of the other pools gave to a persistent one (PowerPlant.cpp:105-112,
\* Scheduler.cpp:83-121, 157-179, Pool.cpp:109-157).
THEOREM StopReachesAllHold == Spec => []StopReachesAll
<1>1. Init => Inv
  BY InitInv
<1>2. Inv /\ [Next]_vars => Inv'
  BY InvStep
<1>3. Inv => StopReachesAll
  BY InvReaches
<1> QED BY <1>1, <1>2, <1>3, PTL DEF Spec
=============================================================================

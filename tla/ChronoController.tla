--------------------------- MODULE ChronoController ---------------------------
(***************************************************************************)
(* ChronoController with the clock, the words Every and Watchdog and the   *)
(* emits Delay and Watchdog: one thread runs the tasks of a heap at their  *)
(* times, under its mutex; any thread adds and removes tasks, services a   *)
(* watchdog, travels in time or shuts down.                                *)
(*                                                                         *)
(* base is the time of base_clock in ticks; it stands still at             *)
(* scenario.until.  The mutex is held from the first to the last step of   *)
(* a handler that has several.                                             *)
(***************************************************************************)
EXTENDS Integers, Sequences, FiniteSets, SequencesExt

CONSTANTS Jobs, Scenarios

Types == {"ABSOLUTE", "RELATIVE", "NEAREST", "ADJUST"}
\* A scenario gives each job its kind and period (the delay of a Delay), the jobs
\* that are unbound later, how often the watchdog is serviced, the changes of the
\* clock (ADJUST is a call of adjust_clock, by-passing the controller), whether
\* another thread reads the clock, whether the power plant shuts down, the last
\* tick of base, and whether the watchdogs have a runtime argument as their key.
ASSUME ChronoAssumption ==
  \A s \in Scenarios :
    /\ s.kind \in [Jobs -> {"every", "delay", "watchdog", "none"}]
    /\ s.period \in [Jobs -> Nat \ {0}]
    /\ s.unbinds \subseteq {j \in Jobs : s.kind[j] \in {"every", "watchdog"}}
    /\ s.services \in Nat /\ s.binds \in Nat /\ s.until \in Nat
    /\ s.reads \in BOOLEAN /\ s.shutdown \in BOOLEAN /\ s.keyed \in BOOLEAN
    /\ \A i \in DOMAIN s.travels : s.travels[i].type \in Types /\ s.travels[i].rtf \in Nat

VARIABLES
  scenario,   \* chosen at the start, it never changes
  base,       \* base_clock::now()
  data, active,   \* the three slots of clock, and the one in use
  tasks,      \* the heap: the id and time of each task
  mutex, running,
  cpc,        \* the chrono thread
  alarm,      \* the base time at which its wait ends
  serviced,   \* the watchdog's service time as the chrono thread has read it
  op, when,   \* of each job: its thread, and the time that was computed for it
  store,      \* WatchdogDataStore
  spc, stamp, \* the servicer: how many services are begun, and the one on its way
  travelled, tpc, adjustment,   \* the traveller
  down,       \* the thread that shuts down
  rpc, slot, copy,   \* the thread that reads the clock
  published,  \* history: every state of the clock
  ran, grid   \* history: tasks run for each job; when the first of them was due

clocks == <<base, data, active, published>>
chrono == <<tasks, cpc, alarm, serviced>>
jobs == <<op, when>>
watchdog == <<store, spc, stamp>>
traveller == <<travelled, tpc, adjustment>>
reader == <<rpc, slot, copy>>
history == <<ran, grid>>
vars == <<scenario, clocks, chrono, mutex, running, jobs, watchdog, traveller, down, reader, history>>

Nobody == "nobody"
NoTime == -1
Epoch == [base_from |-> 0, epoch |-> 0, rtf |-> 1]

\* clock::now with slot d, at base time b.
Reading(d, b) == d.epoch + (b - d.base_from) * d.rtf
now == Reading(data[active], base)

Init ==
  /\ scenario \in Scenarios
  /\ base = 0 /\ data = [i \in 0..2 |-> Epoch] /\ active = 0 /\ published = {Epoch}
  /\ tasks = <<>> /\ mutex = Nobody /\ running = TRUE
  /\ cpc = "check" /\ alarm = NoTime /\ serviced = NoTime
  /\ op = [j \in Jobs |-> IF scenario.kind[j] = "none" THEN "gone" ELSE "start"]
  /\ when = [j \in Jobs |-> NoTime]
  /\ store = NoTime /\ spc = 0 /\ stamp = NoTime
  /\ travelled = 0 /\ tpc = "idle" /\ adjustment = 0
  /\ down = IF scenario.shutdown THEN "start" ELSE "done"
  /\ rpc = (IF scenario.reads THEN "load" ELSE "done") /\ slot = 0 /\ copy = Epoch
  /\ ran = [j \in Jobs |-> 0] /\ grid = [j \in Jobs |-> NoTime]

Tick ==
  /\ base < scenario.until /\ base' = base + 1
  /\ base = scenario.binds => \A j \in Jobs : op[j] # "start"
  /\ UNCHANGED <<scenario, data, active, published, chrono, mutex, running, jobs, watchdog, traveller, down,
                 reader, history>>

-----------------------------------------------------------------------------
(* The heap of std::push_heap, pop_heap and make_heap with std::greater:    *)
(* the earliest task is first.                                              *)

Parent(i) == i \div 2
Swap(h, i, k) == [h EXCEPT ![i] = h[k], ![k] = h[i]]
Earlier(h, i, k) == h[i].time < h[k].time
IsHeap(h) == \A i \in DOMAIN h : i > 1 => ~Earlier(h, i, Parent(i))

RECURSIVE Up(_, _)
Up(h, i) == IF i > 1 /\ Earlier(h, i, Parent(i)) THEN Up(Swap(h, i, Parent(i)), Parent(i)) ELSE h
RECURSIVE Down(_, _)
Down(h, i) ==
  LET children == {2 * i, 2 * i + 1} \cap DOMAIN h
      least == CHOOSE k \in children : \A c \in children : ~Earlier(h, c, k)
  IN IF children # {} /\ Earlier(h, least, i) THEN Down(Swap(h, i, least), least) ELSE h

PushHeap(h, t) == Up(Append(h, t), Len(h) + 1)
PopHeap(h) == IF Len(h) = 1 THEN <<>> ELSE Down([Front(h) EXCEPT ![1] = Last(h)], 1)
MakeHeap(h) == FoldLeft(Down, h, Reverse([i \in DOMAIN h |-> i]))

-----------------------------------------------------------------------------
(* The chrono thread.                                                       *)

\* notify_all: what waits on the condition variable goes round the loop again.
Waiting == {"idle", "paused", "timed"}
Notify == cpc' = IF cpc \in Waiting THEN "check" ELSE cpc

Others == <<scenario, clocks, running, jobs, watchdog, traveller, down, reader>>

\* running is read before the mutex is taken.
Check ==
  /\ cpc = "check" /\ cpc' = IF running THEN "lock" ELSE "stopped"
  /\ UNCHANGED <<Others, tasks, mutex, alarm, serviced, history>>

Idle ==
  /\ cpc = "lock" /\ mutex = Nobody /\ tasks = <<>>
  /\ cpc' = IF running THEN "idle" ELSE "check"
  /\ UNCHANGED <<Others, tasks, mutex, alarm, serviced, history>>

Due ==
  /\ cpc = "lock" /\ mutex = Nobody /\ tasks # <<>> /\ Head(tasks).time <= now
  /\ cpc' = "run" /\ mutex' = "chrono"
  /\ UNCHANGED <<Others, tasks, alarm, serviced, history>>

\* The wait that the distance of the task calls for; it ends a little early.
CvAccuracy == 1
NsAccuracy == 0
Rtf == data[active].rtf
TimeUntil == (Head(tasks).time - now) \div Rtf
Ahead == cpc = "lock" /\ mutex = Nobody /\ tasks # <<>> /\ Head(tasks).time > now

Pause ==
  /\ Ahead /\ Rtf = 0
  /\ cpc' = "paused"
  /\ UNCHANGED <<Others, tasks, mutex, alarm, serviced, history>>
WaitFor ==
  /\ Ahead /\ Rtf > 0 /\ TimeUntil > CvAccuracy
  /\ cpc' = "timed" /\ alarm' = base + TimeUntil - CvAccuracy
  /\ UNCHANGED <<Others, tasks, mutex, serviced, history>>
\* These two keep the mutex.
Sleep ==
  /\ Ahead /\ Rtf > 0 /\ TimeUntil <= CvAccuracy /\ TimeUntil > NsAccuracy
  /\ cpc' = "sleep" /\ alarm' = base + TimeUntil - NsAccuracy /\ mutex' = "chrono"
  /\ UNCHANGED <<Others, tasks, serviced, history>>
Spin ==
  /\ Ahead /\ Rtf > 0 /\ TimeUntil <= NsAccuracy
  /\ cpc' = "spin" /\ mutex' = "chrono"
  /\ UNCHANGED <<Others, tasks, alarm, serviced, history>>

\* Mutant of Awake: the wait ends with the mutex held.
AwakeLocked ==
  /\ cpc \in {"timed", "sleep"} /\ base >= alarm
  /\ cpc' = "check" /\ alarm' = NoTime
  /\ UNCHANGED <<Others, tasks, mutex, serviced, history>>

\* Past the last tick a sleep or a spin ends without time going on.
Awake ==
  /\ \/ cpc = "timed" /\ base >= alarm /\ UNCHANGED mutex
     \/ cpc = "sleep" /\ (base >= alarm \/ base = scenario.until) /\ mutex' = Nobody
     \/ cpc = "spin" /\ (now >= Head(tasks).time \/ base = scenario.until) /\ mutex' = Nobody
  /\ cpc' = "check" /\ alarm' = NoTime
  /\ UNCHANGED <<Others, tasks, serviced, history>>

\* The front task has run and its time is t: the old front is popped, and pushed
\* again when it renews.
Renew(t) == tasks' = PushHeap(PopHeap(tasks), [Head(tasks) EXCEPT !.time = t])
front == Head(tasks).id

\* Mutant of RunEvery: the period counts from the time at which the task runs.
RunEveryFromNow ==
  /\ cpc = "run" /\ scenario.kind[front] = "every"
  /\ Renew(now + scenario.period[front])
  /\ ran' = [ran EXCEPT ![front] = @ + 1]
  /\ cpc' = "check" /\ mutex' = Nobody
  /\ UNCHANGED <<Others, alarm, serviced, grid>>

RunEvery ==
  /\ cpc = "run" /\ scenario.kind[front] = "every"
  /\ Renew(Head(tasks).time + scenario.period[front])
  /\ ran' = [ran EXCEPT ![front] = @ + 1]
  /\ cpc' = "check" /\ mutex' = Nobody
  /\ UNCHANGED <<Others, alarm, serviced, grid>>

RunDelay ==
  /\ cpc = "run" /\ scenario.kind[front] = "delay"
  /\ tasks' = PopHeap(tasks)
  /\ ran' = [ran EXCEPT ![front] = @ + 1]
  /\ cpc' = "check" /\ mutex' = Nobody
  /\ UNCHANGED <<Others, alarm, serviced, grid>>

\* The store is read under its own mutex; without an entry it throws, the task of
\* the Always reaction ends, and its idle task begins another one.
ReadStore ==
  /\ cpc = "run" /\ scenario.kind[front] = "watchdog"
  /\ IF store = NoTime
     THEN cpc' = "check" /\ mutex' = Nobody /\ UNCHANGED serviced
     ELSE cpc' = "bark" /\ serviced' = store /\ UNCHANGED mutex
  /\ UNCHANGED <<Others, tasks, alarm, history>>

\* Mutant of RunWatchdog: a watchdog that fires is asked again at once.
RunWatchdogAtOnce ==
  /\ cpc = "bark"
  /\ LET late == now > serviced + scenario.period[front] IN
       /\ Renew(IF late THEN Head(tasks).time ELSE serviced + scenario.period[front])
       /\ ran' = [ran EXCEPT ![front] = @ + IF late THEN 1 ELSE 0]
  /\ cpc' = "check" /\ mutex' = Nobody /\ serviced' = NoTime
  /\ UNCHANGED <<Others, alarm, grid>>

\* Watchdog::chrono_task.
RunWatchdog ==
  /\ cpc = "bark"
  /\ LET late == now > serviced + scenario.period[front] IN
       /\ Renew((IF late THEN Head(tasks).time ELSE serviced) + scenario.period[front])
       /\ ran' = [ran EXCEPT ![front] = @ + IF late THEN 1 ELSE 0]
  /\ cpc' = "check" /\ mutex' = Nobody /\ serviced' = NoTime
  /\ UNCHANGED <<Others, alarm, grid>>

-----------------------------------------------------------------------------
(* The threads that bind, emit and unbind.                                  *)

\* Every::bind, Delay::emit and Watchdog::bind: the time is computed before the
\* controller hears of it, and the watchdog's store is filled when it is empty.
Computes(j, kind) ==
  /\ op[j] = "start" /\ scenario.kind[j] = kind
  /\ when' = [when EXCEPT ![j] = now + scenario.period[j]]
  /\ op' = [op EXCEPT ![j] = "add"]
  /\ UNCHANGED <<scenario, clocks, chrono, mutex, running, spc, stamp, traveller, down, reader, history>>
BindEvery(j) == Computes(j, "every") /\ UNCHANGED store
EmitDelay(j) == Computes(j, "delay") /\ UNCHANGED store
Initialised == IF store = NoTime THEN now ELSE store
BindWatchdog(j) == Computes(j, "watchdog") /\ store' = Initialised

Add(j) ==
  /\ op[j] = "add" /\ mutex = Nobody
  /\ IF running
     THEN /\ tasks' = PushHeap(tasks, [id |-> j, time |-> when[j]])
          /\ grid' = [grid EXCEPT ![j] = IF scenario.kind[j] = "every" THEN when[j] ELSE NoTime]
     ELSE UNCHANGED <<tasks, grid>>
  /\ Notify
  /\ op' = [op EXCEPT ![j] = "bound"] /\ when' = [when EXCEPT ![j] = NoTime]
  /\ UNCHANGED <<scenario, clocks, mutex, running, alarm, serviced, watchdog, traveller, down, reader, ran>>

\* The watchdog's unbinder erases its entry, and then unbinds like Every's.  The
\* store of a watchdog without a key stays: a copy of the pointer to it is reset.
Erased == IF scenario.keyed THEN NoTime ELSE store
Erase(j) ==
  /\ op[j] = "bound" /\ j \in scenario.unbinds /\ scenario.kind[j] = "watchdog"
  /\ store' = Erased
  /\ op' = [op EXCEPT ![j] = "erased"]
  /\ UNCHANGED <<scenario, clocks, chrono, mutex, running, when, spc, stamp, traveller, down, reader, history>>

\* Mutant of Unbind: the heap is not made again.
UnbindInPlace(j) ==
  /\ op[j] = IF scenario.kind[j] = "watchdog" THEN "erased" ELSE "bound"
  /\ j \in scenario.unbinds /\ mutex = Nobody
  /\ tasks' = SelectSeq(tasks, LAMBDA t : t.id # j)
  /\ Notify
  /\ op' = [op EXCEPT ![j] = "gone"]
  /\ UNCHANGED <<scenario, clocks, mutex, running, alarm, serviced, when, watchdog, traveller, down, reader, history>>

Unbind(j) ==
  /\ op[j] = IF scenario.kind[j] = "watchdog" THEN "erased" ELSE "bound"
  /\ j \in scenario.unbinds /\ mutex = Nobody
  /\ tasks' = MakeHeap(SelectSeq(tasks, LAMBDA t : t.id # j))
  /\ Notify
  /\ op' = [op EXCEPT ![j] = "gone"]
  /\ UNCHANGED <<scenario, clocks, mutex, running, alarm, serviced, when, watchdog, traveller, down, reader, history>>

\* WatchdogServicer: the time is taken when it is made, and stored when it is
\* emitted; without a store that throws to the emitter.
MakeService ==
  /\ spc < scenario.services /\ stamp = NoTime
  /\ spc' = spc + 1 /\ stamp' = now
  /\ UNCHANGED <<scenario, clocks, chrono, mutex, running, jobs, store, traveller, down, reader, history>>
Service ==
  /\ stamp # NoTime
  /\ store' = IF store = NoTime THEN NoTime ELSE stamp
  /\ stamp' = NoTime
  /\ UNCHANGED <<scenario, clocks, chrono, mutex, running, jobs, spc, traveller, down, reader, history>>

Shutdown ==
  /\ down = "start" /\ running' = FALSE /\ down' = "notify"
  /\ UNCHANGED <<scenario, clocks, chrono, mutex, jobs, watchdog, traveller, reader, history>>
\* Mutant of ShutdownNotify: nobody is woken.
ShutdownSilently ==
  /\ down = "notify" /\ down' = "done"
  /\ UNCHANGED <<scenario, clocks, chrono, mutex, running, jobs, watchdog, traveller, reader, history>>

ShutdownNotify ==
  /\ down = "notify" /\ mutex = Nobody /\ Notify /\ down' = "done"
  /\ UNCHANGED <<scenario, clocks, tasks, alarm, serviced, mutex, running, jobs, watchdog, traveller, reader, history>>

-----------------------------------------------------------------------------
(* The clock: set_clock and adjust_clock write the slot after the one in    *)
(* use, field by field, and then turn to it; now copies the slot in use.    *)

travel == scenario.travels[travelled + 1]
\* Mutant of Following: the clock has two slots.
OtherOfTwo == (active + 1) % 2

Following == (active + 1) % 3
Target ==
  CASE travel.type \in {"ABSOLUTE", "RELATIVE"} -> travel.target
    [] travel.type = "NEAREST" ->
         IF tasks = <<>> \/ travel.target < Head(tasks).time THEN travel.target ELSE Head(tasks).time
    [] OTHER -> now + travel.target

\* The first field.  RELATIVE reads the clock before it.
BeginTravel ==
  /\ tpc = "idle" /\ travelled < Len(scenario.travels)
  /\ IF travel.type = "ADJUST" THEN UNCHANGED mutex ELSE mutex = Nobody /\ mutex' = "travel"
  /\ adjustment' = IF travel.type = "RELATIVE" THEN travel.target - now ELSE 0
  /\ data' = [data EXCEPT ![Following].epoch = Target, ![Following].base_from = base]
  /\ tpc' = "publish"
  /\ UNCHANGED <<scenario, base, active, published, chrono, running, jobs, watchdog, travelled, down, reader, history>>

\* Mutant of Publish: a wait goes on as it was.
PublishSilently ==
  /\ tpc = "publish"
  /\ data' = [data EXCEPT ![Following].rtf = travel.rtf]
  /\ active' = Following /\ published' = published \cup {data'[active']}
  /\ tasks' = [i \in DOMAIN tasks |-> [tasks[i] EXCEPT !.time = @ + adjustment]]
  /\ grid' = [j \in Jobs |-> IF grid[j] = NoTime THEN NoTime ELSE grid[j] + adjustment]
  /\ mutex' = (IF travel.type = "ADJUST" THEN mutex ELSE Nobody) /\ UNCHANGED cpc
  /\ tpc' = "idle" /\ travelled' = travelled + 1 /\ adjustment' = 0
  /\ UNCHANGED <<scenario, base, running, alarm, serviced, jobs, watchdog, down, reader, ran>>

Publish ==
  /\ tpc = "publish"
  /\ data' = [data EXCEPT ![Following].rtf = travel.rtf]
  /\ active' = Following /\ published' = published \cup {data'[active']}
  /\ tasks' = [i \in DOMAIN tasks |-> [tasks[i] EXCEPT !.time = @ + adjustment]]
  /\ grid' = [j \in Jobs |-> IF grid[j] = NoTime THEN NoTime ELSE grid[j] + adjustment]
  /\ IF travel.type = "ADJUST" THEN UNCHANGED <<mutex, cpc>> ELSE mutex' = Nobody /\ Notify
  /\ tpc' = "idle" /\ travelled' = travelled + 1 /\ adjustment' = 0
  /\ UNCHANGED <<scenario, base, running, alarm, serviced, jobs, watchdog, down, reader, ran>>

LoadActive ==
  /\ rpc = "load" /\ slot' = active /\ rpc' = "copy"
  /\ UNCHANGED <<scenario, clocks, chrono, mutex, running, jobs, watchdog, traveller, down, copy, history>>
CopyHalf ==
  /\ rpc = "copy"
  /\ copy' = [copy EXCEPT !.epoch = data[slot].epoch, !.base_from = data[slot].base_from]
  /\ rpc' = "rest"
  /\ UNCHANGED <<scenario, clocks, chrono, mutex, running, jobs, watchdog, traveller, down, slot, history>>
CopyRest ==
  /\ rpc = "rest" /\ copy' = [copy EXCEPT !.rtf = data[slot].rtf] /\ rpc' = "done"
  /\ UNCHANGED <<scenario, clocks, chrono, mutex, running, jobs, watchdog, traveller, down, slot, history>>

-----------------------------------------------------------------------------
Chrono ==
  \/ Check \/ Idle \/ Due \/ Pause \/ WaitFor \/ Sleep \/ Spin \/ Awake
  \/ RunEvery \/ RunDelay \/ ReadStore \/ RunWatchdog
Job(j) == BindEvery(j) \/ EmitDelay(j) \/ BindWatchdog(j) \/ Add(j) \/ Erase(j) \/ Unbind(j)
Travelling == BeginTravel \/ Publish
Stopping == Shutdown \/ ShutdownNotify
Read == LoadActive \/ CopyHalf \/ CopyRest

\* Time stands still at its last tick, and everybody else is done.
Over ==
  /\ base = scenario.until
  /\ \A j \in Jobs : op[j] = "gone" \/ (op[j] = "bound" /\ j \notin scenario.unbinds)
  /\ travelled = Len(scenario.travels) /\ down = "done" /\ rpc = "done"
  /\ spc = scenario.services /\ stamp = NoTime
\* And what is due has run; a watchdog fires only after its deadline, not at it.
Quiet ==
  /\ Over
  /\ ~running => cpc \in {"stopped", "timed"}
  /\ running => \A i \in DOMAIN tasks :
       \/ tasks[i].time > now
       \/ scenario.kind[tasks[i].id] = "watchdog" /\ now <= store + scenario.period[tasks[i].id]
Rest == Over /\ UNCHANGED vars

Next ==
  \/ Tick \/ Chrono \/ Travelling \/ Stopping \/ Read \/ MakeService \/ Service \/ Rest
  \/ \E j \in Jobs : Job(j)

\* Time goes on, and the mutex is handed on in the end.
Fairness ==
  /\ WF_vars(Tick) /\ SF_vars(Chrono) /\ SF_vars(Travelling) /\ SF_vars(Stopping) /\ WF_vars(Read)
  /\ WF_vars(MakeService \/ Service)
  /\ \A j \in Jobs : SF_vars(Job(j))
Spec == Init /\ [][Next]_vars /\ Fairness

-----------------------------------------------------------------------------
(* Properties                                                               *)

Slots == [base_from : Int, epoch : Int, rtf : Nat]
\* Types; the chrono thread has the mutex exactly while it runs a task or sleeps
\* with it (the lock of ChronoController.cpp:137).
TypeOK ==
  /\ scenario \in Scenarios /\ base \in 0..scenario.until /\ down \in {"start", "notify", "done"}
  /\ data \in [0..2 -> Slots] /\ active \in 0..2 /\ copy \in Slots /\ published \subseteq Slots
  /\ \A i \in DOMAIN tasks : tasks[i].id \in Jobs /\ tasks[i].time \in Int
  /\ op \in [Jobs -> {"start", "add", "bound", "erased", "gone"}]
  /\ mutex \in {Nobody, "chrono", "travel"} /\ running \in BOOLEAN
  /\ cpc \in Waiting \cup {"check", "lock", "run", "bark", "sleep", "spin", "stopped"}
  /\ mutex = "chrono" <=> cpc \in {"run", "bark", "sleep", "spin"}
  /\ ran \in [Jobs -> Nat] /\ travelled \in 0..Len(scenario.travels)

\* Whenever the mutex is free the tasks are a heap, so that the front is the
\* earliest of them: also after a task has changed its own time while it was in
\* front (ChronoController.cpp:149-157), an erase from the middle, and a travel
\* that moves all of them.
HeapOrder == mutex = Nobody => IsHeap(tasks)

\* An Every is due at its bind time plus multiples of its period, however late it
\* was run and whatever else ran before it (Every.hpp:97); a RELATIVE travel moves
\* the whole grid, the other travels leave it where it was.
EveryOnGrid ==
  mutex = Nobody => \A i \in DOMAIN tasks :
    LET j == tasks[i].id IN
      scenario.kind[j] = "every" => tasks[i].time = grid[j] + ran[j] * scenario.period[j]

\* A watchdog that nobody services fires at most once in each period, although its
\* deadline has long passed (Watchdog.hpp:334).
OneBarkPerPeriod ==
  \A j \in Jobs : scenario.kind[j] = "watchdog" => ran[j] * scenario.period[j] <= now

\* What comes again keeps its period, however late the thread is: Every its grid,
\* Watchdog the time since its last service or bark.
Periodic == EveryOnGrid /\ OneBarkPerPeriod

\* The chrono thread never waits past the time of a task, although tasks come and
\* go and the clock jumps, stops and changes its pace while it waits: whoever
\* changes them wakes it (the three notify_all of ChronoController.cpp).
NeverOversleeps ==
  /\ cpc = "idle" => tasks = <<>>
  /\ cpc = "paused" => Rtf = 0
  /\ cpc = "timed" => \A i \in DOMAIN tasks : Reading(data[active], alarm) <= tasks[i].time

\* The earliest task is in front and the thread waits no longer than for it, whoever
\* adds, removes or moves tasks meanwhile.
OnTime == TypeOK /\ HeapOrder /\ NeverOversleeps

\* What now copies is one state of the clock and no mixture of two, even when the
\* clock is adjusted twice meanwhile: that is what the third slot is for
\* (clock.cpp:39, clock.hpp:95).  A third adjustment writes the slot it copies.
ClockWhole == rpc = "done" /\ scenario.reads => copy \in published

\* In the end every task that is due has run, the clock's changes included, and a
\* shut-down controller has left its loop or does so at its next alarm
\* (ChronoController.cpp:99-104).
ChronoSettles == <>[]Quiet
=============================================================================

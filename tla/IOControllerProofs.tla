-------------------------- MODULE IOControllerProofs --------------------------
(***************************************************************************)
(* Proofs about IOController, for any reactions, descriptors and           *)
(* scenarios: one task of a reaction at a time, a poll thread that listens *)
(* for all it should, and an end of file that is one.                      *)
(***************************************************************************)
EXTENDS IOController, TLAPS

-----------------------------------------------------------------------------
(* The inductive invariant, in named parts.                                *)

Working(r) == op[r] \in {"binding", "entering", "unbinding", "leaving"}

\* What a reaction is: bound between its bind and its unbind, with a task in flight
\* for what it is processing; one that is not bound has no masks.
LivesOK ==
  \A r \in Reactions :
    /\ r \in bound => op[r] \in {"binding", "entering", "bound", "shut"}
    /\ r \notin bound => processing[r] = {} /\ waiting[r] = {}
    /\ op[r] \in {"start", "open"} => run[r] = "none"
    /\ outstanding[r] = IF run[r] = "none" THEN 0 ELSE 1
    /\ r \in bound /\ run[r] # "none" => processing[r] # {}

\* Who holds tasks_mutex, and what the poll thread keeps only while it does.
MutexOK ==
  /\ \A r \in Reactions : Working(r) => tasks_mutex = r /\ run[r] \notin {"signal", "unmask"}
  /\ \A r \in Reactions : run[r] \in {"signal", "unmask"} =>
       tasks_mutex = r /\ r \in bound /\ "CLOSE" \notin processing[r]
  /\ ppc = "events" => tasks_mutex = Poller
  /\ left # {} => ppc = "events"
  /\ \A q, r \in left : fd(q) = fd(r)
  /\ ppc \notin {"collect", "events"} => \A f \in Fds : revents[f] = {}
  /\ heard => ppc = "collect" /\ pipe > 0

\* What is listed: the descriptors that poll answered for, and those of the tasks
\* that something happened to.
ListOK ==
  /\ \A f \in Fds : revents[f] # {} => f \in listed
  /\ \A r \in left : revents[fd(r)] # {}
  /\ \A r \in bound : processing[r] \cup waiting[r] # {} => fd(r) \in listed

\* A reaction gets what it listens for, and the end.
MarksOK ==
  \A r \in bound : processing[r] \cup waiting[r] \subseteq scenario.listens[r] \cup {"CLOSE"}

\* A reaction that reads is listened for or has its event; or the list is dirty and
\* the poll thread will know.
HeardOK ==
  \A r \in bound :
    OneReader(fd(r)) /\ "READ" \in scenario.listens[r] =>
      \/ fd(r) \in listed /\ "READ" \in watches[fd(r)] \cup processing[r] \cup waiting[r]
      \/ dirty /\ (ppc \in {"enter", "polling"} => op[r] = "binding" \/ pipe > 0)

\* The event being processed is of this descriptor.
Current(f) == \E r \in left : fd(r) = f

\* A task that may take what can be read, or has been given it.
Reading(r) == run[r] = "run" \/ "READ" \in processing[r]

\* Nothing to read means the end, because who reads is not polled for: while the other
\* end is open, and until an empty datagram comes, nobody is told of the end, and what
\* poll has seen can be read.
EofOK ==
  "drain" \notin scenario.also => \A f \in Fds \ closed : OneReader(f) /\ ~EmptyCame(f) =>
    /\ "CLOSE" \notin revents[f]
    /\ "READ" \in revents[f] => pending[f] > 0 \/ Current(f)
    /\ ~(eof /\ Current(f))
    /\ \A r \in Reactions : fd(r) = f =>
         /\ "CLOSE" \notin processing[r] \cup waiting[r]
         /\ run[r] = "run" => "READ" \in scenario.listens[r]
         /\ Reading(r) => "READ" \notin watches[f] /\ ("READ" \in revents[f] => Current(f))
         /\ r \notin dropped

Inv == TypeOK /\ LivesOK /\ MutexOK /\ ListOK /\ MarksOK /\ HeardOK /\ EofOK

-----------------------------------------------------------------------------
(* fire_event, as the next state shows it.                                 *)

\* What it makes of a reaction r whose masks are w and p, when poll is asked for ws
\* and the reaction's task is at rn, the n-th in flight.
Fires(r, w, p, ws, rn, n) ==
  /\ \/ /\ waiting' = [waiting EXCEPT ![r] = w] /\ processing' = [processing EXCEPT ![r] = p]
        /\ watches' = ws
        /\ run' = [run EXCEPT ![r] = rn] /\ outstanding' = [outstanding EXCEPT ![r] = n]
     \/ /\ p = {} /\ w # {}
        /\ waiting' = [waiting EXCEPT ![r] = {}] /\ processing' = [processing EXCEPT ![r] = w]
        /\ watches' = [ws EXCEPT ![fd(r)] = IF Found(fd(r)) THEN @ \ w ELSE @]
        /\ run' = [run EXCEPT ![r] = "run"] /\ outstanding' = [outstanding EXCEPT ![r] = n + 1]
  /\ \/ pending' = pending
     \/ /\ p = {} /\ "READ" \in w /\ pending[fd(r)] > 0
        /\ pending' = [pending EXCEPT ![fd(r)] = @ - 1]

\* The constants of a scenario have their types.
LEMMA ScenarioFacts ==
  ASSUME scenario \in Scenarios
  PROVE  /\ \A r \in Reactions : /\ fd(r) \in Fds /\ scenario.listens[r] \in SUBSET Events
                                 /\ scenario.word[r] \in {"IO", "UDP", "TCP"}
         /\ scenario.notifier \in Nat /\ scenario.data \in [Fds -> Nat]
         /\ scenario.empty \in [Fds -> SUBSET Nat]
         /\ Fds \subseteq Nat /\ Nobody \notin Reactions /\ Poller \notin Reactions
         /\ Nobody # Poller
BY IOAssumption DEF fd, Nobody, Poller

\* The state fire_event works on is the state of the next step.
LEMMA FireIs ==
  ASSUME TypeOK, NEW r \in Reactions, NEW w \in SUBSET Events, NEW p \in SUBSET Events,
         NEW ws \in [Fds -> SUBSET Events], NEW rn, NEW n, NEW answer,
         Becomes(Fire([waiting |-> [waiting EXCEPT ![r] = w], processing |-> [processing EXCEPT ![r] = p],
                       watches |-> ws, run |-> [run EXCEPT ![r] = rn],
                       outstanding |-> [outstanding EXCEPT ![r] = n], pending |-> pending], r, answer))
  PROVE  Fires(r, w, p, ws, rn, n)
<1> DEFINE s == [waiting |-> [waiting EXCEPT ![r] = w], processing |-> [processing EXCEPT ![r] = p],
                 watches |-> ws, run |-> [run EXCEPT ![r] = rn],
                 outstanding |-> [outstanding EXCEPT ![r] = n], pending |-> pending]
<1>1. /\ s.waiting[r] = w /\ s.processing[r] = p /\ s.watches = ws
      /\ s.outstanding[r] = n /\ s.pending = pending
  BY DEF TypeOK
<1>2. \/ Taken(s, r, answer) = s.pending
      \/ "READ" \in w /\ pending[fd(r)] > 0 /\ Taken(s, r, answer) = [pending EXCEPT ![fd(r)] = @ - 1]
  BY <1>1 DEF Taken, Received, Accepted, Takes, Readable
<1>3. CASE s.processing[r] # {} \/ s.waiting[r] = {}
  <2>1. Becomes(s)  BY <1>3 DEF Fire
  <2> QED  BY <2>1 DEF Becomes, Fires
<1>4. CASE ~(s.processing[r] # {} \/ s.waiting[r] = {}) /\ ~Generated(s, r, answer)
  <2>1. Becomes([s EXCEPT !.pending = Taken(s, r, answer)])  BY <1>4 DEF Fire
  <2> QED  BY <1>1, <1>2, <1>4, <2>1 DEF Becomes, Fires
<1>5. CASE ~(s.processing[r] # {} \/ s.waiting[r] = {}) /\ Generated(s, r, answer)
  <2>1. Becomes([s EXCEPT !.pending = Taken(s, r, answer), !.processing[r] = s.waiting[r], !.waiting[r] = {},
                          !.watches[fd(r)] = IF Found(fd(r)) THEN @ \ s.waiting[r] ELSE @,
                          !.run[r] = "run", !.outstanding[r] = @ + 1])
    BY <1>5 DEF Fire
  <2>2. /\ waiting' = [s.waiting EXCEPT ![r] = {}] /\ processing' = [s.processing EXCEPT ![r] = s.waiting[r]]
        /\ watches' = [ws EXCEPT ![fd(r)] = IF Found(fd(r)) THEN @ \ w ELSE @]
        /\ run' = [s.run EXCEPT ![r] = "run"]
        /\ outstanding' = [s.outstanding EXCEPT ![r] = s.outstanding[r] + 1]
        /\ pending' = Taken(s, r, answer)
    BY <2>1, <1>1 DEF Becomes
  <2>3. /\ waiting' = [waiting EXCEPT ![r] = {}] /\ processing' = [processing EXCEPT ![r] = w]
        /\ run' = [run EXCEPT ![r] = "run"] /\ outstanding' = [outstanding EXCEPT ![r] = n + 1]
    BY <2>2, <1>1 DEF TypeOK
  <2> QED  BY <1>1, <1>2, <1>5, <2>2, <2>3 DEF Fires
<1> QED  BY <1>3, <1>4, <1>5

\* An event for a task: what poll saw, and the end where there was nothing to read.
LEMMA EventFires ==
  ASSUME TypeOK, NEW r \in Reactions, FireEvent(r)
  PROVE  \E C \in SUBSET {"CLOSE"} :
           /\ C # {} => eof /\ "READ" \notin processing[r]
           /\ Fires(r, waiting[r] \cup (scenario.listens[r] \cap revents[fd(r)]) \cup C, processing[r],
                    watches, run[r], outstanding[r])
<1> DEFINE closes == eof /\ scenario.word[r] # "TCP" /\ "READ" \notin processing[r]
           C == IF closes THEN {"CLOSE"} ELSE {}
           w == waiting[r] \cup (scenario.listens[r] \cap revents[fd(r)]) \cup C
<1>1. PICK answer \in Answers : Becomes(Collect(Now, r, answer))
  BY DEF FireEvent
<1>2. w \in SUBSET Events /\ processing[r] \in SUBSET Events /\ watches \in [Fds -> SUBSET Events]
  BY ScenarioFacts DEF TypeOK, Events
<1>3. Collect(Now, r, answer) =
        Fire([waiting |-> [waiting EXCEPT ![r] = w], processing |-> processing, watches |-> watches,
              run |-> run, outstanding |-> outstanding, pending |-> pending], r, answer)
  BY DEF Collect, Now
<1>4. /\ processing = [processing EXCEPT ![r] = processing[r]] /\ run = [run EXCEPT ![r] = run[r]]
      /\ outstanding = [outstanding EXCEPT ![r] = outstanding[r]]
  BY DEF TypeOK
<1>5. Becomes(Fire([waiting |-> [waiting EXCEPT ![r] = w],
                    processing |-> [processing EXCEPT ![r] = processing[r]], watches |-> watches,
                    run |-> [run EXCEPT ![r] = run[r]],
                    outstanding |-> [outstanding EXCEPT ![r] = outstanding[r]], pending |-> pending],
                   r, answer))
  BY <1>1, <1>3, <1>4
<1>6. Fires(r, w, processing[r], watches, run[r], outstanding[r])
  BY <1>2, <1>5, FireIs
<1> QED  BY <1>6

\* The end of a task: poll is asked again, and what waits is fired.
LEMMA UnmaskFires ==
  ASSUME TypeOK, NEW r \in Reactions, FinishUnmask(r)
  PROVE  Fires(r, waiting[r], {}, [watches EXCEPT ![fd(r)] = IF Found(fd(r)) THEN @ \cup processing[r] ELSE @],
               "none", outstanding[r] - 1)
<1> DEFINE ws == [watches EXCEPT ![fd(r)] = IF Found(fd(r)) THEN @ \cup processing[r] ELSE @]
<1>1. PICK answer \in Answers : Becomes(Fire(Unmask(Now, r), r, answer))
  BY DEF FinishUnmask
<1>2. waiting[r] \in SUBSET Events /\ ws \in [Fds -> SUBSET Events] /\ waiting = [waiting EXCEPT ![r] = waiting[r]]
  BY ScenarioFacts DEF TypeOK
<1>3. Unmask(Now, r) =
        [waiting |-> waiting, processing |-> [processing EXCEPT ![r] = {}], watches |-> ws,
         run |-> [run EXCEPT ![r] = "none"], outstanding |-> [outstanding EXCEPT ![r] = outstanding[r] - 1],
         pending |-> pending]
  <2>1. Unmask(Now, r) = [[[[Now EXCEPT !.watches = ws] EXCEPT !.processing = [processing EXCEPT ![r] = {}]]
                            EXCEPT !.run = [run EXCEPT ![r] = "none"]]
                           EXCEPT !.outstanding = [outstanding EXCEPT ![r] = outstanding[r] - 1]]
    BY DEF Unmask, Now
  <2> QED  BY <2>1 DEF Now
<1>4. Becomes(Fire([waiting |-> [waiting EXCEPT ![r] = waiting[r]], processing |-> [processing EXCEPT ![r] = {}],
                    watches |-> ws, run |-> [run EXCEPT ![r] = "none"],
                    outstanding |-> [outstanding EXCEPT ![r] = outstanding[r] - 1], pending |-> pending],
                   r, answer))
  BY <1>1, <1>2, <1>3
<1>5. {} \in SUBSET Events  OBVIOUS
<1> QED  BY <1>2, <1>4, <1>5, FireIs

-----------------------------------------------------------------------------
(* Types, the lives of the reactions and the mutex.                        *)

Base == TypeOK /\ LivesOK /\ MutexOK

LEMMA BaseInit ==
  ASSUME Init
  PROVE  Base
<1>1. scenario \in Scenarios  BY DEF Init
<1>2. TypeOK  BY <1>1, ScenarioFacts DEF Init, TypeOK
<1>3. LivesOK /\ MutexOK  BY <1>1, <1>2 DEF Init, LivesOK, MutexOK, Working, Nobody, TypeOK
<1> QED  BY <1>2, <1>3 DEF Base

\* Everything but the scenario, which stays.
LEMMA ScenarioStays ==
  ASSUME Next
  PROVE  scenario' = scenario
BY DEF Next, Polls, Loop, RebuildList, Enter, Poll, ProcessEvents, Processed, ProcessEvent, FireEvent,
       Down, Shutdown, ShutdownSignal, ShutdownLock, Rest, vars,
       Control, Connect, Listen, Opens, Bind, Shuts, Unbind, Signal, Lock,
       Task, RunTask, Throw, FinishLast, Finish, FinishSignal, FinishUnmask,
       World, Arrive, Close, Drain

\* A step is one of these.
LEMMA Steps ==
  ASSUME Next
  PROVE  \/ Loop \/ RebuildList \/ Enter \/ Poll \/ ProcessEvents \/ Processed
         \/ \E f \in Fds : ProcessEvent(f) \/ Arrive(f) \/ Close(f) \/ Drain(f)
         \/ Shutdown \/ ShutdownSignal \/ ShutdownLock
         \/ \E r \in Reactions :
              \/ FireEvent(r) \/ Opens(r, "UDP") \/ Opens(r, "TCP") \/ Bind(r) \/ Shuts(r) \/ Unbind(r)
              \/ Signal(r) \/ Lock(r)
              \/ RunTask(r) \/ Throw(r) \/ FinishLast(r) \/ Finish(r) \/ FinishSignal(r) \/ FinishUnmask(r)
         \/ UNCHANGED vars
BY DEF Next, Polls, Down, Control, Connect, Listen, Task, World, Rest

LEMMA FiresTypes ==
  ASSUME TypeOK, NEW r \in Reactions, NEW w \in SUBSET Events, NEW p \in SUBSET Events,
         NEW ws \in [Fds -> SUBSET Events], NEW rn \in {"none", "run", "finish", "signal", "unmask"},
         NEW n \in Nat, Fires(r, w, p, ws, rn, n)
  PROVE  /\ waiting' \in [Reactions -> SUBSET Events] /\ processing' \in [Reactions -> SUBSET Events]
         /\ watches' \in [Fds -> SUBSET Events]
         /\ run' \in [Reactions -> {"none", "run", "finish", "signal", "unmask"}]
         /\ outstanding' \in [Reactions -> Nat] /\ pending' \in [Fds -> Nat]
BY ScenarioFacts, SMTT(30) DEF Fires, TypeOK

LEMMA TypeNext ==
  ASSUME Base, Next
  PROVE  TypeOK'
<1> USE DEF Base, lists, notifier, tasks, world
<1> scenario' \in Scenarios  BY ScenarioStays DEF TypeOK
<1>1. ASSUME Loop \/ Enter \/ ProcessEvents \/ Processed PROVE TypeOK'
  <2>1. CASE Loop  BY <2>1 DEF Loop, TypeOK
  <2>2. CASE Enter  BY <2>2 DEF Enter, TypeOK
  <2>3. CASE ProcessEvents
    <3>1. pipe' \in Nat  BY <2>3 DEF ProcessEvents, TypeOK, MutexOK
    <3> QED  BY <2>3, <3>1 DEF ProcessEvents, TypeOK
  <2>4. CASE Processed  BY <2>4 DEF Processed, TypeOK
  <2> QED  BY <1>1, <2>1, <2>2, <2>3, <2>4
<1>2. ASSUME RebuildList PROVE TypeOK'
  <2>1. \A f \in Fds : Mask(f) \in SUBSET Events  BY DEF Mask
  <2>2. {fd(r) : r \in bound} \subseteq Fds  BY ScenarioFacts DEF TypeOK
  <2> QED  BY <1>2, <2>1, <2>2 DEF RebuildList, TypeOK
<1>3. ASSUME Poll PROVE TypeOK'
  <2>1. \A f \in Fds : Seen(f) \in SUBSET (Events \cup {"ERROR"})  BY DEF Seen, Events
  <2> QED  BY <1>3, <2>1 DEF Poll, TypeOK
<1>4. ASSUME NEW f \in Fds, ProcessEvent(f) PROVE TypeOK'
  <2>1. Sharing(f) \subseteq bound  BY DEF Sharing
  <2> QED  BY <1>4, <2>1 DEF ProcessEvent, TypeOK
<1>5. ASSUME NEW f \in Fds, Arrive(f) \/ Close(f) \/ Drain(f) PROVE TypeOK'
  BY <1>5, ScenarioFacts DEF Arrive, Close, Drain, TypeOK
<1>6. ASSUME Shutdown \/ ShutdownSignal \/ ShutdownLock PROVE TypeOK'
  <2>1. CASE Shutdown  BY <2>1 DEF Shutdown, TypeOK
  <2>2. CASE ShutdownSignal  BY <2>2 DEF ShutdownSignal, Signals, TypeOK
  <2>3. CASE ShutdownLock  BY <2>3 DEF ShutdownLock, Locks, TypeOK
  <2> QED  BY <1>6, <2>1, <2>2, <2>3
<1>7. ASSUME NEW r \in Reactions, Opens(r, "UDP") \/ Opens(r, "TCP") \/ Bind(r) \/ Shuts(r) \/ Signal(r) \/ Lock(r)
      PROVE TypeOK'
  <2>1. CASE Opens(r, "UDP") \/ Opens(r, "TCP")  BY <2>1 DEF Opens, TypeOK
  <2>2. CASE Bind(r)  BY <2>2 DEF Bind, Asks, TypeOK
  <2>3. CASE Shuts(r)  BY <2>3 DEF Shuts, TypeOK
  <2>4. CASE Signal(r)  
    <3>1. \/ op' = [op EXCEPT ![r] = "entering"]
          \/ op' = [op EXCEPT ![r] = "leaving"]
      BY <2>4 DEF Signal, TypeOK
    <3>2. op' \in [Reactions -> {"start", "open", "binding", "entering", "bound", "shut", "unbinding",
                                "leaving", "gone"}]
      BY <3>1 DEF TypeOK
    <3>3. /\ pipe' \in Nat
          /\ UNCHANGED <<scenario, lists, running, wake_requested, tasks_mutex, ppc, down, tasks, world>>
      BY <2>4 DEF Signal, Signals, TypeOK
    <3> QED  BY <3>2, <3>3 DEF TypeOK
  <2>5. CASE Lock(r)
    <3>1. \/ op' = [op EXCEPT ![r] = "bound"]
          \/ op' = [op EXCEPT ![r] = "gone"]
      BY <2>5 DEF Lock, TypeOK
    <3>2. op' \in [Reactions -> {"start", "open", "binding", "entering", "bound", "shut", "unbinding",
                                "leaving", "gone"}]
      BY <3>1 DEF TypeOK
    <3>3. /\ wake_requested' = FALSE /\ tasks_mutex' = Nobody
          /\ UNCHANGED <<scenario, lists, running, pipe, ppc, down, tasks, world>>
      BY <2>5 DEF Lock, Locks
    <3> QED  BY <3>2, <3>3 DEF TypeOK
  <2> QED  BY <1>7, <2>1, <2>2, <2>3, <2>4, <2>5
<1>8. ASSUME NEW r \in Reactions, Unbind(r) PROVE TypeOK'
  <2>1. left = {}  BY <1>8, ScenarioFacts DEF Unbind, Asks, MutexOK, TypeOK
  <2> QED  BY <1>8, <2>1 DEF Unbind, Asks, TypeOK
<1>9. ASSUME NEW r \in Reactions, RunTask(r) PROVE TypeOK'
  BY <1>9, ScenarioFacts DEF RunTask, TypeOK
<1>10. ASSUME NEW r \in Reactions, Throw(r) PROVE TypeOK'
  BY <1>10 DEF Throw, TypeOK, LivesOK
<1>11. ASSUME NEW r \in Reactions, FinishLast(r) PROVE TypeOK'
  <2>1. left = {}  BY <1>11, ScenarioFacts DEF FinishLast, MutexOK, TypeOK
  <2>2. outstanding[r] - 1 \in Nat  BY <1>11 DEF FinishLast, LivesOK
  <2>3. /\ run' \in [Reactions -> {"none", "run", "finish", "signal", "unmask"}]
        /\ outstanding' \in [Reactions -> Nat]
    BY <1>11, <2>2 DEF FinishLast, TypeOK
  <2>4. /\ waiting' \in [Reactions -> SUBSET Events] /\ processing' \in [Reactions -> SUBSET Events]
        /\ watches' \in [Fds -> SUBSET Events] /\ revents' \in [Fds -> SUBSET (Events \cup {"ERROR"})]
    BY <1>11 DEF FinishLast, TypeOK
  <2>5. /\ dirty' \in BOOLEAN /\ dropped' \subseteq Reactions /\ bound' \subseteq Reactions
        /\ left' \subseteq bound'
    BY <1>11, <2>1 DEF FinishLast, TypeOK
  <2>6. UNCHANGED <<scenario, listed, heard, eof, running, notifier, tasks_mutex, ppc, op, down, world>>
    BY <1>11 DEF FinishLast
  <2> QED  BY <2>3, <2>4, <2>5, <2>6 DEF TypeOK
<1>12. ASSUME NEW r \in Reactions, Finish(r) \/ FinishSignal(r) PROVE TypeOK'
  <2>1. CASE Finish(r)  BY <2>1 DEF Finish, Asks, TypeOK
  <2>2. CASE FinishSignal(r)  BY <2>2 DEF FinishSignal, Signals, TypeOK
  <2> QED  BY <1>12, <2>1, <2>2
<1>14. ASSUME NEW r \in Reactions, FireEvent(r) PROVE TypeOK'
  <2>1. PICK w \in SUBSET Events : Fires(r, w, processing[r], watches, run[r], outstanding[r])
    <3>1. PICK C \in SUBSET {"CLOSE"} :
            Fires(r, waiting[r] \cup (scenario.listens[r] \cap revents[fd(r)]) \cup C, processing[r],
                  watches, run[r], outstanding[r])
      BY <1>14, EventFires
    <3>2. waiting[r] \cup (scenario.listens[r] \cap revents[fd(r)]) \cup C \in SUBSET Events
      BY ScenarioFacts DEF TypeOK, Events
    <3> QED  BY <3>1, <3>2
  <2>3. /\ processing[r] \in SUBSET Events /\ watches \in [Fds -> SUBSET Events] /\ outstanding[r] \in Nat
        /\ run[r] \in {"none", "run", "finish", "signal", "unmask"}
    BY DEF TypeOK
  <2>4. /\ waiting' \in [Reactions -> SUBSET Events] /\ processing' \in [Reactions -> SUBSET Events]
        /\ watches' \in [Fds -> SUBSET Events]
        /\ run' \in [Reactions -> {"none", "run", "finish", "signal", "unmask"}]
        /\ outstanding' \in [Reactions -> Nat] /\ pending' \in [Fds -> Nat]
    BY <2>1, <2>3, FiresTypes
  <2> QED  BY <1>14, <2>4 DEF FireEvent, TypeOK
<1>15. ASSUME NEW r \in Reactions, FinishUnmask(r) PROVE TypeOK'
  <2>1. [watches EXCEPT ![fd(r)] = IF Found(fd(r)) THEN @ \cup processing[r] ELSE @] \in [Fds -> SUBSET Events]
    BY ScenarioFacts DEF TypeOK
  <2>2. outstanding[r] - 1 \in Nat  BY <1>15 DEF FinishUnmask, LivesOK
  <2>3. waiting[r] \in SUBSET Events /\ {} \in SUBSET Events  BY DEF TypeOK
  <2>4. /\ waiting' \in [Reactions -> SUBSET Events] /\ processing' \in [Reactions -> SUBSET Events]
        /\ watches' \in [Fds -> SUBSET Events]
        /\ run' \in [Reactions -> {"none", "run", "finish", "signal", "unmask"}]
        /\ outstanding' \in [Reactions -> Nat] /\ pending' \in [Fds -> Nat]
    BY <1>15, <2>1, <2>2, <2>3, FiresTypes, UnmaskFires
  <2> QED  BY <1>15, <2>4 DEF FinishUnmask, Locks, TypeOK
<1>16. CASE UNCHANGED vars  BY <1>16 DEF vars, TypeOK
<1> QED
  BY Steps, <1>1, <1>2, <1>3, <1>4, <1>5, <1>6, <1>7, <1>8, <1>9, <1>10, <1>11, <1>12, <1>14, <1>15, <1>16

LEMMA LivesNext ==
  ASSUME Base, Next
  PROVE  LivesOK'
<1> USE DEF Base, lists, notifier, tasks, world
<1>1. ASSUME Loop \/ RebuildList \/ Enter \/ Poll \/ ProcessEvents \/ Processed \/ UNCHANGED vars
             \/ Shutdown \/ ShutdownSignal \/ ShutdownLock \/ \E f \in Fds : ProcessEvent(f) \/ Arrive(f) \/ Close(f) \/ Drain(f)
      PROVE  LivesOK'
  <2>1. UNCHANGED <<bound, op, run, processing, waiting, outstanding>>
    BY <1>1 DEF Loop, RebuildList, Enter, Poll, ProcessEvents, Processed, ProcessEvent, vars,
                Shutdown, ShutdownSignal, ShutdownLock, Arrive, Close, Drain
  <2> QED  BY <2>1 DEF LivesOK
<1>2. ASSUME NEW r \in Reactions, Opens(r, "UDP") \/ Opens(r, "TCP") \/ Bind(r) \/ Shuts(r) \/ Signal(r) \/ Lock(r)
      PROVE LivesOK'
  <2>1. CASE Opens(r, "UDP") \/ Opens(r, "TCP")  BY <2>1 DEF Opens, TypeOK, LivesOK
  <2>2. CASE Bind(r)  BY <2>2 DEF Bind, TypeOK, LivesOK
  <2>3. CASE Shuts(r)  BY <2>3 DEF Shuts, TypeOK, LivesOK
  <2>4. CASE Signal(r)  BY <2>4 DEF Signal, TypeOK, LivesOK
  <2>5. CASE Lock(r)  BY <2>5 DEF Lock, TypeOK, LivesOK
  <2> QED  BY <1>2, <2>1, <2>2, <2>3, <2>4, <2>5
<1>3. ASSUME NEW r \in Reactions, Unbind(r) PROVE LivesOK'
  BY <1>3 DEF Unbind, TypeOK, LivesOK
<1>4. ASSUME NEW r \in Reactions, RunTask(r) \/ Finish(r) \/ FinishSignal(r) PROVE LivesOK'
  <2>1. /\ UNCHANGED <<bound, op, processing, waiting, outstanding>>
        /\ run[r] # "none" /\ \E l \in {"finish", "signal", "unmask"} : run' = [run EXCEPT ![r] = l]
    BY <1>4 DEF RunTask, Finish, FinishSignal
  <2> QED  BY <2>1 DEF LivesOK, TypeOK
<1>5. ASSUME NEW r \in Reactions, Throw(r) PROVE LivesOK'
  BY <1>5 DEF Throw, TypeOK, LivesOK
<1>6. ASSUME NEW r \in Reactions, FinishLast(r) PROVE LivesOK'
  BY <1>6 DEF FinishLast, TypeOK, LivesOK
<1>7. ASSUME NEW r \in Reactions, FireEvent(r) PROVE LivesOK'
  <2>1. PICK w : Fires(r, w, processing[r], watches, run[r], outstanding[r])
    BY <1>7, EventFires
  <2>2. r \in bound /\ UNCHANGED <<bound, op>>  BY <1>7 DEF FireEvent, TypeOK
  <2> QED  BY <2>1, <2>2 DEF Fires, TypeOK, LivesOK
<1>8. ASSUME NEW r \in Reactions, FinishUnmask(r) PROVE LivesOK'
  <2>1. Fires(r, waiting[r], {}, [watches EXCEPT ![fd(r)] = IF Found(fd(r)) THEN @ \cup processing[r] ELSE @],
              "none", outstanding[r] - 1)
    BY <1>8, UnmaskFires
  <2>2. r \in bound /\ run[r] = "unmask" /\ UNCHANGED <<bound, op>>  BY <1>8 DEF FinishUnmask, MutexOK
  <2> QED  BY <2>1, <2>2 DEF Fires, TypeOK, LivesOK
<1> QED  BY Steps, <1>1, <1>2, <1>3, <1>4, <1>5, <1>6, <1>7, <1>8

\* Each takes the mutex when it is free.
LEMMA MutexNext ==
  ASSUME Base, Next
  PROVE  MutexOK'
<1> USE DEF Base, lists, notifier, tasks, world
<1> scenario' = scenario  BY ScenarioStays
<1> scenario \in Scenarios  BY DEF TypeOK
<1>1. ASSUME Loop \/ Enter \/ Shutdown \/ ShutdownSignal \/ ShutdownLock \/ UNCHANGED vars
             \/ \E f \in Fds : Arrive(f) \/ Close(f) \/ Drain(f)
      PROVE  MutexOK'
  <2>1. /\ UNCHANGED <<bound, op, run, processing, tasks_mutex, left, heard, revents>> /\ pipe' >= pipe
        /\ \/ ppc' = ppc
           \/ ppc \notin {"collect", "events"} /\ ppc' \notin {"collect", "events"}
    BY <1>1 DEF Loop, Enter, vars, Shutdown, ShutdownSignal, ShutdownLock, Signals, Locks, Arrive, Close, Drain, TypeOK
  <2>2. pipe \in Nat /\ pipe' \in Nat  BY TypeNext DEF TypeOK
  <2> QED  BY <2>1, <2>2 DEF MutexOK, Working, fd
<1>2. ASSUME RebuildList PROVE MutexOK'
  BY <1>2 DEF RebuildList, MutexOK, Working, fd, TypeOK
<1>3. ASSUME Poll PROVE MutexOK'
  BY <1>3 DEF Poll, MutexOK, Working, fd, TypeOK
<1>4. ASSUME ProcessEvents PROVE MutexOK'
  BY <1>4, ScenarioFacts DEF ProcessEvents, MutexOK, Working, fd, TypeOK
<1>5. ASSUME Processed PROVE MutexOK'
  <2>1. \A r \in Reactions : ~Working(r) /\ run[r] \notin {"signal", "unmask"}
    BY <1>5, ScenarioFacts DEF Processed, MutexOK
  <2>2. /\ left = {} /\ \A f \in Fds : revents[f] = {}
        /\ ppc' = "loop" /\ UNCHANGED <<left, revents, heard, op, run, bound, processing, pipe>>
    BY <1>5 DEF Processed
  <2>3. ~heard  BY <1>5 DEF Processed, MutexOK
  <2> QED  BY <2>1, <2>2, <2>3 DEF MutexOK, Working
<1>6. ASSUME NEW f \in Fds, ProcessEvent(f) PROVE MutexOK'
  BY <1>6 DEF ProcessEvent, MutexOK, Working, fd, Sharing, TypeOK
<1>7. ASSUME NEW r \in Reactions, Opens(r, "UDP") \/ Opens(r, "TCP") \/ Shuts(r) PROVE MutexOK'
  BY <1>7 DEF Opens, Shuts, MutexOK, Working, fd, TypeOK
<1>8. ASSUME NEW r \in Reactions, Bind(r) PROVE MutexOK'
  BY <1>8, ScenarioFacts DEF Bind, Asks, MutexOK, Working, fd, TypeOK
<1>9. ASSUME NEW r \in Reactions, Unbind(r) PROVE MutexOK'
  BY <1>9, ScenarioFacts DEF Unbind, Asks, MutexOK, Working, fd, TypeOK
<1>10. ASSUME NEW r \in Reactions, Signal(r) PROVE MutexOK'
  BY <1>10 DEF Signal, Signals, MutexOK, Working, fd, TypeOK
<1>11. ASSUME NEW r \in Reactions, Lock(r) PROVE MutexOK'
  BY <1>11, ScenarioFacts DEF Lock, Locks, MutexOK, Working, fd, TypeOK
<1>12. ASSUME NEW r \in Reactions, RunTask(r) \/ Throw(r) PROVE MutexOK'
  BY <1>12 DEF RunTask, Throw, MutexOK, Working, fd, TypeOK
<1>13. ASSUME NEW r \in Reactions, FinishLast(r) PROVE MutexOK'
  BY <1>13, ScenarioFacts DEF FinishLast, MutexOK, Working, fd, TypeOK
<1>14. ASSUME NEW r \in Reactions, Finish(r) PROVE MutexOK'
  BY <1>14, ScenarioFacts DEF Finish, Asks, MutexOK, Working, fd, TypeOK
<1>15. ASSUME NEW r \in Reactions, FinishSignal(r) PROVE MutexOK'
  BY <1>15 DEF FinishSignal, Signals, MutexOK, Working, fd, TypeOK
<1>16. ASSUME NEW r \in Reactions, FireEvent(r) PROVE MutexOK'
  <2>1. PICK w : Fires(r, w, processing[r], watches, run[r], outstanding[r])
    BY <1>16, EventFires
  <2>2. /\ r \in bound /\ tasks_mutex = Poller /\ ppc = "events" /\ left' \subseteq left
        /\ UNCHANGED <<bound, op, tasks_mutex, ppc, pipe, heard>>
    BY <1>16 DEF FireEvent, TypeOK, MutexOK
  <2>3. \A q \in Reactions : run[q] \notin {"signal", "unmask"} /\ ~Working(q)
    BY <2>2, ScenarioFacts DEF MutexOK
  <2>4. \A q \in Reactions : run'[q] \notin {"signal", "unmask"}
    BY <2>1, <2>3 DEF Fires, TypeOK
  <2> QED  BY <2>2, <2>3, <2>4 DEF MutexOK, Working, fd, TypeOK
<1>17. ASSUME NEW r \in Reactions, FinishUnmask(r) PROVE MutexOK'
  <2>1. Fires(r, waiting[r], {}, [watches EXCEPT ![fd(r)] = IF Found(fd(r)) THEN @ \cup processing[r] ELSE @],
              "none", outstanding[r] - 1)
    BY <1>17, UnmaskFires
  <2>2. /\ run[r] = "unmask" /\ tasks_mutex' = Nobody /\ tasks_mutex = r
        /\ UNCHANGED <<bound, op, ppc, pipe, heard, left, revents>>
    BY <1>17 DEF FinishUnmask, Locks, MutexOK
  <2>3. \A q \in Reactions : run'[q] \notin {"signal", "unmask"} /\ ~Working(q)
    BY <2>1, <2>2 DEF Fires, TypeOK, MutexOK
  <2> QED  BY <2>2, <2>3, ScenarioFacts DEF MutexOK, Working, fd, TypeOK
<1> QED
  BY Steps, <1>1, <1>2, <1>3, <1>4, <1>5, <1>6, <1>7, <1>8, <1>9, <1>10, <1>11, <1>12, <1>13, <1>14, <1>15, <1>16, <1>17

LEMMA BaseNext ==
  ASSUME Base, Next
  PROVE  Base'
BY TypeNext, LivesNext, MutexNext DEF Base

\* What the two uses of fire_event leave of the masks.
LEMMA FireMasks ==
  ASSUME Base, NEW r \in Reactions, FireEvent(r) \/ FinishUnmask(r)
  PROVE  /\ r \in bound /\ UNCHANGED <<scenario, bound, listed, dropped, closed, op, ppc, dirty>>
         /\ \A q \in Reactions \ {r} : UNCHANGED <<waiting[q], processing[q], run[q]>>
         /\ \A f \in Fds \ {fd(r)} : UNCHANGED <<watches[f], pending[f]>>
         /\ processing'[r] \cup waiting'[r]
               \subseteq processing[r] \cup waiting[r] \cup scenario.listens[r] \cup {"CLOSE"}
<1>1. CASE FireEvent(r)
  <2>1. PICK C \in SUBSET {"CLOSE"} :
          Fires(r, waiting[r] \cup (scenario.listens[r] \cap revents[fd(r)]) \cup C, processing[r],
                watches, run[r], outstanding[r])
    BY <1>1, EventFires DEF Base
  <2>2. r \in bound /\ UNCHANGED <<scenario, bound, listed, dropped, closed, op, ppc, dirty>>
    BY <1>1 DEF FireEvent, Base, TypeOK
  <2>3. \A q \in Reactions \ {r} : UNCHANGED <<waiting[q], processing[q], run[q]>>
    BY <2>1 DEF Fires, Base, TypeOK
  <2>4. \A f \in Fds \ {fd(r)} : UNCHANGED <<watches[f], pending[f]>>
    BY <2>1, ScenarioFacts DEF Fires, Base, TypeOK
  <2>5. processing'[r] \cup waiting'[r]
          \subseteq processing[r] \cup waiting[r] \cup scenario.listens[r] \cup {"CLOSE"}
    <3> DEFINE w == waiting[r] \cup (scenario.listens[r] \cap revents[fd(r)]) \cup C
    <3>1. Fires(r, w, processing[r], watches, run[r], outstanding[r])  BY <2>1
    <3>2. w \subseteq waiting[r] \cup scenario.listens[r] \cup {"CLOSE"}  OBVIOUS
    <3> HIDE DEF w
    <3>3. processing'[r] \cup waiting'[r] \subseteq processing[r] \cup w
      BY <3>1 DEF Fires, Base, TypeOK
    <3> QED  BY <3>2, <3>3
  <2> QED  BY <2>2, <2>3, <2>4, <2>5
<1>2. CASE FinishUnmask(r)
  <2>1. Fires(r, waiting[r], {}, [watches EXCEPT ![fd(r)] = IF Found(fd(r)) THEN @ \cup processing[r] ELSE @],
              "none", outstanding[r] - 1)
    BY <1>2, UnmaskFires DEF Base
  <2>2. r \in bound /\ UNCHANGED <<scenario, bound, listed, dropped, closed, op, ppc, dirty>>
    BY <1>2 DEF FinishUnmask, Base, MutexOK
  <2>3. \A q \in Reactions \ {r} : UNCHANGED <<waiting[q], processing[q], run[q]>>
    BY <2>1 DEF Fires, Base, TypeOK
  <2>4. \A f \in Fds \ {fd(r)} : UNCHANGED <<watches[f], pending[f]>>
    BY <2>1, ScenarioFacts DEF Fires, Base, TypeOK
  <2>5. processing'[r] \cup waiting'[r] \subseteq waiting[r]
    BY <2>1 DEF Fires, Base, TypeOK
  <2> QED  BY <2>2, <2>3, <2>4, <2>5
<1> QED  BY <1>1, <1>2

LEMMA ListNext ==
  ASSUME Base, ListOK, Next
  PROVE  ListOK'
<1> USE DEF Base, lists, notifier, tasks, world
<1> scenario' = scenario  BY ScenarioStays
<1> scenario \in Scenarios  BY DEF TypeOK
<1>1. ASSUME \/ Loop \/ Enter \/ ProcessEvents \/ Processed \/ UNCHANGED vars
             \/ Shutdown \/ ShutdownSignal \/ ShutdownLock \/ \E f \in Fds : Arrive(f) \/ Close(f) \/ Drain(f)
             \/ \E r \in Reactions : \/ Opens(r, "UDP") \/ Opens(r, "TCP") \/ Shuts(r) \/ Signal(r) \/ Lock(r)
                                     \/ RunTask(r) \/ Throw(r) \/ Finish(r) \/ FinishSignal(r)
      PROVE  ListOK'
  <2>1. UNCHANGED <<bound, processing, waiting, listed, revents, left>>
    BY <1>1 DEF Loop, Enter, ProcessEvents, Processed, vars, Shutdown, ShutdownSignal, ShutdownLock,
                Arrive, Close, Drain, Opens, Shuts, Signal, Lock, RunTask, Throw, Finish, FinishSignal
  <2> QED  BY <2>1 DEF ListOK, fd
<1>2. ASSUME RebuildList PROVE ListOK'
  BY <1>2 DEF RebuildList, ListOK, MutexOK, fd
<1>3. ASSUME Poll PROVE ListOK'
  BY <1>3 DEF Poll, ListOK, MutexOK, fd
<1>4. ASSUME NEW f \in Fds, ProcessEvent(f) PROVE ListOK'
  BY <1>4, ScenarioFacts DEF ProcessEvent, ListOK, Sharing, fd, TypeOK
<1>5. ASSUME NEW r \in Reactions, Bind(r) PROVE ListOK'
  <2>1. processing[r] = {} /\ waiting[r] = {}  BY <1>5 DEF Bind, LivesOK
  <2> QED  BY <1>5, <2>1 DEF Bind, ListOK, fd
<1>6. ASSUME NEW r \in Reactions, Unbind(r) \/ FinishLast(r) PROVE ListOK'
  <2>1. /\ UNCHANGED <<listed, revents, left>> /\ bound' \subseteq bound
        /\ \A q \in bound' : UNCHANGED <<waiting[q], processing[q]>>
    BY <1>6 DEF Unbind, FinishLast, TypeOK
  <2> QED  BY <2>1 DEF ListOK, fd
<1>7. ASSUME NEW r \in Reactions, FireEvent(r) PROVE ListOK'
  <2>1. /\ UNCHANGED <<bound, listed>>
        /\ \A q \in Reactions \ {r} : UNCHANGED <<waiting[q], processing[q], run[q]>>
    BY <1>7, FireMasks
  <2>2. /\ left' = left \ {r} /\ r \in left
        /\ revents' = IF left = {r} THEN [revents EXCEPT ![fd(r)] = {}] ELSE revents
    BY <1>7 DEF FireEvent
  <2>3. \A f \in Fds : revents'[f] # {} => f \in listed'
    BY <2>1, <2>2 DEF ListOK, TypeOK
  <2>4. \A q \in left' : revents'[fd(q)] # {}
    BY <2>2 DEF ListOK
  <2>5. fd(r) \in listed
    BY <2>2, ScenarioFacts DEF ListOK, TypeOK
  <2>6. \A q \in bound' : processing'[q] \cup waiting'[q] # {} => fd(q) \in listed'
    BY <2>1, <2>5 DEF ListOK, TypeOK
  <2> QED  BY <2>3, <2>4, <2>6 DEF ListOK, fd
<1>8. ASSUME NEW r \in Reactions, FinishUnmask(r) PROVE ListOK'
  <2>1. /\ UNCHANGED <<bound, listed, revents, left>> /\ r \in bound /\ run[r] = "unmask"
        /\ \A q \in Reactions \ {r} : UNCHANGED <<waiting[q], processing[q], run[q]>>
    BY <1>8, FireMasks DEF FinishUnmask
  <2>2. fd(r) \in listed
    BY <2>1 DEF ListOK, LivesOK, TypeOK
  <2> QED  BY <2>1, <2>2 DEF ListOK, TypeOK, fd
<1> QED  BY Steps, <1>1, <1>2, <1>3, <1>4, <1>5, <1>6, <1>7, <1>8

LEMMA MarksNext ==
  ASSUME Base, MarksOK, Next
  PROVE  MarksOK'
<1> USE DEF Base, lists, notifier, tasks, world
<1> scenario' = scenario  BY ScenarioStays
<1>1. ASSUME \/ Loop \/ RebuildList \/ Enter \/ Poll \/ ProcessEvents \/ Processed \/ UNCHANGED vars
             \/ Shutdown \/ ShutdownSignal \/ ShutdownLock
             \/ \E f \in Fds : ProcessEvent(f) \/ Arrive(f) \/ Close(f) \/ Drain(f)
             \/ \E r \in Reactions : \/ Opens(r, "UDP") \/ Opens(r, "TCP") \/ Shuts(r) \/ Signal(r) \/ Lock(r)
                                     \/ RunTask(r) \/ Throw(r) \/ Finish(r) \/ FinishSignal(r)
      PROVE  MarksOK'
  <2>1. UNCHANGED <<bound, processing, waiting>>
    BY <1>1 DEF Loop, RebuildList, Enter, Poll, ProcessEvents, ProcessEvent, Processed, vars, Shutdown,
                ShutdownSignal, ShutdownLock,
                Arrive, Close, Drain, Opens, Shuts, Signal, Lock, RunTask, Throw, Finish, FinishSignal
  <2> QED  BY <2>1 DEF MarksOK
<1>2. ASSUME NEW r \in Reactions, Bind(r) PROVE MarksOK'
  <2>1. processing[r] = {} /\ waiting[r] = {}  BY <1>2 DEF Bind, LivesOK
  <2> QED  BY <1>2, <2>1 DEF Bind, MarksOK
<1>3. ASSUME NEW r \in Reactions, Unbind(r) \/ FinishLast(r) PROVE MarksOK'
  <2>1. bound' \subseteq bound /\ \A q \in bound' : UNCHANGED <<waiting[q], processing[q]>>
    BY <1>3 DEF Unbind, FinishLast, TypeOK
  <2> QED  BY <2>1 DEF MarksOK
<1>4. ASSUME NEW r \in Reactions, FireEvent(r) \/ FinishUnmask(r) PROVE MarksOK'
  <2>1. /\ r \in bound /\ UNCHANGED bound
        /\ \A q \in Reactions \ {r} : UNCHANGED <<waiting[q], processing[q], run[q]>>
        /\ processing'[r] \cup waiting'[r]
              \subseteq processing[r] \cup waiting[r] \cup scenario.listens[r] \cup {"CLOSE"}
    BY <1>4, FireMasks
  <2> QED  BY <2>1 DEF MarksOK, TypeOK
<1> QED  BY Steps, <1>1, <1>2, <1>3, <1>4

-----------------------------------------------------------------------------
(* What waits is heard.                                                    *)

\* The one reader of a descriptor is the only task whose masks hold READ.
LEMMA OthersDoNotRead ==
  ASSUME MarksOK, NEW q \in bound, NEW r \in Reactions, bound \subseteq Reactions, q # r, fd(q) = fd(r),
         OneReader(fd(r)), "READ" \in scenario.listens[r]
  PROVE  "READ" \notin processing[q] \cup waiting[q]
BY DEF MarksOK, OneReader

LEMMA HeardNext ==
  ASSUME Base, ListOK, MarksOK, HeardOK, Next
  PROVE  HeardOK'
<1> USE DEF Base, lists, notifier, tasks, world
<1>1. scenario' = scenario  BY ScenarioStays
<1>2. scenario \in Scenarios  BY DEF TypeOK
<1>3. SUFFICES ASSUME NEW r \in bound', OneReader(fd(r)), "READ" \in scenario.listens[r]
               PROVE  \/ fd(r) \in listed' /\ "READ" \in watches'[fd(r)] \cup processing'[r] \cup waiting'[r]
                      \/ dirty' /\ (ppc' \in {"enter", "polling"} => op'[r] = "binding" \/ pipe' > 0)
  BY <1>1 DEF HeardOK, OneReader, fd
<1> DEFINE Known == fd(r) \in listed /\ "READ" \in watches[fd(r)] \cup processing[r] \cup waiting[r]
           Told == dirty /\ (ppc \in {"enter", "polling"} => op[r] = "binding" \/ pipe > 0)
<1>4. r \in Reactions /\ fd(r) \in Fds /\ pipe \in Nat /\ pipe' \in Nat
  BY <1>2, TypeNext, ScenarioFacts DEF TypeOK
<1>5. r \in bound => Known \/ Told
  BY <1>3 DEF HeardOK
<1> HIDE DEF Known, Told
<1>6. ASSUME \/ Enter \/ Processed \/ UNCHANGED vars
             \/ Shutdown \/ ShutdownSignal \/ ShutdownLock
             \/ \E f \in Fds : Arrive(f) \/ Close(f) \/ Drain(f)
             \/ \E q \in Reactions : \/ Opens(q, "UDP") \/ Opens(q, "TCP") \/ Shuts(q)
                                     \/ RunTask(q) \/ Throw(q) \/ Finish(q) \/ FinishSignal(q)
      PROVE  Known' \/ Told'
  <2>1. /\ UNCHANGED <<bound, listed, watches, processing, waiting, dirty>> /\ pipe' >= pipe
        /\ ppc' \in {"enter", "polling"} => ppc \in {"enter", "polling"}
        /\ op[r] = "binding" => op'[r] = "binding"
    BY <1>4, <1>6 DEF Enter, Processed, vars, Shutdown, ShutdownSignal, ShutdownLock, Signals, Locks, Asks,
                Arrive, Close, Drain, Opens, Shuts, RunTask, Throw, Finish, FinishSignal, TypeOK
  <2> QED  BY <2>1, <1>1, <1>4, <1>5 DEF Known, Told, fd
<1>7. ASSUME Loop PROVE Known' \/ Told'
  BY <1>7, <1>1, <1>5 DEF Loop, Known, Told, fd
<1>8. ASSUME RebuildList PROVE Known' \/ Told'
  <2>1. fd(r) \in listed' /\ watches'[fd(r)] = Mask(fd(r)) /\ UNCHANGED <<processing, waiting, bound>>
    BY <1>8, <1>4 DEF RebuildList
  <2>2. "READ" \in Mask(fd(r)) \cup processing[r] \cup waiting[r]
    <3>1. SUFFICES ASSUME "READ" \notin processing[r] \cup waiting[r]
                   PROVE  "READ" \in Mask(fd(r))
      OBVIOUS
    <3>2. r \in Sharing(fd(r))  BY <2>1 DEF Sharing
    <3>3. \A q \in Sharing(fd(r)) : "READ" \notin processing[q] \cup waiting[q]
      BY <1>3, <1>4, <3>1, OthersDoNotRead DEF Sharing, TypeOK
    <3> QED  BY <1>3, <3>2, <3>3 DEF Mask, Events
  <2> QED  BY <1>1, <2>1, <2>2 DEF Known, fd
<1>9. ASSUME Poll \/ ProcessEvents PROVE Known' \/ Told'
  BY <1>9, <1>1, <1>5 DEF Poll, ProcessEvents, Known, Told, fd
<1>10. ASSUME NEW f \in Fds, ProcessEvent(f) PROVE Known' \/ Told'
  BY <1>10, <1>1, <1>5 DEF ProcessEvent, Known, Told, fd
<1>11. ASSUME NEW q \in Reactions, Bind(q) PROVE Known' \/ Told'
  <2>1. CASE q = r  BY <2>1, <1>4, <1>11 DEF Bind, Told, TypeOK
  <2>2. CASE q # r
    <3>1. r \in bound  BY <2>2, <1>11 DEF Bind
    <3> QED  BY <2>2, <1>1, <1>4, <1>5, <1>11, <3>1 DEF Bind, Known, Told, TypeOK, fd
  <2> QED  BY <2>1, <2>2
<1>12. ASSUME NEW q \in Reactions, Unbind(q) \/ FinishLast(q) PROVE Known' \/ Told'
  <2>1. UNCHANGED <<listed, watches, ppc, pipe>> /\ r \in bound /\ r # q
    BY <1>3, <1>12 DEF Unbind, FinishLast
  <2>2. waiting'[r] = waiting[r] /\ processing'[r] = processing[r] /\ (dirty => dirty') /\ op'[r] = op[r]
    BY <1>4, <1>12, <2>1 DEF Unbind, FinishLast, TypeOK
  <2> QED  BY <1>1, <1>5, <2>1, <2>2 DEF Known, Told, fd
<1>13. ASSUME NEW q \in Reactions, Signal(q) PROVE Known' \/ Told'
  BY <1>1, <1>4, <1>5, <1>13 DEF Signal, Signals, Known, Told, fd
<1>14. ASSUME NEW q \in Reactions, Lock(q) PROVE Known' \/ Told'
  BY <1>1, <1>4, <1>5, <1>14 DEF Lock, Locks, Known, Told, TypeOK, fd
<1>15. ASSUME NEW q \in Reactions, FireEvent(q) \/ FinishUnmask(q) PROVE Known' \/ Told'
  <2>1. /\ q \in bound /\ UNCHANGED <<bound, listed, op, ppc, dirty>>
        /\ \A p \in Reactions \ {q} : UNCHANGED <<waiting[p], processing[p], run[p]>>
        /\ \A f \in Fds \ {fd(q)} : UNCHANGED <<watches[f], pending[f]>>
    BY <1>15, FireMasks
  <2>2. r \in bound  BY <2>1
  <2>3. pipe' = pipe  BY <1>15 DEF FireEvent, FinishUnmask, Locks
  <2>4. Told => Told'  BY <2>1, <2>3 DEF Told
  <2>5. ASSUME Known PROVE Known'
    <3>1. CASE fd(q) # fd(r)
      BY <1>1, <1>4, <2>1, <2>5, <3>1 DEF Known, fd
    <3>2. CASE q # r /\ fd(q) = fd(r)
      <4>1. "READ" \notin processing[q] \cup waiting[q] \cup scenario.listens[q]
        BY <1>3, <1>4, <2>1, <3>2, OthersDoNotRead DEF OneReader, TypeOK
      <4>2. "READ" \in watches[fd(r)] => "READ" \in watches'[fd(r)]
        <5>1. CASE FireEvent(q)
          <6>1. PICK C \in SUBSET {"CLOSE"} :
                  Fires(q, waiting[q] \cup (scenario.listens[q] \cap revents[fd(q)]) \cup C, processing[q],
                        watches, run[q], outstanding[q])
            BY <5>1, EventFires
          <6>2. "READ" \notin waiting[q] \cup (scenario.listens[q] \cap revents[fd(q)]) \cup C
            BY <4>1
          <6> QED  BY <1>4, <3>2, <6>1, <6>2 DEF Fires, TypeOK
        <5>2. CASE FinishUnmask(q)
          <6>1. Fires(q, waiting[q], {}, [watches EXCEPT ![fd(q)] = IF Found(fd(q)) THEN @ \cup processing[q] ELSE @],
                      "none", outstanding[q] - 1)
            BY <5>2, UnmaskFires
          <6> QED  BY <1>4, <3>2, <4>1, <6>1 DEF Fires, TypeOK
        <5> QED  BY <1>15, <5>1, <5>2
      <4> QED  BY <1>1, <1>4, <2>1, <2>5, <3>2, <4>2 DEF Known, fd
    <3>3. CASE q = r
      <4>1. Found(fd(r))  BY <1>3, <2>5 DEF Found, Known, OneReader
      <4>2. CASE FireEvent(q)
        <5>1. PICK C \in SUBSET {"CLOSE"} :
                Fires(r, waiting[r] \cup (scenario.listens[r] \cap revents[fd(r)]) \cup C, processing[r],
                      watches, run[r], outstanding[r])
          BY <3>3, <4>2, EventFires
        <5>2. "READ" \in watches'[fd(r)] \cup processing'[r] \cup waiting'[r]
          BY <1>4, <2>5, <4>1, <5>1 DEF Known, Fires, TypeOK
        <5> QED  BY <1>1, <2>1, <2>5, <5>2 DEF Known, fd
      <4>3. CASE FinishUnmask(q)
        <5>1. Fires(r, waiting[r], {}, [watches EXCEPT ![fd(r)] = IF Found(fd(r)) THEN @ \cup processing[r] ELSE @],
                    "none", outstanding[r] - 1)
          BY <3>3, <4>3, UnmaskFires
        <5>2. "READ" \in watches'[fd(r)] \cup processing'[r] \cup waiting'[r]
          BY <1>4, <2>5, <4>1, <5>1 DEF Known, Fires, TypeOK
        <5> QED  BY <1>1, <2>1, <2>5, <5>2 DEF Known, fd
      <4> QED  BY <1>15, <4>2, <4>3
    <3> QED  BY <3>1, <3>2, <3>3
  <2> QED  BY <1>5, <2>2, <2>4, <2>5
<1>16. Known' \/ Told'
  BY Steps, <1>6, <1>7, <1>8, <1>9, <1>10, <1>11, <1>12, <1>13, <1>14, <1>15
<1> QED  BY <1>1, <1>16 DEF Known, Told, fd

-----------------------------------------------------------------------------
(* An end of file is one.                                                  *)

\* While the other end is open, a task of a descriptor with one reader is the reader's.
LEMMA WhoReads ==
  ASSUME Base, MarksOK, EofOK, "drain" \notin scenario.also, NEW f \in Fds \ closed, OneReader(f),
         ~EmptyCame(f), NEW r \in Reactions, fd(r) = f, Reading(r)
  PROVE  /\ "READ" \in scenario.listens[r]
         /\ r \in bound => processing[r] = {"READ"}
<1>1. "READ" \in processing[r] => r \in bound
  BY DEF Base, LivesOK
<1>2. "READ" \in scenario.listens[r]
  BY <1>1 DEF MarksOK, EofOK, Reading
<1>3. ASSUME r \in bound PROVE processing[r] = {"READ"}
  <2>1. processing[r] # {}  BY <1>3 DEF Reading, Base, LivesOK
  <2>2. processing[r] \subseteq Events /\ "CLOSE" \notin processing[r]
    BY DEF Base, TypeOK, EofOK
  <2> QED  BY <2>1, <2>2 DEF Events
<1> QED  BY <1>2, <1>3

LEMMA EofNext ==
  ASSUME Base, ListOK, MarksOK, EofOK, Next
  PROVE  EofOK'
<1> USE DEF Base, lists, notifier, tasks, world
<1>1. scenario' = scenario  BY ScenarioStays
<1>2. scenario \in Scenarios  BY DEF TypeOK
<1>3. closed \subseteq closed'
  <2>1. ASSUME NEW f \in Fds, Arrive(f) \/ Close(f) \/ Drain(f) PROVE closed \subseteq closed'
    BY <2>1 DEF Arrive, Close, Drain
  <2>2. ASSUME NEW r \in Reactions,
               \/ Opens(r, "UDP") \/ Opens(r, "TCP") \/ Bind(r) \/ Shuts(r) \/ Unbind(r) \/ Signal(r) \/ Lock(r)
               \/ RunTask(r) \/ Throw(r) \/ FinishLast(r) \/ Finish(r) \/ FinishSignal(r) \/ FinishUnmask(r)
        PROVE  closed' = closed
    BY <2>2 DEF Opens, Bind, Shuts, Unbind, Signal, Lock, RunTask, Throw, FinishLast, Finish,
                FinishSignal, FinishUnmask
  <2>3. ASSUME NEW r \in Reactions, FireEvent(r) PROVE closed' = closed
    BY <2>3 DEF FireEvent
  <2>4. ASSUME NEW f \in Fds, ProcessEvent(f) PROVE closed' = closed
    BY <2>4 DEF ProcessEvent
  <2>5. ASSUME \/ Loop \/ RebuildList \/ Enter \/ Poll \/ ProcessEvents \/ Processed
               \/ Shutdown \/ ShutdownSignal \/ ShutdownLock \/ UNCHANGED vars
        PROVE  closed' = closed
    BY <2>5 DEF Loop, RebuildList, Enter, Poll, ProcessEvents, Processed, Shutdown, ShutdownSignal,
                ShutdownLock, vars
  <2> QED  BY Steps, <2>1, <2>2, <2>3, <2>4, <2>5
<1> DEFINE CurrentNext(f) == \E r \in left' : fd(r) = f
           ReadingNext(r) == run'[r] = "run" \/ "READ" \in processing'[r]
<1> DEFINE
      OpenNext(f) ==
        /\ "CLOSE" \notin revents'[f]
        /\ "READ" \in revents'[f] => pending'[f] > 0 \/ CurrentNext(f)
        /\ ~(eof' /\ CurrentNext(f))
        /\ \A r \in Reactions : fd(r) = f =>
             /\ "CLOSE" \notin processing'[r] \cup waiting'[r]
             /\ run'[r] = "run" => "READ" \in scenario.listens[r]
             /\ ReadingNext(r) => "READ" \notin watches'[f] /\ ("READ" \in revents'[f] => CurrentNext(f))
             /\ r \notin dropped'
<1> DEFINE EmptyNext(f) == \E i \in scenario.empty[f] : i <= scenario.data[f] - coming'[f]
<1>16. \A f \in Fds : coming'[f] <= coming[f]
  <2>1. ASSUME NEW g \in Fds, Arrive(g) \/ Close(g) \/ Drain(g)
        PROVE  \A f \in Fds : coming'[f] <= coming[f]
    BY <2>1 DEF Arrive, Close, Drain, TypeOK
  <2>2. ASSUME NEW r \in Reactions,
               \/ Opens(r, "UDP") \/ Opens(r, "TCP") \/ Bind(r) \/ Shuts(r) \/ Unbind(r) \/ Signal(r) \/ Lock(r)
               \/ RunTask(r) \/ Throw(r) \/ FinishLast(r) \/ Finish(r) \/ FinishSignal(r) \/ FinishUnmask(r)
        PROVE  coming' = coming
    BY <2>2 DEF Opens, Bind, Shuts, Unbind, Signal, Lock, RunTask, Throw, FinishLast, Finish,
                FinishSignal, FinishUnmask
  <2>3. ASSUME NEW r \in Reactions, FireEvent(r) PROVE coming' = coming
    BY <2>3 DEF FireEvent
  <2>4. ASSUME NEW f \in Fds, ProcessEvent(f) PROVE coming' = coming
    BY <2>4 DEF ProcessEvent
  <2>5. ASSUME \/ Loop \/ RebuildList \/ Enter \/ Poll \/ ProcessEvents \/ Processed
               \/ Shutdown \/ ShutdownSignal \/ ShutdownLock \/ UNCHANGED vars
        PROVE  coming' = coming
    BY <2>5 DEF Loop, RebuildList, Enter, Poll, ProcessEvents, Processed, Shutdown, ShutdownSignal,
                ShutdownLock, vars
  <2>6. \A f \in Fds : coming[f] <= coming[f]  BY DEF TypeOK
  <2> QED  BY Steps, <2>1, <2>2, <2>3, <2>4, <2>5, <2>6
<1>17. \A f \in Fds : EmptyCame(f) => EmptyNext(f)
  <2>1. ASSUME NEW f \in Fds, NEW i \in scenario.empty[f], i <= scenario.data[f] - coming[f]
        PROVE  i <= scenario.data[f] - coming'[f]
    <3>1. i \in Nat /\ scenario.data[f] \in Nat /\ coming[f] \in Nat /\ coming'[f] \in Nat
      BY <1>2, TypeNext, ScenarioFacts DEF TypeOK
    <3> QED  BY <1>16, <2>1, <3>1
  <2> QED  BY <2>1 DEF EmptyCame
<1>4. SUFFICES ASSUME "drain" \notin scenario.also, NEW f \in Fds \ closed, f \notin closed', OneReader(f),
                      ~EmptyCame(f)
               PROVE  OpenNext(f)
  <2>1. \A r : fd(r)' = fd(r)  BY <1>1 DEF fd
  <2>2. \A f : OneReader(f)' = OneReader(f) /\ Current(f)' = CurrentNext(f)
    BY <1>1 DEF OneReader, Current, fd
  <2>3. \A r : Reading(r)' = ReadingNext(r)  BY DEF Reading
  <2>4. \A f : EmptyCame(f)' = EmptyNext(f)  BY <1>1 DEF EmptyCame
  <2>5. SUFFICES ASSUME "drain" \notin scenario.also, NEW f \in Fds \ closed', OneReader(f), ~EmptyNext(f)
                 PROVE  OpenNext(f)
    BY <1>1, <2>1, <2>2, <2>3, <2>4 DEF EofOK
  <2> QED  BY <1>3, <1>17, <2>5
<1>5. /\ "CLOSE" \notin revents[f]
      /\ "READ" \in revents[f] => pending[f] > 0 \/ Current(f)
      /\ ~(eof /\ Current(f))
      /\ \A r \in Reactions : fd(r) = f =>
           /\ "CLOSE" \notin processing[r] \cup waiting[r]
           /\ run[r] = "run" => "READ" \in scenario.listens[r]
           /\ Reading(r) => "READ" \notin watches[f] /\ ("READ" \in revents[f] => Current(f))
           /\ r \notin dropped
  BY <1>4 DEF EofOK
<1>6. ASSUME \/ Loop \/ Enter \/ ProcessEvents \/ Processed \/ UNCHANGED vars
             \/ Shutdown \/ ShutdownSignal \/ ShutdownLock
             \/ \E g \in Fds : Arrive(g) \/ Close(g) \/ Drain(g)
             \/ \E q \in Reactions : \/ Opens(q, "UDP") \/ Opens(q, "TCP") \/ Bind(q) \/ Shuts(q) \/ Signal(q) \/ Lock(q)
                                     \/ Throw(q) \/ Finish(q) \/ FinishSignal(q)
      PROVE  OpenNext(f)
  <2>1. UNCHANGED <<revents, left, eof, processing, waiting, watches, dropped>>
    BY <1>6 DEF Loop, Enter, ProcessEvents, Processed, vars, Shutdown, ShutdownSignal, ShutdownLock,
                Arrive, Close, Drain, Opens, Bind, Shuts, Signal, Lock, Throw, Finish, FinishSignal
  <2>2. pending[f] > 0 => pending'[f] > 0
    BY <1>4, <1>6 DEF Loop, Enter, ProcessEvents, Processed, vars, Shutdown, ShutdownSignal, ShutdownLock,
                Arrive, Close, Drain, Opens, Bind, Shuts, Signal, Lock, Throw, Finish, FinishSignal, TypeOK
  <2>3. \A r \in Reactions : run'[r] = "run" => run[r] = "run"
    BY <1>6 DEF Loop, Enter, ProcessEvents, Processed, vars, Shutdown, ShutdownSignal, ShutdownLock,
                Arrive, Close, Drain, Opens, Bind, Shuts, Signal, Lock, Throw, Finish, FinishSignal, TypeOK
  <2> QED  BY <1>5, <2>1, <2>2, <2>3 DEF Current, Reading
<1>7. ASSUME NEW q \in Reactions, RunTask(q) PROVE OpenNext(f)
  <2>1. /\ UNCHANGED <<revents, left, eof, processing, waiting, watches, dropped>>
        /\ run[q] = "run"
        /\ \A r \in Reactions : run'[r] = "run" => run[r] = "run"
    BY <1>7 DEF RunTask, TypeOK
  <2>2. fd(q) # f => pending'[f] = pending[f]
    BY <1>7 DEF RunTask, TypeOK
  <2>3. fd(q) = f => ("READ" \in revents[f] => Current(f))
    BY <1>5, <2>1 DEF Reading
  <2> QED  BY <1>5, <2>1, <2>2, <2>3 DEF Current, Reading
<1>8. ASSUME NEW q \in Reactions, Unbind(q) \/ FinishLast(q) PROVE OpenNext(f)
  <2>1. /\ UNCHANGED <<revents, left, eof, watches, pending>>
        /\ \A r \in Reactions : /\ processing'[r] \in {processing[r], {}} /\ waiting'[r] \in {waiting[r], {}}
                                /\ run'[r] = "run" => run[r] = "run"
    BY <1>8 DEF Unbind, FinishLast, TypeOK
  <2>2. \A r \in Reactions : fd(r) = f => r \notin dropped'
    BY <1>5, <1>8 DEF Unbind, FinishLast
  <2>3. \A r \in Reactions : ReadingNext(r) => Reading(r)
    BY <2>1 DEF Reading
  <2>4. \A r \in Reactions : fd(r) = f => "CLOSE" \notin processing'[r] \cup waiting'[r]
    BY <1>5, <2>1
  <2>5. Current(f) = CurrentNext(f)
    BY <2>1 DEF Current
  <2> HIDE DEF CurrentNext, ReadingNext
  <2> QED  BY <1>5, <2>1, <2>2, <2>3, <2>4, <2>5
<1>9. ASSUME RebuildList PROVE OpenNext(f)
  <2>1. /\ revents'[f] = {} /\ watches'[f] = Mask(f) /\ left' = {}
        /\ UNCHANGED <<processing, waiting, run, dropped>>
    BY <1>4, <1>9 DEF RebuildList, MutexOK
  <2>2. ASSUME NEW r \in Reactions, fd(r) = f, Reading(r), "READ" \in Mask(f) PROVE FALSE
    <3>1. "READ" \in scenario.listens[r] /\ (r \in bound => processing[r] = {"READ"})
      BY <1>4, <2>2, WhoReads
    <3>2. PICK q \in Sharing(f) : "READ" \in scenario.listens[q] /\ "READ" \notin processing[q] \cup waiting[q]
      BY <2>2 DEF Mask
    <3>3. q = r /\ q \in bound  BY <1>4, <2>2, <3>1, <3>2 DEF Sharing, OneReader, TypeOK
    <3> QED  BY <3>1, <3>2, <3>3
  <2> QED  BY <1>5, <2>1, <2>2 DEF Reading
<1>10. ASSUME Poll PROVE OpenNext(f)
  <2>1. /\ UNCHANGED <<left, eof, processing, waiting, watches, run, pending, dropped>> /\ left = {}
        /\ revents'[f] = IF f \in listed THEN Seen(f) ELSE {}
    BY <1>4, <1>10 DEF Poll, MutexOK
  <2>2. "CLOSE" \notin revents'[f] /\ ("READ" \in revents'[f] => pending[f] > 0 /\ "READ" \in watches[f])
    BY <1>4, <2>1 DEF Seen
  <2> QED  BY <1>5, <2>1, <2>2 DEF Reading
<1>11. ASSUME NEW g \in Fds, ProcessEvent(g) PROVE OpenNext(f)
  <2>1. /\ UNCHANGED <<processing, waiting, watches, run, pending, dropped>> /\ left = {} /\ ~Current(f)
        /\ left' = Sharing(g)
        /\ revents' = IF Sharing(g) = {} THEN [revents EXCEPT ![g] = {}] ELSE revents
        /\ eof' => "READ" \in revents[g] /\ NoBytes(g)
    BY <1>11 DEF ProcessEvent, Current
  <2>2. CASE g = f
    <3>1. ~eof'
      <4>1. "READ" \in revents[f] => pending[f] > 0  BY <1>5, <2>1
      <4>2. /\ scenario.data[f] \in Nat /\ coming[f] \in Nat /\ pending[f] \in Nat
            /\ scenario.empty[f] \subseteq Nat
        BY <1>2, ScenarioFacts DEF TypeOK
      <4>3. pending[f] > 0 => ~NoBytes(f)  BY <1>4, <4>2 DEF NoBytes, Front, EmptyCame
      <4> QED  BY <2>1, <2>2, <4>1, <4>3
    <3>2. (revents'[f] = revents[f] /\ CurrentNext(f)) \/ revents'[f] = {}
      BY <1>4, <2>1, <2>2 DEF Sharing, TypeOK
    <3> QED  BY <1>5, <2>1, <3>1, <3>2 DEF Reading
  <2>3. CASE g # f
    <3>1. ~CurrentNext(f) /\ revents'[f] = revents[f]
      BY <1>4, <2>1, <2>3 DEF Sharing, TypeOK
    <3> QED  BY <1>5, <2>1, <3>1 DEF Reading
  <2> QED  BY <2>2, <2>3
<1>12. ASSUME NEW q \in Reactions, FireEvent(q) PROVE OpenNext(f)
  <2>1. /\ q \in bound /\ q \in left /\ left' = left \ {q} /\ UNCHANGED <<eof, dropped>>
        /\ revents' = IF left = {q} THEN [revents EXCEPT ![fd(q)] = {}] ELSE revents
    BY <1>12, FireMasks DEF FireEvent
  <2>2. /\ \A r \in Reactions \ {q} : UNCHANGED <<waiting[r], processing[r], run[r]>>
        /\ \A g \in Fds \ {fd(q)} : UNCHANGED <<watches[g], pending[g]>>
    BY <1>12, FireMasks
  <2>3. CASE fd(q) # f
    <3>1. ~Current(f) /\ ~CurrentNext(f) /\ revents'[f] = revents[f]
      BY <1>4, <2>1, <2>3 DEF Current, MutexOK, TypeOK
    <3> QED  BY <1>4, <1>5, <2>1, <2>2, <2>3, <3>1 DEF Reading
  <2>4. CASE fd(q) = f
    <3>1. \/ revents'[f] = revents[f] /\ CurrentNext(f)
          \/ revents'[f] = {} /\ ~CurrentNext(f)
      BY <1>4, <2>1, <2>4 DEF MutexOK, TypeOK
    <3>2. Current(f) /\ ~eof  BY <1>5, <2>1, <2>4 DEF Current
    <3>3. Found(f)
      BY <1>4, <2>1, <2>4 DEF ListOK, Found, OneReader, TypeOK
    <3>4. PICK w : /\ Fires(q, w, processing[q], watches, run[q], outstanding[q])
                   /\ w \subseteq waiting[q] \cup (scenario.listens[q] \cap revents[f])
      BY <1>12, <2>4, <3>2, EventFires
    <3>5. w \subseteq {"READ"} /\ (w # {} => "READ" \in scenario.listens[q])
      <4>1. w \subseteq Events  BY <1>2, <3>4, ScenarioFacts DEF TypeOK, Events
      <4>2. "CLOSE" \notin w  BY <1>5, <2>4, <3>4
      <4>3. w \subseteq scenario.listens[q] \cup {"CLOSE"}  BY <2>1, <3>4 DEF MarksOK
      <4> QED  BY <4>1, <4>2, <4>3 DEF Events
    <3>6. /\ watches'[f] \subseteq watches[f]
          /\ \/ run'[q] = run[q] /\ processing'[q] = processing[q] /\ waiting'[q] = w
             \/ /\ run'[q] = "run" /\ processing'[q] = w /\ waiting'[q] = {} /\ w # {}
                /\ watches'[f] = watches[f] \ w
      BY <1>4, <2>4, <3>3, <3>4 DEF Fires, TypeOK
    <3> HIDE DEF CurrentNext
    <3>7. /\ "CLOSE" \notin processing'[q] \cup waiting'[q]
          /\ run'[q] = "run" => "READ" \in scenario.listens[q]
          /\ ReadingNext(q) => "READ" \notin watches'[f]
      <4>1. /\ "CLOSE" \notin processing[q] \cup waiting[q] /\ (run[q] = "run" => "READ" \in scenario.listens[q])
            /\ run[q] = "run" \/ "READ" \in processing[q] => "READ" \notin watches[f]
        BY <1>5, <2>4 DEF Reading
      <4>2. CASE run'[q] = run[q] /\ processing'[q] = processing[q] /\ waiting'[q] = w
        <5>1. "CLOSE" \notin processing'[q] \cup waiting'[q]  BY <4>1, <4>2, <3>5
        <5> QED  BY <4>1, <4>2, <5>1, <3>6
      <4>3. CASE /\ run'[q] = "run" /\ processing'[q] = w /\ waiting'[q] = {} /\ w # {}
                 /\ watches'[f] = watches[f] \ w
        BY <4>3, <3>5
      <4> QED  BY <4>2, <4>3, <3>6
    <3> QED  BY <1>5, <2>1, <2>2, <3>1, <3>2, <3>6, <3>7 DEF Reading
  <2> QED  BY <2>3, <2>4
<1>13. ASSUME NEW q \in Reactions, FinishUnmask(q) PROVE OpenNext(f)
  <2>1. /\ q \in bound /\ run[q] = "unmask" /\ UNCHANGED <<left, eof, revents, dropped>>
        /\ left = {} /\ ~Current(f) /\ "CLOSE" \notin processing[q]
    BY <1>2, <1>13, ScenarioFacts DEF FinishUnmask, MutexOK, Current
  <2>2. /\ \A r \in Reactions \ {q} : UNCHANGED <<waiting[r], processing[r], run[r]>>
        /\ \A g \in Fds \ {fd(q)} : UNCHANGED <<watches[g], pending[g]>>
    BY <1>13, FireMasks
  <2>3. CASE fd(q) # f
    BY <1>4, <1>5, <2>1, <2>2, <2>3 DEF Reading, Current
  <2>4. CASE fd(q) = f
    <3>1. "READ" \in processing[q]
      BY <2>1 DEF LivesOK, TypeOK, Events
    <3>2. "READ" \notin revents'[f]
      BY <1>5, <2>1, <2>4, <3>1 DEF Reading
    <3>3. "READ" \in scenario.listens[q]
      BY <2>1, <3>1 DEF MarksOK
    <3>4. \A r \in Reactions \ {q} : fd(r) = f => ~Reading(r)
      BY <1>4, <2>4, <3>3, WhoReads DEF OneReader
    <3>5. Found(f)
      BY <1>4, <2>1, <2>4, <3>1 DEF ListOK, Found, OneReader
    <3>6. Fires(q, waiting[q], {}, [watches EXCEPT ![fd(q)] = IF Found(fd(q)) THEN @ \cup processing[q] ELSE @],
                "none", outstanding[q] - 1)
      BY <1>13, UnmaskFires
    <3>7. \/ run'[q] = "none" /\ processing'[q] = {} /\ waiting'[q] = waiting[q]
          \/ /\ run'[q] = "run" /\ processing'[q] = waiting[q] /\ waiting'[q] = {} /\ waiting[q] # {}
             /\ watches'[f] = (watches[f] \cup processing[q]) \ waiting[q]
      BY <1>4, <2>4, <3>5, <3>6 DEF Fires, TypeOK
    <3>8. waiting[q] # {} => waiting[q] = {"READ"}
      BY <1>5, <2>4 DEF TypeOK, Events
    <3>9. /\ "CLOSE" \notin processing'[q] \cup waiting'[q]
          /\ ReadingNext(q) => "READ" \notin watches'[f]
      BY <1>5, <2>4, <3>7, <3>8
    <3> QED  BY <1>5, <2>1, <2>2, <3>2, <3>3, <3>4, <3>9 DEF Reading
  <2> QED  BY <2>3, <2>4
<1>14. OpenNext(f)
  BY Steps, <1>6, <1>7, <1>8, <1>9, <1>10, <1>11, <1>12, <1>13
<1> QED  BY <1>14

-----------------------------------------------------------------------------
(* The theorems.                                                           *)

LEMMA RestInit ==
  ASSUME Init
  PROVE  ListOK /\ MarksOK /\ HeardOK /\ EofOK
<1>1. scenario \in Scenarios  BY DEF Init
<1>2. ListOK /\ MarksOK /\ HeardOK  BY <1>1 DEF Init, ListOK, MarksOK, HeardOK
<1>3. \A r \in Reactions : ~Reading(r) /\ run[r] # "run"  BY DEF Init, Reading
<1> QED  BY <1>1, <1>2, <1>3 DEF Init, EofOK, Current

\* Every reachable state satisfies the inductive invariant: who holds tasks_mutex,
\* which reaction is bound, processing and in flight, what the list of poll leaves
\* out and who has been told that it is dirty (IOController_Posix.ipp:93-360).
THEOREM Invariance == Spec => []Inv
<1>1. Init => Inv  BY BaseInit, RestInit DEF Inv, Base
<1>2. Inv /\ [Next]_vars => Inv'
  <2>1. ASSUME Inv, Next PROVE Inv'
    <3>1. Base /\ ListOK /\ MarksOK /\ HeardOK /\ EofOK  BY <2>1 DEF Inv, Base
    <3>2. Base' /\ ListOK' /\ MarksOK' /\ HeardOK' /\ EofOK'
      BY <2>1, <3>1, BaseNext, ListNext, MarksNext, HeardNext, EofNext
    <3> QED  BY <3>2 DEF Inv, Base
  <2>2. ASSUME Inv, UNCHANGED vars PROVE Inv'
    BY <2>2 DEF Inv, vars, lists, notifier, tasks, world, TypeOK, LivesOK, MutexOK, Working, ListOK, MarksOK,
                HeardOK, OneReader, EofOK, EmptyCame, Current, Reading, fd
  <2> QED  BY <2>1, <2>2
<1> QED  BY <1>1, <1>2, PTL DEF Spec

\* A reaction never has two tasks in flight, whatever the poll thread, the end of a
\* task and an unbind do together (fire_event, IOController_Posix.ipp:120-154).
THEOREM TasksOKHolds == Spec => []TasksOK
<1>1. Inv => TasksOK  BY DEF Inv, LivesOK, TasksOK, OneAtATime
<1> QED  BY <1>1, Invariance, PTL

\* A poll thread that sleeps listens for every reaction that reads, is not at work and
\* has not been refused (rebuild_list and IOFinished, IOController_Posix.ipp:93-118, 268-294).
THEOREM NotDeafHolds == Spec => []NotDeaf
<1>1. ASSUME Inv PROVE NotDeaf
  <2>1. ASSUME ppc = "polling", pipe = 0, tasks_mutex = Nobody, NEW r \in bound,
               OneReader(fd(r)), "READ" \in scenario.listens[r], processing[r] = {}, waiting[r] = {}
        PROVE  fd(r) \in listed /\ "READ" \in watches[fd(r)]
    <3>1. op[r] # "binding"
      BY <1>1, <2>1, ScenarioFacts DEF Inv, TypeOK, MutexOK, Working
    <3> QED  BY <1>1, <2>1, <3>1 DEF Inv, HeardOK
  <2> QED  BY <2>1 DEF NotDeaf
<1> QED  BY <1>1, Invariance, PTL

\* A reaction that is the only one to read its descriptor is erased only once the other
\* end has closed or an empty datagram has come, although nothing to read is taken for the
\* end (process_event,
\* IOController_Posix.ipp:169-212).
THEOREM DroppedOnlyAtEofHolds == Spec => []DroppedOnlyAtEof
<1>1. Inv => DroppedOnlyAtEof
  BY ScenarioFacts DEF Inv, TypeOK, EofOK, DroppedOnlyAtEof
<1> QED  BY <1>1, Invariance, PTL
=============================================================================

----------------------------- MODULE IOController -----------------------------
(***************************************************************************)
(* IOController on a POSIX system, with the IO, UDP and TCP words that     *)
(* bind reactions to it: one thread polls the file descriptors and fires   *)
(* the reactions, any thread binds and unbinds them, and the thread that   *)
(* ran a task says that it finished.                                       *)
(*                                                                         *)
(* Each handler holds tasks_mutex and is cut where it wakes the poll       *)
(* thread: wake_requested, a byte in the pipe, notifier.mutex.  The poll   *)
(* thread holds notifier.mutex exactly while it is in poll.                *)
(***************************************************************************)
EXTENDS Integers, Sequences

CONSTANTS Reactions, Fds, Scenarios

Events == {"READ", "CLOSE"}   \* that a word listens to
Nobody == "nobody"
Poller == "poller"            \* the poll thread
\* A scenario gives the reactions that are bound in the order of Task's
\* operator< (by descriptor), the descriptor, word and events of each, those
\* that are unbound later, the bytes or datagrams that come to each descriptor,
\* which of the datagrams are empty, the descriptors whose other end closes, those
\* where poll tells it (a pipe, not a socket), the number of the notifier's own
\* descriptor, and what else happens: get_task may refuse (a disabled reaction,
\* a packet for another address), another thread reads the descriptors too, a
\* callback may throw, a socket cannot be opened, and the power plant shuts down.
ASSUME IOAssumption ==
  /\ Fds \subseteq Nat /\ Nobody \notin Reactions /\ Poller \notin Reactions
  /\ \A s \in Scenarios :
       /\ s.order \in Seq(Reactions)
       /\ \A i, j \in DOMAIN s.order : s.order[i] = s.order[j] => i = j
       /\ \A i, j \in DOMAIN s.order : i <= j => s.fd[s.order[i]] <= s.fd[s.order[j]]
       /\ s.fd \in [Reactions -> Fds] /\ s.listens \in [Reactions -> SUBSET Events]
       /\ s.word \in [Reactions -> {"IO", "UDP", "TCP"}]
       /\ s.unbinds \subseteq Reactions /\ s.data \in [Fds -> Nat] /\ s.empty \in [Fds -> SUBSET Nat]
       /\ s.closes \subseteq Fds /\ s.hangups \subseteq Fds
       /\ s.notifier \in Nat /\ s.also \subseteq {"refuse", "drain", "throw", "shutdown", "fail"}

VARIABLES
  scenario,       \* chosen at the start, it never changes
  bound,          \* the reactions in tasks
  waiting, processing,   \* of each of them
  listed, watches,       \* the descriptors of the list for poll, and what it asks
  revents, heard, \* what poll answered, of the descriptors and of the notifier
  left, eof,      \* of the event being processed: the reactions still to be looked
                  \* at, and whether there was nothing to read
  dirty, running,
  wake_requested, pipe,  \* of the notifier
  tasks_mutex,
  ppc,            \* the poll thread
  op,             \* the thread that binds and unbinds each reaction
  run,            \* the task of each reaction, up to the end of its post_run
  down,           \* the thread that shuts down
  pending,        \* what can be read from each descriptor
  coming,         \* what is still to come
  closed,         \* the descriptors whose other end has closed
  outstanding,    \* history: tasks submitted and not finished
  dropped         \* history: reactions dropped because they closed

lists == <<bound, waiting, processing, listed, watches, revents, heard, left, eof, dirty>>
notifier == <<wake_requested, pipe>>
tasks == <<run, outstanding, dropped>>
world == <<pending, coming, closed>>
vars == <<scenario, lists, running, notifier, tasks_mutex, ppc, op, down, tasks, world>>

fd(r) == scenario.fd[r]
Before(q, r) == \E i, j \in DOMAIN scenario.order : i < j /\ scenario.order[i] = q /\ scenario.order[j] = r
\* The unbinder of UDP and TCP closes the descriptor before it unbinds from IO.
Shut(f) == \E r \in Reactions :
  fd(r) = f /\ scenario.word[r] # "IO" /\ op[r] \in {"shut", "unbinding", "leaving", "gone"}
Sharing(f) == {r \in bound : fd(r) = f}

Init ==
  /\ scenario \in Scenarios
  /\ bound = {} /\ listed = {} /\ dirty = TRUE /\ running = TRUE
  /\ waiting = [r \in Reactions |-> {}] /\ processing = waiting
  /\ watches = [f \in Fds |-> {}] /\ revents = [f \in Fds |-> {}]
  /\ heard = FALSE /\ left = {} /\ eof = FALSE
  /\ wake_requested = FALSE /\ pipe = 0 /\ tasks_mutex = Nobody
  /\ ppc = "loop"
  /\ op = [r \in Reactions |-> IF \E i \in DOMAIN scenario.order : scenario.order[i] = r THEN "start" ELSE "gone"]
  /\ run = [r \in Reactions |-> "none"]
  /\ down = IF "shutdown" \in scenario.also THEN "start" ELSE "done"
  /\ pending = [f \in Fds |-> 0] /\ coming = scenario.data /\ closed = {}
  /\ outstanding = [r \in Reactions |-> 0] /\ dropped = {}

-----------------------------------------------------------------------------
(* Firing.  The state it works on is a record, for what comes before it    *)
(* changes the same state.                                                 *)

Now == [waiting |-> waiting, processing |-> processing, watches |-> watches,
        run |-> run, outstanding |-> outstanding, pending |-> pending]
Becomes(s) ==
  /\ waiting' = s.waiting /\ processing' = s.processing /\ watches' = s.watches
  /\ run' = s.run /\ outstanding' = s.outstanding /\ pending' = s.pending

\* lower_bound over the list, whose first entry is the notifier's: a descriptor
\* of a lower number is not found when it is the lowest.
Found(f) ==
  /\ f \in listed
  /\ f > scenario.notifier \/ \E g \in listed : g < f

\* get_task: a disabled reaction gets no task and reads nothing; else UDP receives a
\* datagram, which may be for another address, and TCP accepts a connection, and the
\* task exists only with it.
Readable(s, r) == "READ" \in s.waiting[r] /\ s.pending[fd(r)] > 0 /\ ~Shut(fd(r))
Takes(s, r, answer, word) == scenario.word[r] = word /\ answer # "disabled" /\ Readable(s, r)
Received(s, r, answer) == Takes(s, r, answer, "UDP")
Accepted(s, r, answer) == Takes(s, r, answer, "TCP")
Generated(s, r, answer) ==
  CASE scenario.word[r] = "UDP" -> Received(s, r, answer) /\ answer # "elsewhere"
    [] scenario.word[r] = "TCP" -> Accepted(s, r, answer)
    [] OTHER -> answer # "disabled"
\* Mutant: the socket is read whatever the event was.
TakenAnyway(s, r, answer) ==
  IF scenario.word[r] = "UDP" THEN [s.pending EXCEPT ![fd(r)] = @ - 1] ELSE s.pending
Taken(s, r, answer) ==
  IF Received(s, r, answer) \/ Accepted(s, r, answer)
  THEN [s.pending EXCEPT ![fd(r)] = @ - 1] ELSE s.pending

\* Mutant: a task is made although one is out.
FireAgain(s, r, answer) ==
  IF s.waiting[r] = {} \/ ~Generated(s, r, answer) THEN s
  ELSE [s EXCEPT !.pending = Taken(s, r, answer), !.processing[r] = s.waiting[r], !.waiting[r] = {},
                 !.watches[fd(r)] = IF Found(fd(r)) THEN @ \ s.waiting[r] ELSE @,
                 !.run[r] = "run", !.outstanding[r] = @ + 1]
\* Mutant: poll is still asked for what is being processed.
FireUnmasked(s, r, answer) ==
  IF s.processing[r] # {} \/ s.waiting[r] = {} THEN s
  ELSE IF ~Generated(s, r, answer) THEN [s EXCEPT !.pending = Taken(s, r, answer)]
  ELSE [s EXCEPT !.pending = Taken(s, r, answer), !.processing[r] = s.waiting[r], !.waiting[r] = {},
                 !.run[r] = "run", !.outstanding[r] = @ + 1]
\* fire_event: a task for what waits, unless one is out.
Fire(s, r, answer) ==
  IF s.processing[r] # {} \/ s.waiting[r] = {} THEN s
  ELSE IF ~Generated(s, r, answer) THEN [s EXCEPT !.pending = Taken(s, r, answer)]
  ELSE [s EXCEPT !.pending = Taken(s, r, answer), !.processing[r] = s.waiting[r], !.waiting[r] = {},
                 !.watches[fd(r)] = IF Found(fd(r)) THEN @ \ s.waiting[r] ELSE @,
                 !.run[r] = "run", !.outstanding[r] = @ + 1]

\* process_event for one task: what poll saw, and an end of file when there was
\* nothing to read; a listening socket cannot say.
Collect(s, r, answer) ==
  LET seen == scenario.listens[r] \cap revents[fd(r)]
      closes == eof /\ scenario.word[r] # "TCP" /\ "READ" \notin s.processing[r]
  IN Fire([s EXCEPT !.waiting[r] = @ \cup seen \cup (IF closes THEN {"CLOSE"} ELSE {})], r, answer)

\* What get_task may say.
Answers == {"task"} \cup (IF "refuse" \in scenario.also THEN {"disabled", "elsewhere"} ELSE {})

-----------------------------------------------------------------------------
(* The poll thread: the Always reaction.                                   *)

\* running, and whether the list is dirty.
Loop ==
  /\ ppc = "loop"
  /\ ppc' = IF ~running THEN "stopped" ELSE IF dirty THEN "rebuild" ELSE "enter"
  /\ UNCHANGED <<scenario, lists, running, notifier, tasks_mutex, op, down, tasks, world>>

\* What the tasks of a descriptor ask of poll: each adds its events, and takes away
\* those it is processing or that are waiting, its own and those of the tasks before.
Mask(f) ==
  {e \in Events : \E r \in Sharing(f) :
     /\ e \in scenario.listens[r]
     /\ \A q \in Sharing(f) : q = r \/ Before(r, q) => e \notin processing[q] \cup waiting[q]}

\* rebuild_list, under tasks_mutex.
RebuildList ==
  /\ ppc = "rebuild" /\ tasks_mutex = Nobody
  /\ listed' = {fd(r) : r \in bound}
  /\ watches' = [f \in Fds |-> Mask(f)]
  /\ revents' = [f \in Fds |-> {}] /\ heard' = FALSE
  /\ dirty' = FALSE
  /\ ppc' = "enter"
  /\ UNCHANGED <<scenario, bound, waiting, processing, left, eof, running, notifier, tasks_mutex, op, down, tasks, world>>

\* notifier.mutex: somebody is about to wake us, or we poll and keep it.
Enter ==
  /\ ppc = "enter"
  /\ ppc' = IF wake_requested THEN "loop" ELSE "polling"
  /\ UNCHANGED <<scenario, lists, running, notifier, tasks_mutex, op, down, tasks, world>>

\* What poll sees of a descriptor: errors and hangups show whether asked or not, and the
\* closed end of a socket only as something to read.
Seen(f) ==
  IF Shut(f) THEN {"ERROR"}
  ELSE (IF pending[f] > 0 \/ f \in closed THEN watches[f] \cap {"READ"} ELSE {})
       \cup (IF f \in closed \cap scenario.hangups THEN {"CLOSE"} ELSE {})

\* poll returns and notifier.mutex is free again.
Poll ==
  /\ ppc = "polling"
  /\ revents' = [f \in Fds |-> IF f \in listed THEN Seen(f) ELSE {}]
  /\ heard' = (pipe > 0)
  /\ pipe > 0 \/ \E f \in listed : Seen(f) # {}
  /\ ppc' = "collect"
  /\ UNCHANGED <<scenario, bound, waiting, processing, listed, watches, left, eof, dirty, running, notifier,
                 tasks_mutex, op, down, tasks, world>>

\* The events are processed under tasks_mutex, the notifier's first, by reading a byte.
ProcessEvents ==
  /\ ppc = "collect" /\ tasks_mutex = Nobody /\ tasks_mutex' = Poller
  /\ pipe' = IF heard THEN pipe - 1 ELSE pipe
  /\ heard' = FALSE
  /\ ppc' = "events"
  /\ UNCHANGED <<scenario, bound, waiting, processing, listed, watches, revents, left, eof, dirty, running,
                 wake_requested, op, down, tasks, world>>

\* The number of the datagram that is read next, and what FIONREAD takes for the end:
\* it tells the bytes of that datagram, and none of an empty one.
Front(f) == scenario.data[f] - coming[f] - pending[f] + 1
NoBytes(f) == pending[f] = 0 \/ Front(f) \in scenario.empty[f]

\* The next event: FIONREAD, of a descriptor that is still open, and the tasks it is
\* for.  One past every task's descriptor says that the list is dirty.
ProcessEvent(f) ==
  /\ ppc = "events" /\ left = {}
  /\ revents[f] # {} /\ \A g \in Fds : g < f => revents[g] = {}
  /\ eof' = ("READ" \in revents[f] /\ NoBytes(f) /\ ~Shut(f))
  /\ left' = Sharing(f)
  /\ dirty' = (dirty \/ \A r \in bound : fd(r) < f)
  /\ revents' = IF Sharing(f) = {} THEN [revents EXCEPT ![f] = {}] ELSE revents
  /\ UNCHANGED <<scenario, bound, waiting, processing, listed, watches, heard, running, notifier,
                 tasks_mutex, ppc, op, down, tasks, world>>

\* The next task of the event.
FireEvent(r) ==
  /\ ppc = "events" /\ r \in left /\ \A q \in left : ~Before(q, r)
  /\ \E answer \in Answers : Becomes(Collect(Now, r, answer))
  /\ left' = left \ {r}
  /\ revents' = IF left = {r} THEN [revents EXCEPT ![fd(r)] = {}] ELSE revents
  /\ UNCHANGED <<scenario, bound, listed, heard, eof, dirty, running, notifier, tasks_mutex, ppc, op, down,
                 dropped, coming, closed>>

Processed ==
  /\ ppc = "events" /\ left = {} /\ \A f \in Fds : revents[f] = {}
  /\ tasks_mutex' = Nobody /\ ppc' = "loop"
  /\ UNCHANGED <<scenario, lists, running, notifier, op, down, tasks, world>>

-----------------------------------------------------------------------------
(* The threads that bind and unbind: IO::bind and the unbinders emit Inline *)
(* to the controller.  Waking is three steps: ask, write, take the mutex.   *)

Asks(t) == tasks_mutex = Nobody /\ tasks_mutex' = t /\ wake_requested' = TRUE
Signals == pipe' = pipe + 1 /\ UNCHANGED wake_requested
\* Mutant: the request to stay out of poll is never withdrawn.
LocksStillAsking == ppc # "polling" /\ UNCHANGED <<wake_requested, pipe>>
Locks == ppc # "polling" /\ wake_requested' = FALSE /\ UNCHANGED pipe

\* UDP::connect and TCP::bind make the socket, give the reaction the unbinder that
\* closes it and bind it to IO; a step that fails throws, and nothing is bound.
Opens(r, word) ==
  /\ op[r] = "start" /\ scenario.word[r] = word
  /\ \E result \in {"open"} \cup (IF "fail" \in scenario.also THEN {"gone"} ELSE {}) :
       op' = [op EXCEPT ![r] = result]
  /\ UNCHANGED <<scenario, lists, running, notifier, tasks_mutex, ppc, down, tasks, world>>
Connect(r) == Opens(r, "UDP")
Listen(r) == Opens(r, "TCP")

Bind(r) ==
  /\ op[r] = (IF scenario.word[r] = "IO" THEN "start" ELSE "open") /\ Asks(r)
  /\ bound' = bound \cup {r} /\ dirty' = TRUE
  /\ op' = [op EXCEPT ![r] = "binding"]
  /\ UNCHANGED <<scenario, waiting, processing, listed, watches, revents, heard, left, eof, running, pipe, ppc,
                 down, tasks, world>>

Shuts(r) ==
  /\ op[r] = "bound" /\ r \in scenario.unbinds /\ scenario.word[r] # "IO"
  /\ op' = [op EXCEPT ![r] = "shut"]
  /\ UNCHANGED <<scenario, lists, running, notifier, tasks_mutex, ppc, down, tasks, world>>

Unbind(r) ==
  /\ op[r] = IF scenario.word[r] = "IO" THEN "bound" ELSE "shut"
  /\ r \in scenario.unbinds /\ Asks(r)
  /\ bound' = bound \ {r} /\ dirty' = TRUE
  /\ waiting' = [waiting EXCEPT ![r] = {}] /\ processing' = [processing EXCEPT ![r] = {}]
  /\ op' = [op EXCEPT ![r] = "unbinding"]
  /\ UNCHANGED <<scenario, listed, watches, revents, heard, left, eof, running, pipe, ppc, down, tasks, world>>

Signal(r) ==
  /\ op[r] \in {"binding", "unbinding"} /\ Signals
  /\ op' = [op EXCEPT ![r] = IF @ = "binding" THEN "entering" ELSE "leaving"]
  /\ UNCHANGED <<scenario, lists, running, tasks_mutex, ppc, down, tasks, world>>

Lock(r) ==
  /\ op[r] \in {"entering", "leaving"} /\ Locks
  /\ tasks_mutex' = Nobody
  /\ op' = [op EXCEPT ![r] = IF @ = "entering" THEN "bound" ELSE "gone"]
  /\ UNCHANGED <<scenario, lists, running, ppc, down, tasks, world>>

-----------------------------------------------------------------------------
(* The task of a reaction, and its post_run: IOFinished.                    *)

\* The callback: one that was given the descriptor reads from it.
RunTask(r) ==
  /\ run[r] = "run"
  /\ pending' = IF scenario.word[r] = "IO" /\ pending[fd(r)] > 0
                THEN [pending EXCEPT ![fd(r)] = @ - 1] ELSE pending
  /\ run' = [run EXCEPT ![r] = "finish"]
  /\ UNCHANGED <<scenario, lists, running, notifier, tasks_mutex, ppc, op, down, outstanding, dropped, coming, closed>>

\* A callback that throws never comes to post_run: the controller does not hear of it.
Throw(r) ==
  /\ run[r] = "run" /\ "throw" \in scenario.also
  /\ run' = [run EXCEPT ![r] = "none"] /\ outstanding' = [outstanding EXCEPT ![r] = @ - 1]
  /\ UNCHANGED <<scenario, lists, running, notifier, tasks_mutex, ppc, op, down, dropped, world>>

\* Unbound in the meantime, or the end of the reaction: it closed.
FinishLast(r) ==
  /\ run[r] = "finish" /\ tasks_mutex = Nobody
  /\ r \notin bound \/ "CLOSE" \in processing[r]
  /\ IF r \in bound
     THEN dirty' = TRUE /\ dropped' = dropped \cup {r} ELSE UNCHANGED <<dirty, dropped>>
  /\ bound' = bound \ {r}
  /\ waiting' = [waiting EXCEPT ![r] = {}] /\ processing' = [processing EXCEPT ![r] = {}]
  /\ run' = [run EXCEPT ![r] = "none"] /\ outstanding' = [outstanding EXCEPT ![r] = @ - 1]
  /\ UNCHANGED <<scenario, listed, watches, revents, heard, left, eof, running, notifier, tasks_mutex, ppc, op,
                 down, world>>

Finish(r) ==
  /\ run[r] = "finish" /\ r \in bound /\ "CLOSE" \notin processing[r] /\ Asks(r)
  /\ run' = [run EXCEPT ![r] = "signal"]
  /\ UNCHANGED <<scenario, lists, running, pipe, ppc, op, down, outstanding, dropped, world>>

FinishSignal(r) ==
  /\ run[r] = "signal" /\ Signals
  /\ run' = [run EXCEPT ![r] = "unmask"]
  /\ UNCHANGED <<scenario, lists, running, tasks_mutex, ppc, op, down, outstanding, dropped, world>>

\* Mutant: poll is not asked again for what was processed.
UnmaskNothing(s, r) ==
  [s EXCEPT !.processing[r] = {}, !.run[r] = "none", !.outstanding[r] = @ - 1]
\* Asks poll for what was processed, and fires what came in the meantime.
Unmask(s, r) ==
  [s EXCEPT !.watches[fd(r)] = IF Found(fd(r)) THEN @ \cup s.processing[r] ELSE @,
            !.processing[r] = {}, !.run[r] = "none", !.outstanding[r] = @ - 1]
FinishUnmask(r) ==
  /\ run[r] = "unmask" /\ Locks /\ tasks_mutex' = Nobody
  /\ \E answer \in Answers : Becomes(Fire(Unmask(Now, r), r, answer))
  /\ UNCHANGED <<scenario, bound, listed, revents, heard, left, eof, dirty, running, ppc, op, down, coming,
                 closed, dropped>>

-----------------------------------------------------------------------------
(* Shutdown wakes the poll thread without tasks_mutex.                      *)

Shutdown ==
  /\ down = "start"
  /\ running' = FALSE /\ wake_requested' = TRUE /\ down' = "signal"
  /\ UNCHANGED <<scenario, lists, pipe, tasks_mutex, ppc, op, tasks, world>>
ShutdownSignal ==
  /\ down = "signal" /\ Signals /\ down' = "lock"
  /\ UNCHANGED <<scenario, lists, running, tasks_mutex, ppc, op, tasks, world>>
ShutdownLock ==
  /\ down = "lock" /\ Locks /\ down' = "done"
  /\ UNCHANGED <<scenario, lists, running, tasks_mutex, ppc, op, tasks, world>>

-----------------------------------------------------------------------------
(* The world: bytes, datagrams and connections come, to a socket that is    *)
(* not open yet in vain; the other end of a descriptor closes after its     *)
(* last byte; in some scenarios another thread reads the descriptors too.   *)

Unopened(f) == \E r \in Reactions : fd(r) = f /\ scenario.word[r] # "IO" /\ op[r] = "start"
Arrive(f) ==
  /\ coming[f] > 0
  /\ coming' = [coming EXCEPT ![f] = @ - 1]
  /\ pending' = IF Unopened(f) THEN pending ELSE [pending EXCEPT ![f] = @ + 1]
  /\ UNCHANGED <<scenario, lists, running, notifier, tasks_mutex, ppc, op, down, tasks, closed>>
Close(f) ==
  /\ f \in scenario.closes \ closed /\ coming[f] = 0
  /\ closed' = closed \cup {f}
  /\ UNCHANGED <<scenario, lists, running, notifier, tasks_mutex, ppc, op, down, tasks, pending, coming>>
Drain(f) ==
  /\ "drain" \in scenario.also /\ pending[f] > 0
  /\ pending' = [pending EXCEPT ![f] = @ - 1]
  /\ UNCHANGED <<scenario, lists, running, notifier, tasks_mutex, ppc, op, down, tasks, coming, closed>>

Polls ==
  \/ Loop \/ RebuildList \/ Enter \/ Poll \/ ProcessEvents \/ Processed
  \/ \E f \in Fds : ProcessEvent(f)
  \/ \E r \in Reactions : FireEvent(r)
Control(r) == Connect(r) \/ Listen(r) \/ Bind(r) \/ Shuts(r) \/ Unbind(r) \/ Signal(r) \/ Lock(r)
Task(r) == RunTask(r) \/ Throw(r) \/ FinishLast(r) \/ Finish(r) \/ FinishSignal(r) \/ FinishUnmask(r)
Down == Shutdown \/ ShutdownSignal \/ ShutdownLock
World(f) == Arrive(f) \/ Close(f) \/ Drain(f)

\* Nothing is left to do.
Busy(r) ==
  \/ op[r] \notin {"bound", "gone"} \/ (op[r] = "bound" /\ r \in scenario.unbinds)
  \/ run[r] # "none"
  \/ /\ running /\ r \in bound /\ "READ" \in scenario.listens[r]
     /\ waiting[r] # {} => "refuse" \notin scenario.also
     /\ processing[r] # {} => "throw" \notin scenario.also
     /\ pending[fd(r)] > 0 \/ fd(r) \in closed
Quiet ==
  /\ \A r \in Reactions : ~Busy(r)
  /\ down = "done" /\ ppc \in {"polling", "stopped"} /\ (ppc = "polling" => pipe = 0)
  /\ \A f \in Fds : coming[f] = 0 /\ (f \in scenario.closes => f \in closed)
Rest == Quiet /\ UNCHANGED vars

Next ==
  \/ Polls \/ Down \/ Rest
  \/ \E r \in Reactions : Control(r) \/ Task(r)
  \/ \E f \in Fds : World(f)

\* tasks_mutex is handed on in the end: a thread that wants it again and again gets it.
Fairness ==
  /\ SF_vars(Polls) /\ WF_vars(Down)
  /\ \A r \in Reactions : SF_vars(Control(r)) /\ SF_vars(Task(r))
  /\ \A f \in Fds : WF_vars(Arrive(f) \/ Close(f))
Spec == Init /\ [][Next]_vars /\ Fairness

-----------------------------------------------------------------------------
TypeOK ==
  /\ scenario \in Scenarios
  /\ bound \subseteq Reactions /\ dropped \subseteq Reactions
  /\ waiting \in [Reactions -> SUBSET Events] /\ processing \in [Reactions -> SUBSET Events]
  /\ listed \subseteq Fds /\ watches \in [Fds -> SUBSET Events]
  /\ revents \in [Fds -> SUBSET (Events \cup {"ERROR"})]
  /\ dirty \in BOOLEAN /\ running \in BOOLEAN /\ wake_requested \in BOOLEAN /\ pipe \in Nat
  /\ tasks_mutex \in Reactions \cup {Nobody, Poller}
  /\ heard \in BOOLEAN /\ left \subseteq bound /\ eof \in BOOLEAN
  /\ ppc \in {"loop", "rebuild", "enter", "polling", "collect", "events", "stopped"}
  /\ op \in [Reactions -> {"start", "open", "binding", "entering", "bound", "shut", "unbinding", "leaving", "gone"}]
  /\ run \in [Reactions -> {"none", "run", "finish", "signal", "unmask"}]
  /\ down \in {"start", "signal", "lock", "done"}
  /\ pending \in [Fds -> Nat] /\ coming \in [Fds -> Nat] /\ closed \subseteq Fds
  /\ outstanding \in [Reactions -> Nat]

\* While a reaction works on an IO event no other task of it is made: the tasks in
\* flight of a reaction are at most one, whatever the poll thread, the end of the
\* task and an unbind do together.
OneAtATime == \A r \in Reactions : outstanding[r] <= 1

\* The masks of each reaction are of events it listens for, and it works on those
\* of one task at a time (fire_event, rebuild_list, IOFinished).
TasksOK == TypeOK /\ OneAtATime

\* At most one reaction reads from the descriptor, and lower_bound finds it.
OneReader(f) ==
  /\ f > scenario.notifier
  /\ \A q, r \in Reactions :
       fd(q) = f /\ fd(r) = f /\ "READ" \in scenario.listens[q] \cap scenario.listens[r] => q = r

\* A poll thread that sleeps asks for all that it should: once nobody works on the
\* lists and no byte is there to wake it, each bound reaction that reads its
\* descriptor is listened for, unless a task is working on it, or get_task refused an
\* event of it.  (What is not read, poll tells unasked.)  Not so for a descriptor with
\* two readers, where the one that closes takes the other's events with it.
NotDeaf ==
  ppc = "polling" /\ pipe = 0 /\ tasks_mutex = Nobody =>
    \A r \in bound :
      OneReader(fd(r)) /\ "READ" \in scenario.listens[r] /\ processing[r] = {} /\ waiting[r] = {}
        => fd(r) \in listed /\ "READ" \in watches[fd(r)]

\* An empty datagram has come.
EmptyCame(f) == \E i \in scenario.empty[f] : i <= scenario.data[f] - coming[f]

\* A reaction is erased for an end of file only when the other end has closed, although
\* nothing to read is taken for it: no task of the controller reads what poll has just
\* seen.  An empty datagram is taken for it too, and its reaction erased with nobody
\* closed; and where other threads, or two reactions, read the descriptor this fails.
DroppedOnlyAtEof ==
  "drain" \notin scenario.also =>
    \A r \in dropped : OneReader(fd(r)) => fd(r) \in closed \/ EmptyCame(fd(r))

\* What comes is served, and each bind, unbind, end of a task and shutdown that
\* waits for the poll thread to leave poll returns.  An event that get_task refused
\* stays with the reaction, and poll returns for it at once or not at all; what a
\* callback that threw was processing is never asked for again.
IOSettles ==
  "refuse" \notin scenario.also => <>[]Quiet
=============================================================================

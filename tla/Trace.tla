--------------------------------- MODULE Trace ---------------------------------
(***************************************************************************)
(* TraceController: the events of tasks and the log messages of any thread *)
(* go to the one thread of the persistent pool Trace, which writes them to *)
(* a file of packets between a BeginTrace and an EndTrace.  A packet names *)
(* its track, names and categories by ids that packets before it define.   *)
(*                                                                         *)
(* Threads run tasks, nested ones inline, and log.  What a thread tells the*)
(* pool goes there one item at a time: the reactions to call are looked up *)
(* first, the tasks made for them are submitted later.  The handler of an  *)
(* event touches only what the thread of the pool owns and is one step;    *)
(* those of BeginTrace and EndTrace bind and unbind step by step.          *)
(***************************************************************************)
EXTENDS Integers, Sequences, FiniteSets, SequencesExt

CONSTANTS Threads, Tracer, Scenarios

VARIABLES
  scenario,     \* chosen at the start, it never changes
  script,       \* how many of its commands each thread has given
  running,      \* the tasks that each thread is inside of
  telling,      \* what each thread is about to submit
  submitted,    \* the tasks of other pools that may start
  made,         \* the tasks made so far, the source of ids
  queue,        \* of the pool Trace
  stopped,      \* that the power plant was asked to shut down
  handles,      \* which of event_handle and log_handle are bound
  at, item,     \* what the thread of the pool does, and its task
  trace,        \* the file and what TraceController remembers of it
  carried,      \* history: the ids that were given out before the file was opened
  missed        \* history: the tasks that ended while the events were not bound

producers == <<script, running, submitted, missed>>
pool == <<queue, stopped>>
vars == <<scenario, producers, telling, made, pool, handles, at, item, trace, carried>>

\* The order of LogLevel.
Levels == <<"UNKNOWN", "TRACE", "DEBUG", "INFO", "WARN", "ERROR", "FATAL">>
AtLeast(l, m) == \E i, j \in DOMAIN Levels : i >= j /\ Levels[i] = l /\ Levels[j] = m

ASSUME TraceAssumption == Tracer \notin Threads

\* Mutant of TracePool: an ordinary pool.
OrdinaryPool == [persistent |-> FALSE]
\* So that events are traced until after shutdown.
TracePool == [persistent |-> TRUE]

NoItem == [kind |-> "none"]
Task(reaction, id) == [reaction |-> reaction, id |-> id]
Event(type, task, thread) == [kind |-> "event", type |-> type, task |-> task, thread |-> thread]

-----------------------------------------------------------------------------
(* protobuf: bytes, least significant seven bits first.                     *)

varint_size(v) == IF v < 128 THEN 1 ELSE IF v < 16384 THEN 2 ELSE 3
redundant_varint(v, n) == [i \in 1..n |-> ((v \div 128 ^ (i - 1)) % 128) + (IF i < n THEN 128 ELSE 0)]
\* What a reader makes of the bytes.
Read(bytes) == LET digit(i) == (bytes[i] % 128) * 128 ^ (i - 1)
               IN FoldLeft(LAMBDA sum, i : sum + digit(i), 0, [i \in DOMAIN bytes |-> i])
\* Mutant of varint_bytes: one byte is enough.
OneByte == 1
varint_bytes == 2
\* The length that is written for a sub-message of this size, and its size with the
\* tag and the length in front.
SubMessage(size) == [size |-> size, length |-> redundant_varint(size, varint_bytes)]
Whole(id, size) == varint_size(id * 8 + 2) + varint_bytes + size
String(size) == 1 + varint_size(size) + size

-----------------------------------------------------------------------------
(* Writing packets. w is the record trace.                                  *)

\* LET, with the value computed once.
Let(value, Op(_)) == CHOOSE result \in {Op(v) : v \in {value}} : TRUE

Nothing == [kind |-> "other", defines |-> {}, uses |-> {}, track |-> 0, event |-> "none", id |-> 0, parts |-> <<>>]
write_trace_packet(w, packet) == IF w.open THEN [w EXCEPT !.file = Append(@, packet)] ELSE w

process(w) ==
  IF w.process_uuid # 0 THEN w
  ELSE write_trace_packet([w EXCEPT !.process_uuid = 1], [Nothing EXCEPT !.defines = {<<"track", 1>>}])

Place(keys, key) == CHOOSE i \in DOMAIN keys : keys[i] = key
Uuid(w, t) == 2 * Place(w.thread_uuids, t)
Tracks(uuid) == {<<"track", uuid>>, <<"track", uuid + 1>>}
\* Mutant of thread: a thread is not looked up.
ThreadAgain(w, t) ==
  Let([process(w) EXCEPT !.thread_uuids = Append(@, t)],
      LAMBDA v : write_trace_packet(v, [Nothing EXCEPT !.defines = Tracks(Uuid(v, t)), !.uses = {<<"track", 1>>}]))
\* Two ids for each thread, its track and its counter: next_uuid starts at 2.
thread(w, t) ==
  IF t \in ToSet(w.thread_uuids) THEN w
  ELSE Let([process(w) EXCEPT !.thread_uuids = Append(@, t)],
           LAMBDA v : write_trace_packet(v, [Nothing EXCEPT !.defines = Tracks(Uuid(v, t)), !.uses = {<<"track", 1>>}]))

\* StringInterner: the id of a key is its place; sizes are those of its string.
FieldOf == [categories |-> 1, event_names |-> 2, log_message_bodies |-> 20]
Key(table, key, size) == [table |-> table, key |-> key, size |-> size]
Iid(w, k) == <<k.table, Place(w[k.table], k.key)>>
InternedData(w, k) ==
  LET type == 2 + String(k.size)
      data == Whole(FieldOf[k.table], type)
      packet == 2 + Whole(12, data)
  IN [Nothing EXCEPT !.defines = {Iid(w, k)}, !.parts = <<SubMessage(packet), SubMessage(data), SubMessage(type)>>]
\* Those of the keys that are new, in their order, each with a packet.
Intern(w, keys) ==
  LET New(k) == k.key \notin ToSet(w[k.table])
      added(table) == LET of == SelectSeq(keys, LAMBDA k : New(k) /\ k.table = table) IN [i \in DOMAIN of |-> of[i].key]
      packets(v) == LET new == SelectSeq(keys, New) IN IF w.open THEN [i \in DOMAIN new |-> InternedData(v, new[i])] ELSE <<>>
  IN Let([w EXCEPT !.categories = @ \o added("categories"), !.event_names = @ \o added("event_names"),
                   !.log_message_bodies = @ \o added("log_message_bodies")],
         LAMBDA v : [v EXCEPT !.file = @ \o packets(v)])

\* Mutant of SliceType: the end of a task is an instant.
SliceOpens(type) == IF type = "STARTED" THEN "BEGIN" ELSE "INSTANT"
SliceType(type) == CASE type = "STARTED" -> "BEGIN" [] type = "FINISHED" -> "END" [] OTHER -> "INSTANT"
Names(reaction, category, size) ==
  <<Key("event_names", reaction, 40), Key("categories", reaction, 20), Key("categories", category, size)>>
\* A packet on the track of a thread that names the keys.
TrackEvent(w, kind, event, task, t, keys) ==
  [Nothing EXCEPT !.kind = kind, !.event = event, !.id = task.id, !.track = Uuid(w, t),
                  !.uses = Tracks(Uuid(w, t)) \cup {Iid(w, k) : k \in ToSet(keys)}]
\* Mutant of encode_event: the packet is written before those of its names.
EncodeFirst(w, e) ==
  LET keys == Names(e.task.reaction, "reaction", 8)
      packet(v) == TrackEvent(Intern(v, keys), SliceType(e.type), e.type, e.task, e.thread, keys)
  IN Let(thread(w, e.thread), LAMBDA v : Intern(write_trace_packet(v, packet(v)), keys))
\* Mutant of encode_event: on the track of the thread that writes.
EncodeHere(w, e) ==
  LET keys == Names(e.task.reaction, "reaction", 8)
      packet(v) == TrackEvent(v, SliceType(e.type), e.type, e.task, Tracer, keys)
  IN Let(thread(w, Tracer), LAMBDA u : Let(Intern(u, keys), LAMBDA v : write_trace_packet(v, packet(v))))
encode_event(w, e) ==
  LET keys == Names(e.task.reaction, "reaction", 8)
      packet(v) == TrackEvent(v, SliceType(e.type), e.type, e.task, e.thread, keys)
  IN Let(thread(w, e.thread), LAMBDA u : Let(Intern(u, keys), LAMBDA v : write_trace_packet(v, packet(v))))
\* A log is on the track of the thread that made the handler's task, by the name of
\* the reaction that logged.
encode_log(w, l) ==
  LET keys == Append(Names(l.from, "log", 3), Key("log_message_bodies", l.body, l.size))
      packet(v) == TrackEvent(v, "INSTANT", "LOG", l.task, l.thread, keys)
  IN Let(thread(w, l.thread), LAMBDA u : Let(Intern(u, keys), LAMBDA v : write_trace_packet(v, packet(v))))

-----------------------------------------------------------------------------
(* Any thread.                                                              *)

Init ==
  /\ scenario \in Scenarios
  /\ script = [t \in Threads |-> 0]
  /\ running = [t \in Threads |-> <<>>]
  /\ telling = [t \in Threads \cup {Tracer} |-> <<>>]
  /\ submitted = {} /\ made = 0 /\ queue = <<>> /\ stopped = FALSE
  /\ handles = [event |-> FALSE, logs |-> FALSE]
  /\ at = "idle" /\ item = NoItem
  /\ trace = [open |-> FALSE, file |-> <<>>, process_uuid |-> 0, thread_uuids |-> <<>>,
              categories |-> <<>>, event_names |-> <<>>, log_message_bodies |-> <<>>]
  /\ carried = {} /\ missed = {}

\* The tasks made for an event: the handler is looked up now.
Tell(t, type, task) == IF handles.event THEN <<Event(type, task, t)>> ELSE <<>>
\* Mutant of Make: the task is submitted before its event is emitted.
SubmitFirst(t, task, what) == <<what>> \o Tell(t, "CREATED", task)
\* get_task emits the event that the task was created, then the task is submitted.
Make(t, task, what) == Tell(t, "CREATED", task) \o <<what>>
Submitted(task) == [kind |-> "submit", task |-> task]

Commands(t) == scenario.script[t]
Command(t, do) ==
  /\ telling[t] = <<>> /\ script[t] < Len(Commands(t)) /\ Commands(t)[script[t] + 1].do = do
  /\ script' = [script EXCEPT ![t] = @ + 1]
Given(t) == Commands(t)[script[t] + 1]
NewTask(reaction) == Task(reaction, made + 1)

\* A message is emitted: a task of another pool is made.
Emit(t) ==
  /\ Command(t, "emit")
  /\ made' = made + 1
  /\ telling' = [telling EXCEPT ![t] = Make(t, NewTask(Given(t).reaction), Submitted(NewTask(Given(t).reaction)))]
  /\ UNCHANGED <<scenario, running, submitted, missed, pool, handles, at, item, trace, carried>>

\* BeginTrace or EndTrace is emitted.
EmitTrace(t) ==
  /\ \/ Command(t, "BeginTrace")
     \/ Command(t, "EndTrace")
  /\ made' = made + 1
  /\ LET task == NewTask(Given(t).do)
     IN telling' = [telling EXCEPT ![t] = Make(t, task, [kind |-> Given(t).do, task |-> task, thread |-> t, logs |-> Given(t).logs])]
  /\ UNCHANGED <<scenario, running, submitted, missed, pool, handles, at, item, trace, carried>>

\* ReactionTask::run, and the end of it.
Start(t) ==
  /\ Command(t, "start")
  /\ \E task \in submitted :
       /\ task.reaction = Given(t).reaction
       /\ submitted' = submitted \ {task}
       /\ running' = [running EXCEPT ![t] = Append(@, task)]
       /\ telling' = [telling EXCEPT ![t] = Tell(t, "STARTED", task)]
  /\ UNCHANGED <<scenario, missed, made, pool, handles, at, item, trace, carried>>
Finish(t) ==
  /\ Command(t, "finish") /\ running[t] # <<>>
  /\ running' = [running EXCEPT ![t] = Front(@)]
  /\ telling' = [telling EXCEPT ![t] = Tell(t, "FINISHED", Last(running[t]))]
  /\ missed' = IF handles.event THEN missed ELSE missed \cup {Last(running[t]).id}
  /\ UNCHANGED <<scenario, submitted, made, pool, handles, at, item, trace, carried>>

\* The levels of the reactor whose task this is; outside of tasks everything is logged.
get_current_log_levels(t) ==
  IF running[t] = <<>> THEN [display |-> "UNKNOWN", min |-> "UNKNOWN"] ELSE scenario.levels
Logged(t, level) ==
  AtLeast(level, get_current_log_levels(t).display) \/ AtLeast(level, get_current_log_levels(t).min)
\* The message is emitted inline, but Inline::NEVER sends its handler to the pool.
Log(t) ==
  /\ Command(t, "log")
  /\ IF handles.logs /\ Logged(t, Given(t).level)
     THEN LET task == NewTask("log")
              from == IF running[t] = <<>> THEN "PowerPlant" ELSE Last(running[t]).reaction
          IN /\ made' = made + 1
             /\ telling' = [telling EXCEPT ![t] = Make(t, task, [kind |-> "log", task |-> task, thread |-> t, from |-> from,
                                                                 body |-> Given(t).body, size |-> Given(t).size])]
     ELSE UNCHANGED <<made, telling>>
  /\ UNCHANGED <<scenario, running, submitted, missed, pool, handles, at, item, trace, carried>>

Shutdown(t) ==
  /\ Command(t, "shutdown")
  /\ stopped' = TRUE
  /\ UNCHANGED <<scenario, running, submitted, missed, telling, made, queue, handles, at, item, trace, carried>>

\* Scheduler::submit of the next task.
Submit(t) ==
  /\ telling[t] # <<>>
  /\ telling' = [telling EXCEPT ![t] = Tail(@)]
  /\ IF Head(telling[t]).kind = "submit"
     THEN submitted' = submitted \cup {Head(telling[t]).task} /\ UNCHANGED queue
     ELSE queue' = Append(queue, Head(telling[t])) /\ UNCHANGED submitted
  /\ UNCHANGED <<scenario, script, running, missed, made, stopped, handles, at, item, trace, carried>>

-----------------------------------------------------------------------------
(* The thread of the pool Trace.                                            *)

Goto(here, there) == at = here /\ telling[Tracer] = <<>> /\ at' = there
Taking(kind) ==
  /\ queue # <<>> /\ Head(queue).kind = kind
  /\ stopped => TracePool.persistent
  /\ queue' = Tail(queue)

\* A task on ReactionEvent has no statistics: nothing is told of it.
OnEvent ==
  /\ Goto("idle", "idle") /\ Taking("event")
  /\ trace' = encode_event(trace, Head(queue))
  /\ UNCHANGED <<scenario, producers, telling, made, stopped, handles, item, carried>>
\* The tasks of the others do.
Take ==
  /\ \E kind \in {"BeginTrace", "EndTrace", "log"} : Goto("idle", kind) /\ Taking(kind)
  /\ item' = Head(queue)
  /\ telling' = [telling EXCEPT ![Tracer] = Tell(Tracer, "STARTED", Head(queue).task)]
  /\ UNCHANGED <<scenario, producers, made, stopped, handles, trace, carried>>

UnbindEvent ==
  /\ Goto("BeginTrace", "begin unbound") \/ Goto("EndTrace", "end unbound")
  /\ handles' = [handles EXCEPT !.event = FALSE]
  /\ UNCHANGED <<scenario, producers, telling, made, pool, item, trace, carried>>
Unbind ==
  /\ Goto("begin unbound", "open") \/ Goto("end unbound", "close")
  /\ handles' = [handles EXCEPT !.logs = FALSE]
  /\ UNCHANGED <<scenario, producers, telling, made, pool, item, trace, carried>>
\* The ids given out so far.
IdsOf(w) ==
  (IF w.process_uuid = 0 THEN {} ELSE {<<"track", 1>>})
  \cup UNION {Tracks(Uuid(w, t)) : t \in ToSet(w.thread_uuids)}
  \cup UNION {{<<table, i>> : i \in DOMAIN w[table]} : table \in DOMAIN FieldOf}
\* The file is truncated, but tracks and interned ids go on: the packets of those that
\* were given out are in the file before, or were told to a closed one.  Then the reset
\* packet, and what went before the handler is bound.
Open ==
  /\ Goto("open", "bind")
  /\ carried' = IdsOf(trace)
  /\ trace' = Let(write_trace_packet([trace EXCEPT !.open = TRUE, !.file = <<>>], Nothing),
                  LAMBDA v : Let(encode_event(v, Event("CREATED", item.task, item.thread)),
                                 LAMBDA w : encode_event(w, Event("STARTED", item.task, Tracer))))
  /\ UNCHANGED <<scenario, producers, telling, made, pool, handles, item>>
BindEvent ==
  /\ Goto("bind", "bind logs")
  /\ handles' = [handles EXCEPT !.event = TRUE]
  /\ UNCHANGED <<scenario, producers, telling, made, pool, item, trace, carried>>
BindLogs ==
  /\ Goto("bind logs", "done")
  /\ handles' = [handles EXCEPT !.logs = item.logs]
  /\ UNCHANGED <<scenario, producers, telling, made, pool, item, trace, carried>>
Close ==
  /\ Goto("close", "done")
  /\ trace' = [trace EXCEPT !.open = FALSE]
  /\ UNCHANGED <<scenario, producers, telling, made, pool, handles, item, carried>>
OnLog ==
  /\ Goto("log", "done")
  /\ trace' = encode_log(trace, item)
  /\ UNCHANGED <<scenario, producers, telling, made, pool, handles, item, carried>>
Done ==
  /\ Goto("done", "idle")
  /\ telling' = [telling EXCEPT ![Tracer] = Tell(Tracer, "FINISHED", item.task)]
  /\ item' = NoItem
  /\ missed' = IF handles.event THEN missed ELSE missed \cup {item.task.id}
  /\ UNCHANGED <<scenario, script, running, submitted, made, pool, handles, trace, carried>>

\* Nothing is left for the other threads to do.
Rest ==
  /\ \A t \in Threads : telling[t] = <<>>
  /\ \A t \in Threads : script[t] < Len(Commands(t)) => Given(t).do = "start" /\ submitted = {}
  /\ UNCHANGED vars

Step(t) ==
  \/ Emit(t) \/ EmitTrace(t) \/ Start(t) \/ Finish(t) \/ Log(t) \/ Shutdown(t) \/ Submit(t)
TracerStep ==
  \/ Submit(Tracer) \/ OnEvent \/ Take \/ UnbindEvent \/ Unbind \/ Open \/ BindEvent \/ BindLogs \/ Close \/ OnLog \/ Done
Next == (\E t \in Threads : Step(t)) \/ TracerStep \/ Rest
\* The threads of the pools always run.
Fairness == WF_vars(TracerStep) /\ \A t \in Threads : WF_vars(Step(t))
Spec == Init /\ [][Next]_vars /\ Fairness

-----------------------------------------------------------------------------
(* Properties                                                               *)

File == trace.file
Before(i) == UNION {File[j].defines : j \in 1..(i - 1)}

\* The state has its types; the tables have no key twice (TraceController.hpp:91-107).
TypeOK ==
  /\ made \in Nat /\ stopped \in BOOLEAN /\ handles \in [event : BOOLEAN, logs : BOOLEAN]
  /\ \A t \in Threads : script[t] \in 0..Len(Commands(t)) /\ \A task \in ToSet(running[t]) : task.id \in 1..made
  /\ at = "idle" <=> item = NoItem
  /\ \A table \in {"thread_uuids", "categories", "event_names", "log_message_bodies"} : IsInjective(trace[table])
  /\ trace.process_uuid \in {0, 1}

\* A packet uses only the tracks and the interned ids that packets before it in the
\* file define, and none is defined twice: the readers of the file go through it once
\* (TraceController::thread and StringInterner::operator[]).  Not so for a second
\* BeginTrace, in whose file those that were given out before it have no packet
\* (TraceController.cpp:270-288).
DefinedBeforeUse ==
  \A i \in DOMAIN File :
    /\ File[i].uses \subseteq Before(i) \cup carried
    /\ File[i].defines \cap (Before(i) \cup carried) = {}

\* What is open on a track before the packet i.
RECURSIVE OpenOn(_, _)
OpenOn(track, i) ==
  IF i = 0 THEN <<>>
  ELSE LET open == OpenOn(track, i - 1)
       IN CASE File[i].track # track -> open
          [] File[i].kind = "BEGIN" -> Append(open, File[i].id)
          [] File[i].kind = "END" /\ open # <<>> -> Front(open)
          [] OTHER -> open
\* An end closes the slice of its own task, or none: a task that had started when the
\* trace began has no slice to close, and it may not close another's
\* (encode_event, TYPE_SLICE_END).  Not so in the file of a second BeginTrace: its slice
\* is written ahead of the ends that were told before it and may be closed by one, and so
\* may that of a task whose end was not told, as the events were not bound.
FirstBegin(i) == File[i].kind = "BEGIN" /\ \A j \in 1..(i - 1) : File[j].kind # "BEGIN"
SecondBegin == IF carried = {} THEN {} ELSE {File[i].id : i \in {j \in DOMAIN File : FirstBegin(j)}}
SlicesNest ==
  \A i \in DOMAIN File :
    File[i].kind = "END" =>
      LET open == OpenOn(File[i].track, i - 1)
      IN open # <<>> => Last(open) \in {File[i].id} \cup SecondBegin \cup missed

\* In the file a task is created before it starts, whatever threads told of it: the
\* flow arrows go from the one to the other (CallbackGenerator and Scheduler::submit).
CreatedFirst ==
  \A i, j \in DOMAIN File :
    File[i].id = File[j].id /\ File[i].event = "CREATED" /\ File[j].event = "STARTED" => i < j

\* The length of every sub-message is read as its size (SubMessage::~SubMessage), up to
\* the size that the two bytes kept for it can tell.  A longer one, of a log message
\* for example, is cut to that and the rest of the file cannot be read: nothing resizes
\* the vector, as protobuf.hpp:47-48 says.
LengthsAreRead ==
  \A p \in ToSet(File) : \A m \in ToSet(p.parts) : m.size < 16384 => Read(m.length) = m.size

\* The file of the first trace can be read from front to back while its packets are
\* short: ids are defined before they are used, but those carried over from an earlier
\* trace, and each sub-message below 16,384 bytes ends where its length says.
Readable == TypeOK /\ DefinedBeforeUse /\ LengthsAreRead

\* Nothing more is told, and the pool has nothing to do.
Quiet ==
  /\ \A t \in Threads \cup {Tracer} : telling[t] = <<>>
  /\ queue = <<>> /\ at = "idle"
Started == UNION {ToSet(running[t]) : t \in Threads}
\* When all is told, the file has the end of every slice in it whose task has ended,
\* after shutdown too (TracePool is persistent), but for the tasks that ended while a
\* second BeginTrace had unbound the events and not bound them again.
TraceComplete ==
  Quiet /\ trace.open =>
    \A i \in DOMAIN File :
      File[i].kind = "BEGIN" =>
        \/ File[i].id \in missed \/ \E task \in Started : task.id = File[i].id
        \/ \E j \in DOMAIN File : j > i /\ File[j].kind = "END" /\ File[j].id = File[i].id

\* What the file tells is what happened: each slice ends with its own task, each task
\* is created before it starts, and nothing is missing at the end.
Faithful == SlicesNest /\ CreatedFirst /\ TraceComplete

\* All that is told gets written in the end, after shutdown too.
TraceSettles == <>[]Quiet
=============================================================================

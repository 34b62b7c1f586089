------------------------------- MODULE Reaction -------------------------------
(***************************************************************************)
(* From an emit to the end of the tasks it makes: the reactions bound to a *)
(* type, Local and Inline emits, Reaction::get_task with the words Buffer, *)
(* Single, Once, Always, With, Optional, Last, Inline and TaskScope, the   *)
(* life of a ReactionTask, and the ReactionEvents that tell of it.         *)
(*                                                                         *)
(* Each thread has a stack of calls, for an inline task runs inside the    *)
(* emit that made it, and its callback may emit in turn:                   *)
(*   emit  the loop of Local::emit and Inline::emit over the reactions,    *)
(*         once for each scope of the emit;                                *)
(*   make  one submit(reaction->get_task());                               *)
(*   run   ReactionTask::run.                                              *)
(* A message is the number of its emit among those of its type, 0 is none. *)
(* The pools are what this module needs of them: priorities in order, and  *)
(* first in first out within a priority.                                   *)
(***************************************************************************)
EXTENDS Sentence, FiniteSets

CONSTANTS Types, Event, Reactions, Threads, Scenarios

\* A scenario: the sentences of the reactions, the order in which they are bound,
\* what their callbacks emit and which of them throw, the pool that each thread
\* works for, and the commands of those that work for none.
ASSUME ReactionAssumption ==
  /\ Event \in Types
  /\ \A s \in Scenarios :
       /\ ToSet(s.order) \cup s.throws \subseteq Reactions
       /\ \A r \in Reactions : Agree(s.sentence[r]) /\ OnePool(s.sentence[r]) /\ \A e \in ToSet(s.body[r]) : e.type \in Types
       /\ s.workers \in [Threads -> STRING]

VARIABLES
  scenario,     \* chosen at the start, it never changes
  sentence,     \* the words of each reaction
  given,        \* what the words' bind and the callback of each reaction were given
  callbacks,    \* TypeCallbackStore of each type
  stored,       \* DataStore of each type
  value,        \* ThreadStore of each thread and type
  transients,   \* of the CallbackGenerator of each reaction
  enabled, active,   \* of each reaction
  queue,        \* the tasks in the pools, in the order of their submission
  stack,        \* the calls of each thread
  current, scope,    \* ReactionTask::current_task and TaskScope::current_task_id
  script,       \* how many of its commands each thread has given
  count         \* the emits of each type so far

stores == <<callbacks, stored, value, transients>>
life == <<enabled, active, queue>>
locals == <<current, scope>>
words == <<scenario, sentence, given>>
vars == <<words, stores, life, stack, locals, script, count>>

None == "none"
Triggers(r) == ToSet(Hooks(sentence[r], "type"))
Reads(r) == ToSet(get(sentence[r]))
Optional(r) == ToSet(get(FindWords(sentence[r], "optional")))
LastN(r) == IF Hooks(sentence[r], "last") = <<>> THEN 0 ELSE Head(Hooks(sentence[r], "last"))
LastType(r) == Head(get(FindWords(sentence[r], "last")))
Scoped(r) == TRUE \in ToSet(scopes(sentence[r]))
Once(r) == "Once" \in ToSet(post_run(sentence[r]))
IsAlways(r) == "Always" \in ToSet(post_run(sentence[r]))
NoCause == [type |-> None, msg |-> 0]
NoTask == [reaction |-> None, from |-> NoCause, stats |-> TRUE, idle |-> FALSE, data |-> <<>>, list |-> <<>>]
Top(t) == Last(stack[t])
Is(t, kind, at) == stack[t] # <<>> /\ Top(t).kind = kind /\ Top(t).at = at
\* The top call becomes f, f with a call g inside, or returns.
Goes(t, f) == [stack EXCEPT ![t] = Append(Front(@), f)]
Calls(t, f, g) == [stack EXCEPT ![t] = Front(@) \o <<f, g>>]
Returns(t) == [stack EXCEPT ![t] = Front(@)]

\* emit<Scopes...>(data): the handlers of the scopes get the message one after the other.
Handler(type, msg, scopes_) ==
  [kind |-> "emit", at |-> "next", type |-> type, msg |-> msg, inline |-> Head(scopes_) = "INLINE", rest |-> Tail(scopes_),
   i |-> 1, end |-> Len(callbacks[type])]
Emission(type, scopes_) == Handler(type, count[type] + 1, scopes_)
Making(r, inline, from) ==
  [kind |-> "make", at |-> "enabled", reaction |-> r, inline |-> inline, from |-> from, task |-> NoTask]
Running(task, t) ==
  [kind |-> "run", at |-> "start", task |-> task, k |-> 1, scope |-> scope[t], current |-> current[t]]

\* An emit of a ReactionEvent, when the task has statistics and anybody listens.
Tells(t, f, task) ==
  IF task.stats /\ callbacks[Event] # <<>>
  THEN stack' = Calls(t, f, Emission(Event, <<"LOCAL">>)) /\ count' = [count EXCEPT ![Event] = @ + 1]
  ELSE stack' = Goes(t, f) /\ UNCHANGED count

-----------------------------------------------------------------------------
(* Binding: every reaction is bound before the first emit; an Always has    *)
(* submitted its first task and its idle task.                              *)

Task(r, from, stats) ==
  [NoTask EXCEPT !.reaction = r, !.from = from, !.stats = stats]
IdleTask(r, stats) == [Task(r, NoCause, stats) EXCEPT !.idle = TRUE]
\* Mutant of IdlePriority: the idle task is as urgent as the others.
SamePriority(p) == p
IdlePriority(p) == p - 1
priority_level(p) == Cardinality({b \in {1000, 750, 500, 250} : p < b})
Level(task) ==
  LET p == priority(sentence[task.reaction])
  IN priority_level(IF task.idle THEN IdlePriority(p) ELSE p)

Id(task) == [reaction |-> task.reaction, from |-> task.from]
Always == {r \in ToSet(scenario.order) : IsAlways(r)}
Init ==
  /\ scenario \in Scenarios
  /\ sentence = scenario.sentence /\ given = [r \in Reactions |-> <<>>]
  /\ callbacks = [type \in Types |-> SelectSeq(scenario.order, LAMBDA r : type \in Triggers(r))]
  /\ stored = [type \in Types |-> 0] /\ value = [t \in Threads |-> stored]
  /\ transients = [r \in Reactions |-> <<>>] /\ enabled = [r \in Reactions |-> TRUE]
  /\ active = [r \in Reactions |-> IF r \in Always THEN 2 ELSE 0]
  /\ queue = FlattenSeq(SetToSeq({<<Task(r, NoCause, TRUE), IdleTask(r, TRUE)>> : r \in Always}))
  /\ stack = [t \in Threads |-> <<>>] /\ script = [t \in Threads |-> 0]
  /\ current = [t \in Threads |-> NoTask] /\ scope = [t \in Threads |-> Id(NoTask)]
  /\ count = [type \in Types |-> 0]

\* The unbinders of a reaction: TypeBind's erases it from its list, Always's
\* disables it.
Unbound(r) ==
  [type \in Types |-> IF type \in Triggers(r) THEN SelectSeq(callbacks[type], LAMBDA c : c # r) ELSE callbacks[type]]
Unbind(r) ==
  /\ callbacks' = Unbound(r)
  /\ enabled' = IF IsAlways(r) THEN [enabled EXCEPT ![r] = FALSE] ELSE enabled

\* on<Words...>(args...).then(callback): what the words' bind and the callback are
\* given, and the reaction is in the lists of its types, if that compiles.
Then(t) ==
  /\ stack[t] = <<>> /\ script[t] < Len(scenario.script[t])
  /\ script' = [script EXCEPT ![t] = @ + 1]
  /\ LET command == scenario.script[t][script[t] + 1] IN
       /\ command.do = "on"
       /\ \E s \in command.sentences :
            LET split == BindFuser(s.words, s.args)
                data == apply_relevant(s.words, s.callback)
                compiles == split # Unsplit /\ data # TooFew
            IN /\ sentence' = [sentence EXCEPT ![command.reaction] = s.words]
               /\ given' = [given EXCEPT ![command.reaction] =
                              <<[args |-> s.args, callback |-> s.callback, data |-> data,
                                pieces |-> IF split = Unsplit THEN <<>> ELSE FunctionFusionCaller(s.args, split)]>>]
               /\ callbacks' = [type \in Types |->
                                  IF compiles /\ type \in ToSet(Hooks(s.words, "type"))
                                  THEN Append(callbacks[type], command.reaction) ELSE callbacks[type]]
  /\ UNCHANGED <<scenario, stored, value, transients, life, locals, stack, count>>

\* A command of a thread that is no worker: an emit, or a call of a handle.
Command(t) ==
  /\ stack[t] = <<>> /\ script[t] < Len(scenario.script[t])
  /\ script' = [script EXCEPT ![t] = @ + 1]
  /\ LET command == scenario.script[t][script[t] + 1] IN
       \/ /\ command.do = "emit"
          /\ stack' = [stack EXCEPT ![t] = <<Emission(command.type, command.scopes)>>]
          /\ count' = [count EXCEPT ![command.type] = @ + 1]
          /\ UNCHANGED <<callbacks, enabled>>
       \/ /\ command.do \in {"enable", "disable"}
          /\ enabled' = [enabled EXCEPT ![command.reaction] = (command.do = "enable")]
          /\ UNCHANGED <<callbacks, stack, count>>
       \/ command.do = "unbind" /\ Unbind(command.reaction) /\ UNCHANGED <<stack, count>>
  /\ UNCHANGED <<words, stored, value, transients, active, queue, locals>>

-----------------------------------------------------------------------------
(* Emitting.                                                                *)

\* Mutant of EmitNext: the message is put into the thread store once.
EmitNextOnce(t) ==
  /\ Is(t, "emit", "next") /\ Top(t).i <= Top(t).end /\ Top(t).i <= Len(callbacks[Top(t).type])
  /\ LET f == Top(t) IN
       /\ value' = IF f.i = 1 THEN [value EXCEPT ![t][f.type] = f.msg] ELSE value
       /\ stack' = Calls(t, [f EXCEPT !.i = @ + 1],
                         Making(callbacks[f.type][f.i], f.inline, [type |-> f.type, msg |-> f.msg]))
  /\ UNCHANGED <<words, callbacks, stored, transients, life, locals, script, count>>
\* Mutant of EmitNext: a reaction that makes no task is tried again.
EmitNextRetry(t) ==
  /\ Is(t, "emit", "next") /\ Top(t).i <= Top(t).end /\ Top(t).i <= Len(callbacks[Top(t).type])
  /\ LET f == Top(t)
         r == callbacks[f.type][f.i]
     IN /\ value' = [value EXCEPT ![t][f.type] = f.msg]
        /\ stack' = Calls(t, IF enabled[r] THEN [f EXCEPT !.i = @ + 1] ELSE f,
                          Making(r, f.inline, [type |-> f.type, msg |-> f.msg]))
  /\ UNCHANGED <<words, callbacks, stored, transients, life, locals, script, count>>
EmitNext(t) ==
  /\ Is(t, "emit", "next") /\ Top(t).i <= Top(t).end /\ Top(t).i <= Len(callbacks[Top(t).type])
  /\ LET f == Top(t) IN
       /\ value' = [value EXCEPT ![t][f.type] = f.msg]
       /\ stack' = Calls(t, [f EXCEPT !.i = @ + 1],
                         Making(callbacks[f.type][f.i], f.inline, [type |-> f.type, msg |-> f.msg]))
  /\ UNCHANGED <<words, callbacks, stored, transients, life, locals, script, count>>

\* The end of the loop is that of the list at its start: an Once that ran inside it, or
\* an unbind, has shortened the list, and in the place of its last entry is the empty
\* pointer the erase left there, on which get_task is called: the program dies.
EmitPast(t) ==
  /\ Is(t, "emit", "next") /\ Top(t).i <= Top(t).end /\ Top(t).i > Len(callbacks[Top(t).type])
  /\ stack' = Goes(t, [Top(t) EXCEPT !.at = "past"])
  /\ UNCHANGED <<words, stores, life, locals, script, count>>
Dead == \E t \in Threads : Is(t, "emit", "past")

EmitEnd(t) ==
  /\ Is(t, "emit", "next") /\ Top(t).i > Top(t).end
  /\ value' = [value EXCEPT ![t][Top(t).type] = 0]
  /\ stored' = [stored EXCEPT ![Top(t).type] = Top(t).msg]
  /\ stack' = IF Top(t).rest = <<>> THEN Returns(t) ELSE Goes(t, Handler(Top(t).type, Top(t).msg, Top(t).rest))
  /\ UNCHANGED <<words, callbacks, transients, life, locals, script, count>>

-----------------------------------------------------------------------------
(* get_task and submit.                                                     *)

\* Mutant of Statistics: whatever the reaction, its task has statistics.
StatisticsAlways(t, r) == current[t].stats
Statistics(t, r) == Event \notin Triggers(r) /\ current[t].stats

\* The constructor of the task counts it.
Build(t) ==
  /\ Is(t, "make", "enabled")
  /\ LET f == Top(t) IN
       IF enabled[f.reaction]
       THEN /\ active' = [active EXCEPT ![f.reaction] = @ + 1]
            /\ stack' = Goes(t, [f EXCEPT !.at = "check", !.task = Task(f.reaction, f.from, Statistics(t, f.reaction))])
       ELSE stack' = Returns(t) /\ UNCHANGED active
  /\ UNCHANGED <<words, stores, enabled, queue, locals, script, count>>

\* Mutant of Admits: one too many.
AdmitsOneMore(r) == PreconditionFuser(sentence[r], active[r] - 1)
Admits(r) == PreconditionFuser(sentence[r], active[r])
Check(t) ==
  /\ Is(t, "make", "check")
  /\ LET f == Top(t) IN
       IF Admits(f.reaction) THEN stack' = Goes(t, [f EXCEPT !.at = "get"]) /\ UNCHANGED count
       ELSE Tells(t, [f EXCEPT !.at = "drop"], f.task)
  /\ UNCHANGED <<words, stores, life, locals, script>>

\* Mutant of Drop: the task is not counted off.
DropCounted(t) ==
  /\ Is(t, "make", "drop")
  /\ stack' = Returns(t)
  /\ UNCHANGED <<words, stores, life, locals, script, count>>
Drop(t) ==
  /\ Is(t, "make", "drop")
  /\ active' = [active EXCEPT ![Top(t).reaction] = @ - 1]
  /\ stack' = Returns(t)
  /\ UNCHANGED <<words, stores, enabled, queue, locals, script, count>>

\* CacheGet: the message being emitted by this thread, or the last one.
CacheGet(t, type) == IF value[t][type] = 0 THEN stored[type] ELSE value[t][type]
\* Mutant of Merged: all of them are kept.
MergedAll(list, msg, n) == Append(list, msg)
\* Mutant of Merged: the first n are kept.
MergedFirst(list, msg, n) == SubSeq(Append(list, msg), 1, n)
Merged(list, msg, n) == LET l == Append(list, msg) IN SubSeq(l, Len(l) - n + 1, Len(l))

\* DSL::get, merge_transients and check_data, for which the list of a Last is there as
\* soon as it has an entry, were it an empty one.
Get(t) ==
  /\ Is(t, "make", "get")
  /\ LET f == Top(t)
         r == f.reaction
         data == [type \in Reads(r) |-> CacheGet(t, type)]
         n == LastN(r)
         list == IF n = 0 THEN <<>>
                 ELSE IF Len(transients[r]) < n THEN Append(transients[r], data[LastType(r)])
                 ELSE Merged(transients[r], data[LastType(r)], n)
         needed == Reads(r) \ (Optional(r) \cup (IF n = 0 THEN {} ELSE {LastType(r)}))
         complete == \A type \in needed : data[type] # 0
     IN /\ transients' = [transients EXCEPT ![r] = list]
        /\ Tells(t, [f EXCEPT !.at = IF complete THEN "submit" ELSE "drop", !.task.data = data, !.task.list = list],
                 f.task)
  /\ UNCHANGED <<words, callbacks, stored, value, life, locals, script>>

Inlines(r, requested) ==
  LET choice == run_inline(sentence[r])
  IN choice = "ALWAYS" \/ (choice = "NEUTRAL" /\ requested)
Submit(t) ==
  /\ Is(t, "make", "submit")
  /\ LET f == Top(t) IN
       IF Inlines(f.reaction, f.inline)
       THEN stack' = Goes(t, Running(f.task, t)) /\ UNCHANGED queue
       ELSE stack' = Returns(t) /\ queue' = Append(queue, f.task)
  /\ UNCHANGED <<words, stores, enabled, active, locals, script, count>>

-----------------------------------------------------------------------------
(* Running.                                                                 *)

Mine(t) == {i \in DOMAIN queue : pool(sentence[queue[i].reaction]) = scenario.workers[t]}
Take(t) ==
  /\ stack[t] = <<>>
  /\ \E i \in Mine(t) :
       /\ \A k \in Mine(t) : Level(queue[i]) < Level(queue[k]) \/ (Level(queue[i]) = Level(queue[k]) /\ i <= k)
       /\ stack' = [stack EXCEPT ![t] = <<Running(queue[i], t)>>]
       /\ queue' = RemoveAt(queue, i)
  /\ UNCHANGED <<words, stores, enabled, active, locals, script, count>>

Start(t) ==
  /\ Is(t, "run", "start")
  /\ current' = [current EXCEPT ![t] = Top(t).task]
  /\ IF Top(t).task.idle THEN stack' = Goes(t, [Top(t) EXCEPT !.at = "body"]) /\ UNCHANGED count
     ELSE Tells(t, [Top(t) EXCEPT !.at = "scope"], Top(t).task)
  /\ UNCHANGED <<words, stores, life, scope, script>>

EnterScope(t) ==
  /\ Is(t, "run", "scope")
  /\ scope' = IF Scoped(Top(t).task.reaction) THEN [scope EXCEPT ![t] = Id(Top(t).task)] ELSE scope
  /\ stack' = Goes(t, [Top(t) EXCEPT !.at = "body"])
  /\ UNCHANGED <<words, stores, life, current, script, count>>
in_scope(t) == scope[t] = Id(current[t])

\* The callback: it emits, and returns or throws.
Body(t) ==
  /\ Is(t, "run", "body") /\ ~Top(t).task.idle
  /\ LET f == Top(t)
         emits == scenario.body[f.task.reaction]
     IN \/ /\ f.k <= Len(emits)
           /\ stack' = Calls(t, [f EXCEPT !.k = @ + 1], Emission(emits[f.k].type, emits[f.k].scopes))
           /\ count' = [count EXCEPT ![emits[f.k].type] = @ + 1]
        \/ f.k > Len(emits) /\ stack' = Goes(t, [f EXCEPT !.at = "post"]) /\ UNCHANGED count
        \/ f.k > Len(emits) /\ f.task.reaction \in scenario.throws
           /\ stack' = Goes(t, [f EXCEPT !.at = "leave"]) /\ UNCHANGED count
  /\ UNCHANGED <<words, stores, life, locals, script>>

\* post_run: Once unbinds its reaction, Always makes its next task.
Post(t) ==
  /\ Is(t, "run", "post")
  /\ LET f == [Top(t) EXCEPT !.at = "leave"]
         r == f.task.reaction
     IN /\ IF Once(r) THEN Unbind(r) ELSE UNCHANGED <<callbacks, enabled>>
        /\ stack' = IF IsAlways(r) THEN Calls(t, f, Making(r, FALSE, NoCause)) ELSE Goes(t, f)
  /\ UNCHANGED <<words, stored, value, transients, active, queue, locals, script, count>>

\* Mutant of Leave: the scope that was entered stays.
LeaveInScope(t) ==
  /\ Is(t, "run", "leave")
  /\ Tells(t, [Top(t) EXCEPT !.at = "end"], Top(t).task)
  /\ UNCHANGED <<words, stores, life, locals, script>>
Leave(t) ==
  /\ Is(t, "run", "leave")
  /\ scope' = IF Scoped(Top(t).task.reaction) THEN [scope EXCEPT ![t] = Top(t).scope] ELSE scope
  /\ Tells(t, [Top(t) EXCEPT !.at = "end"], Top(t).task)
  /\ UNCHANGED <<words, stores, life, current, script>>

\* The callback of an idle task: the next task of its reaction, then itself again.
Idle(t) ==
  /\ Is(t, "run", "body") /\ Top(t).task.idle
  /\ stack' = Calls(t, [Top(t) EXCEPT !.at = "again"], Making(Top(t).task.reaction, FALSE, NoCause))
  /\ UNCHANGED <<words, stores, life, locals, script, count>>
\* Mutant of IdleAgain: the idle task is not made again.
IdleNoMore(t) ==
  /\ Is(t, "run", "again")
  /\ stack' = Goes(t, [Top(t) EXCEPT !.at = "end"])
  /\ UNCHANGED <<words, stores, life, locals, script, count>>
IdleAgain(t) ==
  /\ Is(t, "run", "again")
  /\ active' = [active EXCEPT ![Top(t).task.reaction] = @ + 1]
  /\ queue' = Append(queue, LET r == Top(t).task.reaction IN IdleTask(r, Statistics(t, r)))
  /\ stack' = Goes(t, [Top(t) EXCEPT !.at = "end"])
  /\ UNCHANGED <<words, stores, enabled, locals, script, count>>

\* run returns, and the task is destroyed.
End(t) ==
  /\ Is(t, "run", "end")
  /\ current' = [current EXCEPT ![t] = Top(t).current]
  /\ active' = [active EXCEPT ![Top(t).task.reaction] = @ - 1]
  /\ stack' = Returns(t)
  /\ UNCHANGED <<words, stores, enabled, queue, scope, script, count>>

-----------------------------------------------------------------------------
Step(t) ==
  \/ Then(t) \/ Command(t) \/ EmitNext(t) \/ EmitPast(t) \/ EmitEnd(t)
  \/ Build(t) \/ Check(t) \/ Drop(t) \/ Get(t) \/ Submit(t)
  \/ Take(t) \/ Start(t) \/ EnterScope(t) \/ Body(t) \/ Post(t) \/ Leave(t)
  \/ Idle(t) \/ IdleAgain(t) \/ End(t)

\* Every command is given and nothing is left of it; an Always goes on for ever.
Others(t) == scenario.workers[t] \notin {pool(sentence[r]) : r \in Always}
Quiet ==
  /\ \A t \in Threads : Others(t) => stack[t] = <<>> /\ script[t] = Len(scenario.script[t])
  /\ \A i \in DOMAIN queue : queue[i].reaction \in Always
Rest == (Quiet \/ Dead) /\ UNCHANGED vars

Next == Rest \/ (~Dead /\ \E t \in Threads : Step(t))

\* Every thread goes on.
Fairness == \A t \in Threads : WF_vars(~Dead /\ Step(t))
Spec == Init /\ [][Next]_vars /\ Fairness

-----------------------------------------------------------------------------
(* Properties                                                               *)

Frames == UNION {ToSet(stack[t]) : t \in Threads}
Queued(r) == {i \in DOMAIN queue : queue[i].reaction = r}
Of(f) == IF f.kind = "run" THEN f.task.reaction ELSE f.reaction
On(r, kind, ats) ==
  {<<t, i>> \in Threads \X (1..10) :
     /\ i \in DOMAIN stack[t] /\ stack[t][i].kind = kind /\ stack[t][i].at \in ats
     /\ r = Of(stack[t][i])}
RunSteps == {"start", "scope", "body", "post", "leave", "again", "end"}
Live(r, ats) == Cardinality(Queued(r)) + Cardinality(On(r, "run", RunSteps)) + Cardinality(On(r, "make", ats))
\* The task of every frame that runs or submits one, and of the queue.
Tasks == ToSet(queue) \cup {f.task : f \in {g \in Frames : g.kind = "run" \/ (g.kind = "make" /\ g.at = "submit")}}

\* Types; a thread's calls nest as the code calls them.
TypeOK ==
  /\ scenario \in Scenarios /\ enabled \in [Reactions -> BOOLEAN] /\ active \in [Reactions -> Nat]
  /\ callbacks \in [Types -> Seq(Reactions)] /\ stored \in [Types -> Nat] /\ value \in [Threads -> [Types -> Nat]]
  /\ \A r \in Reactions : transients[r] \in Seq(Nat) /\ Len(transients[r]) <= LastN(r)
  /\ \A t \in Threads : Len(stack[t]) <= 10 /\ \A i \in 2..Len(stack[t]) :
       stack[t][i].kind = CASE stack[t][i - 1].kind = "emit" -> IF stack[t][i].kind = "run" THEN "run" ELSE "make"
                            [] stack[t][i - 1].kind = "make" -> "emit"
                            [] OTHER -> IF stack[t][i].kind = "emit" THEN "emit" ELSE "make"

\* active_tasks is the number of the reaction's tasks that exist, through every
\* early return of the generator and for inline tasks and tasks of threads that
\* overlap (ReactionTask.hpp:94, ReactionTask.cpp:44): Buffer decides by it.
ActiveCounts == \A r \in Reactions : active[r] = Live(r, {"check", "get", "submit", "drop"})

\* However many threads emit at once, no more than n tasks of a Buffer<n> reaction
\* are made, wait or run (Buffer.hpp:52 reads the counter after the constructor of
\* the task has raised it).
BufferBound ==
  \A r \in Reactions : \A n \in ToSet(Hooks(sentence[r], "precondition")) : Live(r, {"get", "submit"}) <= n

\* A task carries the message of the emit that made it, although its reaction or
\* one before it ran inline and emitted the same type inside the loop, which
\* overwrites and then clears the thread store (Local.hpp:59, Inline.hpp:63).
TaskCarriesItsMessage ==
  \A task \in Tasks : task.from # NoCause => task.data[task.from.type] = task.from.msg

\* A Last<n> reaction gets the last n messages of its type in their order, without
\* a gap, when one thread emits them, although tasks were dropped for want of other
\* data (Last.hpp:197).
LastInOrder ==
  \A task \in Tasks :
    LET n == LastN(task.reaction) IN
      n > 0 /\ LastType(task.reaction) \in Triggers(task.reaction) => task.list = [i \in 1..(IF task.from.msg < n THEN task.from.msg ELSE n) |->
                              i + IF task.from.msg < n THEN 0 ELSE task.from.msg - n]

\* The data a task carries are those of its emit, and of the emits before it in
\* their order (CacheGet, MergeTransients).
RightMessages == TaskCarriesItsMessage /\ LastInOrder

\* While a callback runs, its thread is in the scope of a TaskScope exactly when its
\* reaction has the word: whatever ran inline inside it, and threw, has restored
\* both ids (TaskScope.hpp:63,89, ReactionTask.cpp:62).
InScope ==
  \A t \in Threads :
    Is(t, "run", "body") /\ ~Top(t).task.idle => (in_scope(t) <=> Scoped(Top(t).task.reaction))

\* An Always reaction never has more than one task and one idle task waiting,
\* although both of them submit its next task (Always.hpp:115,141): its pool has one
\* thread, and the idle task waits in a lower bucket.  Not so for Priority::IDLE, whose
\* idle tasks wait in the same bucket as the others, so that tasks are made faster than run.
AlwaysOne ==
  \A r \in {q \in Always : priority(sentence[q]) > 0} :
    /\ Cardinality({i \in Queued(r) : ~queue[i].idle}) <= 1
    /\ Cardinality({i \in Queued(r) : queue[i].idle}) <= 1

\* The tasks of a reaction are counted exactly, and bounded where a word bounds
\* them: Buffer and Single by the counter, Always by what it submits.
Accounting == TypeOK /\ ActiveCounts /\ BufferBound /\ AlwaysOne

\* What runs because of a ReactionEvent makes no further ReactionEvents
\* (TypeBind.hpp:67, ReactionTask.cpp:74): nobody traces the tracing.
EventsAreSilent ==
  \A t \in Threads, i, j \in 1..10 :
    i < j /\ j \in DOMAIN stack[t] =>
      ~(stack[t][i].kind # "emit" /\ Event \in Triggers(Of(stack[t][i]))
        /\ stack[t][j].kind = "emit" /\ stack[t][j].type = Event)

\* The arguments of on go to the binds of its words in one piece each and to the
\* last one, and of the ways to do it the code takes the one that gives the earlier
\* words more; it finds one whenever there is one (FunctionFusion.hpp:246).
Ways(functions, args) ==
  {cut \in [0..Len(functions) -> 0..Len(args)] :
     /\ cut[0] = 0 /\ cut[Len(functions)] = Len(args)
     /\ \A i \in 1..Len(functions) :
          cut[i - 1] <= cut[i] /\ is_callable(functions[i], SubSeq(args, cut[i - 1] + 1, cut[i]))}
MoreFirst(c, d) == \A i \in DOMAIN c : (c[i] < d[i]) => \E k \in DOMAIN c : k < i /\ c[k] > d[k]
ArgumentsFound ==
  \A r \in Reactions : \A g \in ToSet(given[r]) :
    LET functions == Hooks(sentence[r], "bind")
        ways == Ways(functions, g.args)
    IN IF ways = {} THEN g.pieces = <<>>
       ELSE \E cut \in ways : /\ \A other \in ways : MoreFirst(cut, other)
                               /\ g.pieces = [i \in 1..Len(functions) |-> SubSeq(g.args, cut[i - 1] + 1, cut[i])]

\* The callback gets data of the types it asks for, each from a word after that of
\* the parameter before it and from the first such word, if there is a way at all
\* (RelevantArguments.hpp:36).
DataFound ==
  \A r \in Reactions : \A g \in ToSet(given[r]) :
    LET data == Offered(sentence[r])
        ways == {w \in [1..Len(g.callback) -> 1..Len(data)] :
                   \A i \in DOMAIN w : Converts(data[w[i]], g.callback[i]) /\ \A k \in 1..(i - 1) : w[k] < w[i]}
    IN IF ways = {} THEN g.data = TooFew
       ELSE g.data \in ways /\ \A w \in ways : \A i \in DOMAIN w : g.data[i] <= w[i]

\* on<Words...>(args...).then(callback) gives each word its arguments and the
\* callback its data (FunctionFusion, apply_relevant).
SentencesFit == ArgumentsFound /\ DataFound

\* Every emit returns, and every task it made runs and is destroyed, unless the program
\* dies in an emit whose list an Once inside it has shortened (EmitPast).
EmissionsSettle == <>[](Quiet \/ Dead)

\* An Always reaction that stays enabled runs again and again, although its
\* callback throws and so never comes to submit the next task (Always.hpp:113,139).
AlwaysGoesOn ==
  \A r \in Reactions :
    []<>(r \in Always /\ enabled[r] => On(r, "run", {"post", "leave"}) # {})
=============================================================================

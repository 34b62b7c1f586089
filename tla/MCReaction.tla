------------------------------ MODULE MCReaction ------------------------------
(* Small instances of Reaction: two threads that emit, two workers of the     *)
(* default pool and one of an Always reaction.                                *)
EXTENDS Reaction, TLC

CONSTANTS T, U, a, b, c, e1, e2, w1, w2

Emit(type, scopes_) == [do |-> "emit", type |-> type, scopes |-> scopes_]
Local(type) == Emit(type, <<"LOCAL">>)
Inline(type) == Emit(type, <<"INLINE">>)
Call(do, r) == [do |-> do, reaction |-> r]

Bind(r, sentences) == [do |-> "on", reaction |-> r, sentences |-> sentences]

\* The words.
Trigger(type) == [bind |-> {<<>>}, type |-> type, get |-> type]
Last_(n, type) == [bind |-> {<<>>}, type |-> type, get |-> type, last |-> n]
With(type) == [get |-> type]
LastWith(n, type) == [get |-> type, last |-> n]
OptionalWith(type) == [get |-> type, optional |-> TRUE]
Buffer(n) == [precondition |-> n]
OnceWord == [precondition |-> 1, post_run |-> "Once"]
AlwaysWord == [bind |-> {<<>>}, pool |-> "always", run_inline |-> "NEVER", post_run |-> "Always"]
InlineWord(choice) == [run_inline |-> choice]
TaskScope == [scope |-> TRUE]
Priority(p) == [priority |-> p]
IO == [bind |-> {<<"int", "int">>}, get |-> "event"]
UDP == [bind |-> {<<>>, <<"int">>, <<"int", "string">>}, get |-> "packet"]
Every == [bind |-> {<<"duration">>}]
Watchdog == [bind |-> {<<"int">>, <<"string">>, <<"duration">>}]

Plain ==
  [order |-> <<a>>, sentence |-> [r \in Reactions |-> <<Trigger(T)>>],
   throws |-> {}, body |-> [r \in Reactions |-> <<>>],
   workers |-> (w1 :> "default" @@ w2 :> "default" @@ e1 :> "none" @@ e2 :> "none"),
   script |-> [t \in Threads |-> <<>>]]

\* Two threads emit for a Single reaction, and for one of Buffer<2>.
Singles == [Plain EXCEPT !.sentence[a] = <<Trigger(T), Buffer(1)>>,
                         !.script[e1] = <<Local(T), Local(T)>>, !.script[e2] = <<Local(T)>>]
Buffers == [Singles EXCEPT !.sentence[a] = <<Buffer(3), Trigger(T), Buffer(2)>>]
\* Inline emits within inline emits of the same type, with a scope and a throw.
Nested == [Plain EXCEPT !.order = <<a, b, c>>, !.body[a] = <<Inline(T), Local(U)>>,
                        !.sentence = a :> <<Trigger(T), Buffer(1), TaskScope>> @@ b :> <<Trigger(T)>>
                                     @@ c :> <<Trigger(U), With(T), InlineWord("ALWAYS"), TaskScope>>,
                        !.throws = {c}, !.script[e1] = <<Inline(T), Local(T)>>]
\* The last two messages, and another type that may not have come yet.
Lasts == [Plain EXCEPT !.order = <<a, b>>, !.sentence = a :> <<Last_(2, T)>> @@ b :> <<Trigger(T), With(U)>> @@ @,
                       !.script[e1] = <<Local(T), Local(T), Local(T)>>, !.script[e2] = <<Local(U)>>]
\* Lasts dropped for want of other data, and Lasts of data that have not come.
Missing == [Plain EXCEPT !.order = <<a, b>>, !.sentence = a :> <<Last_(2, T), With(U)>> @@ b :> <<Trigger(U), LastWith(2, T)>> @@ @,
                         !.script[e1] = <<Local(T), Local(T), Local(T)>>, !.script[e2] = <<Local(U)>>]
Options == [Plain EXCEPT !.order = <<a, b>>, !.sentence[b] = <<Trigger(T), OptionalWith(U)>>,
                         !.script[e1] = <<Local(T), Call("disable", b), Local(T), Call("enable", b), Local(T)>>,
                         !.script[e2] = <<Local(U)>>]
\* The same message in two scopes, for a reaction that is always inline as well.
Scopes == [Nested EXCEPT !.body[a] = <<Emit(U, <<"LOCAL", "INLINE">>)>>, !.script[e1] = <<Emit(T, <<"INLINE", "LOCAL">>), Local(T)>>]
\* Once, emitted inline, emits its own type.
Onces == [Plain EXCEPT !.order = <<b, a>>, !.sentence = a :> <<Trigger(T), OnceWord>> @@ b :> <<Trigger(T), InlineWord("NEVER")>> @@ @,
                       !.body[a] = <<Inline(T)>>, !.script[e1] = <<Inline(T), Inline(T), Call("unbind", b), Local(T)>>]
\* Once, with a reaction after it in the list, emitted inline.
Shortened == [Plain EXCEPT !.order = <<a, b>>, !.sentence[a] = <<Trigger(T), OnceWord>>, !.script[e1] = <<Inline(T)>>]
\* Always, whose callback throws at times, is disabled and enabled.
Alwayses == [Plain EXCEPT !.sentence[a] = <<AlwaysWord, Priority(500)>>, !.throws = {a},
                          !.workers = w1 :> "always" @@ @,
                          !.script[e1] = <<Call("disable", a), Call("enable", a)>>]
\* Somebody listens to the events, and emits in turn.
Traced == [Plain EXCEPT !.order = <<a, b, c>>, !.body[b] = <<Local(U)>>,
                        !.sentence = a :> <<Trigger(T), Buffer(1)>> @@ b :> <<Trigger(Event), InlineWord("ALWAYS")>>
                                     @@ c :> <<Trigger(U), Buffer(1), InlineWord("ALWAYS")>>,
                        !.script[e1] = <<Local(T), Local(T)>>]
\* Sentences of up to three words with arguments, and callbacks that ask for data.
Bindable == {<<v, w>> : v, w \in {IO, UDP, Every, Watchdog, Trigger(T)}}
            \cup {<<u, v, Watchdog>> : u, v \in {UDP, IO, Watchdog}}
Arguments == UNION {[1..n -> {"int", "string", "duration"}] : n \in 0..3} \cup {<<"int", "string", "int", "int">>}
Asking == {<<Trigger(T), IO, Trigger(T)>>, <<UDP, With(T), Last_(2, T), Trigger(U), UDP>>}
One(type) == [type |-> type, list |-> FALSE]
List(type) == [type |-> type, list |-> TRUE]
Callbacks == UNION {[1..n -> {One(T), One(U), List(T), One("packet")}] : n \in 0..3}
Bindings == [Plain EXCEPT !.order = <<>>,
  !.script[e1] = <<Bind(a, {[words |-> w, args |-> x, callback |-> <<>>] : w \in Bindable, x \in Arguments}
                         \cup {[words |-> w, args |-> <<"int", "int">>, callback |-> c_] : w \in Asking, c_ \in Callbacks})>>]
\* A reaction of two priorities is bound, and then its type is emitted.
Late == [Plain EXCEPT !.sentence[a] = <<Trigger(T), Buffer(1)>>,
                      !.script[e1] = <<Bind(b, {[words |-> <<Priority(250), Trigger(T), Priority(750)>>, args |-> <<>>, callback |-> <<One(T)>>]}), Local(T), Local(T)>>]

MCScenarios == {Singles, Buffers, Nested, Scopes, Lasts, Missing, Options, Onces, Shortened, Alwayses, Traced, Bindings, Late}
=============================================================================

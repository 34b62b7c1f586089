---------------------------- MODULE MCIOController ----------------------------
(* Small settings for IOController. *)
EXTENDS IOController, TLC

CONSTANTS r1, r2
Two == {r1, r2}
Base == [order |-> <<r1, r2>>, fd |-> (r1 :> 5 @@ r2 :> 6), listens |-> [r \in Two |-> {"READ", "CLOSE"}],
         word |-> [r \in Two |-> "IO"], unbinds |-> {}, data |-> (5 :> 1 @@ 6 :> 1),
         empty |-> [f \in {5, 6} |-> {}], closes |-> {}, hangups |-> {5, 6}, notifier |-> 3, also |-> {}]

\* Two descriptors of one word each, where poll tells a closed end and where it does not;
\* a datagram socket whose reaction is unbound; empty datagrams; one descriptor of two
\* reactions; a listening socket; a shutdown; get_task refuses; another reader; callbacks
\* that throw.
Pipes == [Base EXCEPT !.data = (5 :> 2 @@ 6 :> 1), !.closes = {5}]
Streams == [Pipes EXCEPT !.hangups = {}]
Empty == [Base EXCEPT !.word[r1] = "UDP", !.data = (5 :> 2 @@ 6 :> 2), !.empty = (5 :> {2} @@ 6 :> {1})]
Datagrams == [Base EXCEPT !.word[r1] = "UDP", !.data = (5 :> 2 @@ 6 :> 0), !.unbinds = {r1}]
Sockets == [Base EXCEPT !.word = (r1 :> "TCP" @@ r2 :> "UDP"), !.data = (5 :> 2 @@ 6 :> 1), !.also = {"fail"}]
Shared == [Base EXCEPT !.fd[r2] = 5, !.listens = (r1 :> {"READ"} @@ r2 :> {"CLOSE"}), !.data = (5 :> 2 @@ 6 :> 0),
                         !.closes = {5}, !.unbinds = {r2}]
Ends == [Base EXCEPT !.data = (5 :> 1 @@ 6 :> 0), !.also = {"shutdown"}, !.unbinds = {r2}]
Refuses == [Base EXCEPT !.word[r1] = "UDP", !.data = (5 :> 1 @@ 6 :> 1), !.also = {"refuse"}]
Drained == [Base EXCEPT !.data = (5 :> 1 @@ 6 :> 1), !.also = {"drain"}]
Throws == [Base EXCEPT !.data = (5 :> 1 @@ 6 :> 1), !.also = {"throw"}]

Runs == {Pipes, Streams, Empty, Datagrams, Sockets, Shared, Ends, Refuses, Drained, Throws}
=============================================================================

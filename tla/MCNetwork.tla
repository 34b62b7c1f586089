------------------------------ MODULE MCNetwork ------------------------------
(***************************************************************************)
(* Small networks: what is sent, and what goes wrong.  Packets are lost in *)
(* all of them.                                                            *)
(***************************************************************************)
EXTENDS Network, TLC

CONSTANTS a, b, c, m1, m2

\* a sends b a reliable message of two fragments, and one of one.
Steady ==
  [nodes |-> {a, b}, messages |-> {m1, m2}, source |-> [m \in Messages |-> a],
   dest |-> [m \in Messages |-> b], count |-> (m1 :> 2 @@ m2 :> 1),
   reliable |-> [m \in Messages |-> TRUE], ids |-> 2, ring |-> 2, buffer |-> 2,
   resets |-> 0, events |-> {"announce"}]
\* Targets time out and come back.
Silent == [Steady EXCEPT !.messages = {m1}, !.events = {"announce", "silence"}]
\* The two nodes are configured again.
Again == [Steady EXCEPT !.messages = {m1}, !.buffer = 1, !.resets = 1]
\* Everyone is three nodes.
Three == [Steady EXCEPT !.messages = {m2}, !.dest[m2] = Everyone, !.nodes = {a, b, c}, !.events = {}]
\* A message of two fragments to everyone, and its retransmissions to b.
Both == [Steady EXCEPT !.messages = {m1}, !.dest[m1] = Everyone, !.buffer = 3, !.events = {}]
\* Several threads of b have packets in hand: of one fragment, and of two.
Threads == [Steady EXCEPT !.messages = {m2}, !.events = {"announce", "threads"}]
Fragmented == [Steady EXCEPT !.messages = {m1}, !.events = {"threads"}]
\* Packets reordered and repeated, and no room in recent_packets.
Chaos == [Steady EXCEPT !.messages = {m1}, !.events = {"reorder", "duplicate"}]
\* An unreliable message of two fragments beside it, so that assemblers time out.
Old == [Steady EXCEPT !.count[m2] = 2, !.reliable[m2] = FALSE, !.events = {"expire"}]
\* Two messages of one fragment, and room for one in recent_packets.
Full == [Steady EXCEPT !.count[m1] = 1, !.ring = 1, !.events = {}]
\* An unreliable message and a reliable one with the same packet id.
Wrap == [Steady EXCEPT !.count[m1] = 3, !.reliable[m1] = FALSE, !.count[m2] = 2, !.ids = 1, !.buffer = 3,
                       !.events = {}]
\* As many fragments as fill the bytes of an acknowledgement.
Bytes == [Steady EXCEPT !.messages = {m1}, !.count[m1] = 3, !.buffer = 3, !.events = {}]
\* Nothing but this message, which is settled in the end.
Single == [Bytes EXCEPT !.count[m1] = 2, !.buffer = 2, !.events = {"reorder"}]
All == {Single, Bytes, Steady, Silent, Again, Three, Both, Threads, Fragmented, Chaos, Old, Full, Wrap}
=============================================================================

------------------------------- MODULE Network -------------------------------
(***************************************************************************)
(* NUClearNetwork: nodes that find each other by multicast announcements,  *)
(* send messages cut into fragments over UDP, acknowledge and retransmit   *)
(* the fragments of reliable messages, and assemble what they receive.     *)
(*                                                                         *)
(* A pass of the timers and a call of send are one step, as under the      *)
(* mutexes they take.  A packet is handled in one step by a thread that    *)
(* nobody disturbs; where several threads are in process at once, one that *)
(* has read a packet and searched recent_packets may be overtaken before   *)
(* it goes on (Look).  Times are choices: an entry is due, a target silent *)
(* or an assembler old whenever it may be.  What is on its way to a node   *)
(* is bounded, and the rest dropped, as by the buffers of its two sockets. *)
(***************************************************************************)
EXTENDS Integers, Sequences, FiniteSets, SequencesExt

CONSTANTS Nodes, Messages,
          Unknown,      \* an address that is not a target
          Expired,      \* a weak_ptr whose target is gone
          Free,         \* no entry of send_queue
          MaxResets,    \* the times a node may be configured again
          ByteBits,     \* the bits of a byte of an acknowledgement: 8
          Scenarios     \* what is sent and what the network does to it, see below

\* A scenario gives the nodes there are, the messages that are sent, the source
\* of each, its destination (a node, or Everyone), its number of fragments and
\* whether it is reliable; the number of packet ids (2^16), the size of
\* recent_packets (255), the packets a socket buffer holds, the times a node may
\* be configured again, and what else happens: nodes announce themselves (they
\* know one another already if not), packets are reordered or duplicated,
\* assemblers and silent targets time out, and the three reactions that call
\* process run on several threads (without a thread that holds a target while it is
\* forgotten, which the model does not have).
Everyone == "everyone"
Events == {"announce", "reorder", "duplicate", "expire", "silence", "threads"}
ASSUME NetworkAssumption ==
  /\ MaxResets \in Nat /\ ByteBits \in Nat \ {0, 1}
  /\ \A s \in Scenarios :
       /\ s.nodes \subseteq Nodes /\ s.messages \subseteq Messages
       /\ s.source \in [Messages -> Nodes] /\ s.dest \in [Messages -> Nodes \cup {Everyone}]
       /\ s.count \in [Messages -> Nat \ {0}] /\ s.reliable \in [Messages -> BOOLEAN]
       /\ {s.ids, s.ring, s.buffer} \subseteq Nat \ {0}
       /\ s.resets \in 0 .. MaxResets /\ s.events \subseteq Events
       /\ "threads" \in s.events => {"duplicate", "silence"} \cap s.events = {} /\ s.resets = 0
\* Unknown stands for no target, and is none.
ASSUME UnknownAssumption ==
  \A s \in Scenarios :
    Unknown \notin [recent : [0 .. s.ring - 1 -> Int], index : Nat,
                    assemblers : [0 .. s.ids - 1 -> SUBSET (Nat \X Messages)]]

VARIABLES
  scenario,     \* chosen at the start, it never changes
  port,         \* the port of each node's data socket: a reset opens a new one
  target,       \* what each node keeps of each address it knows, or Unknown
  send_queue,   \* the reliable messages each node still sends, by packet id
  packet_id_source,
  net,          \* the packets on their way, by source and destination, and those
                \* a thread of the destination has in hand
  unsent,       \* the messages not sent yet
  got,          \* history: the fragments each node has received
  delivered,    \* history: how often each node's callback got each message
  once,         \* history: the same, since the source joined
  corrupt,      \* history: the nodes that delivered a mixture of messages
  id_of         \* history: the packet id of each message

vars == <<scenario, port, target, send_queue, packet_id_source, net, unsent,
          got, delivered, once, corrupt, id_of>>
history == <<got, delivered, once, corrupt>>   \* id_of is written by Send alone

Invalid == -1
Ids == 0 .. scenario.ids - 1
Ports == 0 .. MaxResets
Addresses == Nodes \X Ports
Address(n) == <<n, port[n]>>
Known(n) == {a \in Addresses : target[n][a] # Unknown}
Fragments(m) == 0 .. scenario.count[m] - 1

\* A new NetworkTarget.
NewTarget ==
  [recent |-> [i \in 0 .. scenario.ring - 1 |-> Invalid], index |-> 0,
   assemblers |-> [i \in Ids |-> {}]]

Init ==
  /\ scenario \in Scenarios
  /\ port = [n \in Nodes |-> 0]
  /\ target = [n \in Nodes |-> [a \in Addresses |->
       IF "announce" \notin scenario.events /\ {n, a[1]} \subseteq scenario.nodes /\ a[1] # n /\ a[2] = 0
       THEN NewTarget ELSE Unknown]]
  /\ send_queue = [n \in Nodes |-> [i \in Ids |-> Free]]
  /\ packet_id_source = [n \in Nodes |-> 0]
  /\ net = [n \in Nodes |-> [p \in Nodes |-> <<>>]]
  /\ unsent = scenario.messages
  /\ got = [n \in Nodes |-> {}]
  /\ delivered = [m \in Messages |-> [n \in Nodes |-> 0]]
  /\ once = delivered
  /\ corrupt = {}
  /\ id_of = [m \in Messages |-> Invalid]

-----------------------------------------------------------------------------
(* Sockets.  A send is what each node is sent: [Nodes -> Seq(packet)].     *)

\* sendto an address: an old port of a node that was reset reaches nobody.
SendTo(a, packets) ==
  [p \in Nodes |-> IF p = a[1] /\ port[p] = a[2] THEN packets ELSE <<>>]
\* sendto the announce address.  A node does not hear itself here.
Multicast(n, packets) == [p \in Nodes |-> IF p = n \/ p \notin scenario.nodes THEN <<>> ELSE packets]
Fit(s) == SubSeq(s, 1, IF Len(s) < scenario.buffer THEN Len(s) ELSE scenario.buffer)
Transmit(n, sent) ==
  net' = [net EXCEPT ![n] = [p \in Nodes |-> Fit(net[n][p] \o sent[p])]]

\* A packet is for one of the two sockets of a node, and held once it has been read.
Sockets == {"announce_fd", "data_fd"}
Announce(n, socket) == [type |-> "ANNOUNCE", from |-> Address(n), socket |-> socket, held |-> FALSE]
LeavePacket(n) == [type |-> "LEAVE", from |-> Address(n), socket |-> "announce_fd", held |-> FALSE]
\* Only what send multicasts goes to the announce socket.
DataSocket(type, m) ==
  IF type = "DATA" /\ scenario.dest[m] = Everyone THEN "announce_fd" ELSE "data_fd"
Data(n, type, m, id, i) ==
  [type |-> type, from |-> Address(n), socket |-> DataSocket(type, m), held |-> FALSE, id |-> id,
   no |-> i, msg |-> m, count |-> scenario.count[m], reliable |-> scenario.reliable[m]]
Ack(n, packet, bits) ==
  [type |-> "ACK", from |-> Address(n), socket |-> "data_fd", held |-> FALSE, id |-> packet.id,
   count |-> packet.count, bits |-> bits]
Nack(n, packet, bits) == [Ack(n, packet, bits) EXCEPT !.type = "NACK"]

\* Fragments <<id, number>> are sent in the order of their ids and numbers, as
\* packets of this type; messages has the message of each id.
Before(d, e) == d[1] < e[1] \/ (d[1] = e[1] /\ d[2] < e[2])
Nth(S, k) == CHOOSE d \in S : Cardinality({e \in S : Before(e, d)}) = k - 1
Cut(n, type, messages, S) ==
  [k \in 1 .. Cardinality(S) |-> LET d == Nth(S, k) IN Data(n, type, messages[d[1]], d[1], d[2])]

-----------------------------------------------------------------------------
(* send.                                                                   *)

\* The addresses of name_target that send puts in the queue.
Interested(n, m) ==
  IF scenario.dest[m] = Everyone THEN Known(n)
  ELSE {a \in Known(n) : a[1] = scenario.dest[m]}

\* The next id that is not in send_queue; a full queue would never return.
NextId(n) ==
  LET After(k) == (packet_id_source[n] + k) % scenario.ids
      k == CHOOSE k \in 1 .. scenario.ids :
             /\ send_queue[n][After(k)] = Free
             /\ \A j \in 1 .. k - 1 : send_queue[n][After(j)] # Free
  IN After(k)

Enqueue(n, m, id) ==
  IF scenario.reliable[m]
  THEN [send_queue EXCEPT ![n][id] = [msg |-> m, acked |-> [a \in Interested(n, m) |-> {}]]]
  ELSE send_queue

\* A queue with no target is left to retransmit, which erases it.
Send(m) ==
  LET n == scenario.source[m]
      id == NextId(n)
      packets == Cut(n, "DATA", [i \in {id} |-> m], {id} \X Fragments(m))
  IN
  /\ m \in unsent
  /\ \E i \in Ids : send_queue[n][i] = Free
  /\ unsent' = unsent \ {m}
  /\ packet_id_source' = [packet_id_source EXCEPT ![n] = id]
  /\ send_queue' = Enqueue(n, m, id)
  /\ IF scenario.dest[m] = Everyone
     THEN Transmit(n, Multicast(n, packets))
     ELSE Transmit(n, [p \in Nodes |->
            IF p = scenario.dest[m] /\ Address(p) \in Known(n) THEN packets ELSE <<>>])
  /\ id_of' = [id_of EXCEPT ![m] = id]
  /\ UNCHANGED <<scenario, port, target, history>>

-----------------------------------------------------------------------------
(* process: the timers.                                                    *)

\* Mutant: the queue keeps its targets alive.
ExpireNothing(queue, S) == queue
\* remove_target: its entries in send_queue are weak_ptrs, which expire.
Expire(queue, S) ==
  [i \in Ids |-> IF queue[i] = Free THEN Free
                 ELSE [queue[i] EXCEPT !.acked =
                         [a \in DOMAIN queue[i].acked |-> IF a \in S THEN Expired ELSE queue[i].acked[a]]]]
Forget(n, S) ==
  /\ target' = [target EXCEPT ![n] = [a \in Addresses |-> IF a \in S THEN Unknown ELSE target[n][a]]]
  /\ send_queue' = [send_queue EXCEPT ![n] = Expire(@, S)]
  /\ once' = [m \in Messages |->
                [once[m] EXCEPT ![n] = IF scenario.source[m] \in {a[1] : a \in S} THEN 0 ELSE @]]

\* More than 500 ms after the last announcement.
AnnounceSelf(n) ==
  /\ "announce" \in scenario.events
  /\ Transmit(n, Multicast(n, <<Announce(n, "announce_fd")>>))
  /\ UNCHANGED <<scenario, port, target, send_queue, packet_id_source, unsent, history, id_of>>

\* Nothing heard from some targets for more than 2 s.
TimeOut(n) ==
  /\ "silence" \in scenario.events
  /\ \E S \in SUBSET Known(n) \ {{}} : Forget(n, S)
  /\ UNCHANGED <<scenario, port, packet_id_source, net, unsent, got, delivered, corrupt, id_of>>

\* The entries of send_queue that are not settled.
Live(n, i) == {a \in DOMAIN send_queue[n][i].acked : send_queue[n][i].acked[a] # Expired}
Used(n) == {i \in Ids : send_queue[n][i] # Free}
Entries(n) == {e \in Used(n) \X Addresses : e[2] \in Live(n, e[1])}
\* Mutant: the fragments whose bits are set, not those whose bits are not.
MissingInverted(q, a) == q.acked[a]
Missing(q, a) == Fragments(q.msg) \ q.acked[a]
Queued(n) == [i \in Used(n) |-> send_queue[n][i].msg]
\* What p is sent again when these entries are due: more than a round trip since
\* they were last sent.  Those of an old port of p reach nobody.
Wanted(n, p, due) ==
  UNION {{d[1]} \X Missing(send_queue[n][d[1]], d[2]) : d \in {e \in due : e[2] = Address(p)}}
Retransmit(n, due) ==
  /\ Used(n) # {}
  /\ Transmit(n, [p \in Nodes |-> Cut(n, "DATA_RETRANSMISSION", Queued(n), Wanted(n, p, due))])
  /\ send_queue' = [send_queue EXCEPT ![n] =
       [i \in Ids |-> IF i \notin Used(n) \/ Live(n, i) = {} THEN Free
                      ELSE [send_queue[n][i] EXCEPT !.acked =
                              [a \in Live(n, i) |-> send_queue[n][i].acked[a]]]]]
  /\ UNCHANGED <<scenario, port, target, packet_id_source, unsent, history, id_of>>

\* NetworkConfiguration: shutdown says LEAVE, and everything starts again on
\* new sockets; packet_id_source goes on.
Reset(n) ==
  /\ port[n] < scenario.resets
  /\ port' = [port EXCEPT ![n] = @ + 1]
  /\ target' = [target EXCEPT ![n] = [a \in Addresses |-> Unknown]]
  /\ send_queue' = [send_queue EXCEPT ![n] = [i \in Ids |-> Free]]
  /\ net' = [q \in Nodes |-> [p \in Nodes |->
               IF p = n THEN <<>>
               ELSE IF q = n /\ Len(net[n][p]) < scenario.buffer THEN Append(net[n][p], LeavePacket(n))
               ELSE net[q][p]]]
  /\ once' = [m \in Messages |-> [once[m] EXCEPT ![n] = 0]]
  /\ UNCHANGED <<scenario, packet_id_source, unsent, got, delivered, corrupt, id_of>>

-----------------------------------------------------------------------------
(* process_packet, with the packet read from node q.                       *)

\* ANNOUNCE: a new target is told who we are, an old one has been heard from.
HearAnnounce(n, packet) ==
  /\ IF packet.from \in Known(n)
     THEN UNCHANGED target
     ELSE target' = [target EXCEPT ![n][packet.from] = NewTarget]
  /\ UNCHANGED <<send_queue, history>>

\* LEAVE: a known target is removed.
HearLeave(n, packet) ==
  /\ Forget(n, {packet.from} \cap Known(n))
  /\ UNCHANGED <<got, delivered, corrupt>>

\* packet_callback with the parts <<number, message>> of one payload.
Deliver(n, packet, parts) ==
  LET m == packet.msg
      whole == parts = {<<i, m>> : i \in Fragments(m)}
  IN /\ delivered' = [delivered EXCEPT ![m][n] = IF whole /\ @ < 2 THEN @ + 1 ELSE @]
     /\ once' = [once EXCEPT ![m][n] = IF whole /\ @ < 2 THEN @ + 1 ELSE @]
     /\ corrupt' = IF whole THEN corrupt ELSE corrupt \cup {n}

\* Mutant: recent_packets is never written.
RememberNothing(t, packet) == {t}
\* recent_packets[recent_packets_index++] = packet_id.  The index is one byte
\* and the array one entry short of its range: the write past the end falls on
\* the index itself.
Remember(t, packet) ==
  IF ~packet.reliable THEN {t}
  ELSE IF t.index < scenario.ring
  THEN {[t EXCEPT !.recent[t.index] = packet.id, !.index = @ + 1]}
  ELSE {[t EXCEPT !.index = i] : i \in 0 .. scenario.ring}

\* The search finds the id.  A thread that holds the packet has searched before.
Repeated(t, packet) ==
  /\ packet.type = "DATA_RETRANSMISSION" /\ packet.reliable /\ ~packet.held
  /\ \E i \in DOMAIN t.recent : t.recent[i] = packet.id

\* The ack of a message we already had, when its first one may have been lost.
HearAgain(n, packet) ==
  /\ Repeated(target[n][packet.from], packet)
  /\ UNCHANGED <<target, send_queue, history>>

\* A message of one fragment.
HearWhole(n, packet) ==
  LET t == target[n][packet.from] IN
  /\ ~Repeated(t, packet) /\ packet.count = 1
  /\ \E u \in Remember(t, packet) : target' = [target EXCEPT ![n][packet.from] = u]
  /\ got' = [got EXCEPT ![n] = @ \cup {<<0, packet.msg>>}]
  /\ Deliver(n, packet, {<<0, packet.msg>>})
  /\ UNCHANGED send_queue

\* What the assembler of this id holds already, and whether that is of a longer
\* message than this one, so that it is cleared and refused.
Held(t, packet) == t.assemblers[packet.id]
Confused(t, packet) == \E p \in Held(t, packet) : p[1] >= packet.count
Assembled(t, packet) ==
  {p \in Held(t, packet) : ~Confused(t, packet) /\ p[1] # packet.no} \cup {<<packet.no, packet.msg>>}
Numbers(parts) == {p[1] : p \in parts}

\* Mutant: the last fragment makes the message, whatever came before it.
CompleteAtLast(parts, packet) == packet.no + 1 = packet.count
Complete(parts, packet) == Cardinality(parts) = packet.count

\* A fragment: it is kept, and the last one makes the message.  Other
\* assemblers of this target may be older than ten round trips.
HearFragment(n, packet) ==
  LET t == target[n][packet.from]
      parts == Assembled(t, packet)
      complete == Complete(parts, packet)
  IN
  /\ ~Repeated(t, packet) /\ packet.count > 1
  /\ \E u \in IF complete THEN Remember(t, packet) ELSE {t},
        old \in IF "expire" \in scenario.events THEN SUBSET (Ids \ {packet.id}) ELSE {{}} :
       target' = [target EXCEPT ![n][packet.from] =
         [u EXCEPT !.assemblers = [i \in Ids |->
            IF i \in old THEN {} ELSE IF i # packet.id THEN t.assemblers[i]
            ELSE IF complete THEN {} ELSE parts]]]
  /\ got' = [got EXCEPT ![n] = @ \cup {<<packet.no, packet.msg>>}]
  /\ IF complete THEN Deliver(n, packet, parts) ELSE UNCHANGED <<delivered, once, corrupt>>
  /\ UNCHANGED send_queue

\* Mutant: the bits are one off.
AnswerOneOff(n, packet) ==
  IF packet.reliable THEN <<Ack(n, packet, {packet.no + 1})>> ELSE <<>>
\* The packets that answer a packet of data.
Answer(n, packet) ==
  LET t == target[n][packet.from]
      full == Ack(n, packet, 0 .. packet.count - 1)
      ack == Ack(n, packet, Numbers(Assembled(t, packet)))
      nack == Nack(n, packet, Numbers(Held(t, packet)) \ {packet.no})
  IN IF ~packet.reliable THEN <<>>
     ELSE IF Repeated(t, packet) \/ packet.count = 1 THEN <<full>>
     ELSE IF Confused(t, packet) THEN <<nack, ack>> ELSE <<ack>>

\* The bits an acknowledgement has room for, and those that mean it is full:
\* the last byte counts in full when the fragments fill every byte but it.
Bits(count) == 0 .. (count \div ByteBits + 1) * ByteBits - 1
Expected(count) == IF count % ByteBits = 0 THEN Bits(count) ELSE 0 .. count - 1

\* An entry that is free is not a message, and one that is expired has no bits.
ASSUME EntriesAssumption ==
  /\ \A s \in Scenarios, m \in Messages : \A bits \in SUBSET Bits(s.count[m]) : bits # Expired
  /\ Free \notin [msg : Messages,
                 acked : UNION {[S -> (SUBSET Nat) \cup {Expired}] : S \in SUBSET (Nodes \X Ports)}]

\* The entry of send_queue that an ACK or a NACK is about.
Relevant(n, packet) ==
  LET q == send_queue[n][packet.id] IN
  /\ packet.from \in Known(n)
  /\ q # Free
  /\ packet.from \in DOMAIN q.acked /\ q.acked[packet.from] # Expired
  /\ packet.count = scenario.count[q.msg]

\* ACK: the bits are added; a full entry goes, and with the last one the message.
HearAck(n, packet) ==
  LET q == send_queue[n][packet.id]
      acked == q.acked[packet.from] \cup packet.bits
      rest == DOMAIN q.acked \ {packet.from}
  IN
  /\ Relevant(n, packet)
  /\ send_queue' = [send_queue EXCEPT ![n][packet.id] =
       IF ~(Expected(packet.count) \subseteq acked)
       THEN [q EXCEPT !.acked[packet.from] = acked]
       ELSE IF rest = {} THEN Free
       ELSE [q EXCEPT !.acked = [a \in rest |-> q.acked[a]]]]
  /\ UNCHANGED <<target, history>>

\* NACK: the bits are taken away and some fragments sent at once.  The loop
\* reads the i-th byte for the i-th fragment, and zeros past the end.
HearNack(n, packet) ==
  /\ Relevant(n, packet)
  /\ send_queue' = [send_queue EXCEPT ![n][packet.id].acked[packet.from] = @ \ packet.bits]
  /\ UNCHANGED <<target, history>>
Resent(packet) ==
  {i \in 0 .. packet.count \div ByteBits : (i * ByteBits) + (i % ByteBits) \in packet.bits}

IsData(packet) == packet.type \in {"DATA", "DATA_RETRANSMISSION"}
Irrelevant(n, packet) ==
  \/ IsData(packet) /\ packet.from \notin Known(n)
  \/ packet.type \in {"ACK", "NACK"} /\ ~Relevant(n, packet)

Handle(n, packet) ==
  \/ packet.type = "ANNOUNCE" /\ HearAnnounce(n, packet)
  \/ packet.type = "LEAVE" /\ HearLeave(n, packet)
  \/ /\ IsData(packet) /\ packet.from \in Known(n)
     /\ HearAgain(n, packet) \/ HearWhole(n, packet) \/ HearFragment(n, packet)
  \/ packet.type = "ACK" /\ HearAck(n, packet)
  \/ packet.type = "NACK" /\ HearNack(n, packet)
  \/ Irrelevant(n, packet) /\ UNCHANGED <<target, send_queue, history>>

\* What the handler sends back to the address it heard from.
Reply(n, packet) ==
  IF packet.type = "ANNOUNCE" /\ packet.from \notin Known(n) THEN <<Announce(n, "data_fd")>>
  ELSE IF IsData(packet) /\ packet.from \in Known(n) THEN Answer(n, packet)
  ELSE IF packet.type = "NACK" /\ Relevant(n, packet)
  THEN Cut(n, "DATA_RETRANSMISSION", Queued(n), {packet.id} \X Resent(packet))
  ELSE <<>>

\* The packets a thread may handle: the first of each socket that no thread has
\* read, and those threads have in hand.
Readable(s) ==
  {k \in 1 .. Len(s) : \/ "reorder" \in scenario.events \/ s[k].held
                       \/ \A j \in 1 .. k - 1 : s[j].held \/ s[j].socket # s[k].socket}

\* A thread has read a packet, found its target and, without a mutex, not found its id
\* in recent_packets; before it goes on, others handle packets.
Look(n, q) ==
  /\ "threads" \in scenario.events
  /\ \E k \in Readable(net[q][n]) :
       LET packet == net[q][n][k] IN
       /\ ~packet.held
       /\ IsData(packet) => packet.from \in Known(n) /\ ~Repeated(target[n][packet.from], packet)
       /\ net' = [net EXCEPT ![q][n][k].held = TRUE]
  /\ UNCHANGED <<scenario, port, target, send_queue, packet_id_source, unsent, history, id_of>>

\* process: one packet is read and handled, or, when a thread holds it, the thread
\* goes on; again, when the network repeats it.
ReceiveOne(n, q, again) ==
  /\ \E k \in Readable(net[q][n]) :
       LET packet == net[q][n][k]
           left == IF again THEN net[q] ELSE [net[q] EXCEPT ![n] = RemoveAt(@, k)]
           sent == SendTo(packet.from, Reply(n, packet))
       IN /\ Handle(n, packet)
          /\ net' = [net EXCEPT ![q] = left, ![n] = [p \in Nodes |-> Fit(net[n][p] \o sent[p])]]
  /\ UNCHANGED <<scenario, port, packet_id_source, unsent, id_of>>
Receive(n, q) ==
  \E again \in IF "duplicate" \in scenario.events THEN BOOLEAN ELSE {FALSE} : ReceiveOne(n, q, again)

\* The network loses a packet.
Lose(n, q) ==
  /\ net[q][n] # <<>> /\ ~Head(net[q][n]).held
  /\ net' = [net EXCEPT ![q][n] = Tail(@)]
  /\ UNCHANGED <<scenario, port, target, send_queue, packet_id_source, unsent, history, id_of>>

-----------------------------------------------------------------------------
\* Everything sent has been dealt with, and nobody announces anything.
Rest ==
  /\ "announce" \notin scenario.events /\ unsent = {}
  /\ \A n, p \in Nodes : net[n][p] = <<>>
  /\ \A n \in Nodes, i \in Ids : send_queue[n][i] = Free
  /\ UNCHANGED vars

Next ==
  \/ \E m \in Messages : Send(m)
  \/ \E n \in scenario.nodes : \/ AnnounceSelf(n) \/ TimeOut(n) \/ Reset(n)
                               \/ \E due \in SUBSET Entries(n) : Retransmit(n, due)
  \/ \E n, q \in scenario.nodes : Look(n, q) \/ Receive(n, q) \/ Lose(n, q)
  \/ Rest

\* One reliable message is on its way alone, and acknowledgements have room for all
\* of its bits.
Alone ==
  /\ scenario.events \subseteq {"reorder", "threads"} /\ Cardinality(scenario.messages) = 1
  /\ \A m \in scenario.messages : scenario.count[m] % ByteBits # 0
\* What a node still owes another is due again and again, and the network, whatever it
\* loses, does not lose everything that is sent to a node for ever.  Asked for where
\* something is promised for it.
Fairness ==
  \A n \in Nodes :
    /\ \A q \in Nodes \ {n} :
         WF_vars(/\ Alone
                 /\ \E due \in SUBSET Entries(n) :
                      {d \in Entries(n) : d[2][1] = q} \subseteq due /\ Retransmit(n, due))
    /\ SF_vars(Alone /\ \E q \in Nodes : ReceiveOne(n, q, FALSE))
Spec == Init /\ [][Next]_vars /\ Fairness
-----------------------------------------------------------------------------
Packets ==
  [type : {"ANNOUNCE", "LEAVE"}, from : Addresses, socket : Sockets, held : BOOLEAN]
  \cup [type : {"DATA", "DATA_RETRANSMISSION"}, from : Addresses, socket : Sockets, held : BOOLEAN,
        id : Ids, no : Nat, msg : Messages, count : Nat, reliable : BOOLEAN]
  \cup [type : {"ACK", "NACK"}, from : Addresses, socket : Sockets, held : BOOLEAN,
        id : Ids, count : Nat, bits : SUBSET Nat]
TypeOK ==
  /\ port \in [Nodes -> Ports]
  /\ \A n \in Nodes : \A a \in Known(n) :
       /\ target[n][a].recent \in [0 .. scenario.ring - 1 -> Ids \cup {Invalid}]
       /\ target[n][a].index \in 0 .. scenario.ring
       /\ \A i \in Ids : Cardinality(Numbers(target[n][a].assemblers[i]))
                         = Cardinality(target[n][a].assemblers[i])
  /\ \A n \in Nodes, i \in Ids :
       LET q == send_queue[n][i] IN
       q # Free => /\ scenario.source[q.msg] = n /\ scenario.reliable[q.msg]
                   /\ \A a \in DOMAIN q.acked : q.acked[a] # Expired =>
                        a \in Known(n) /\ q.acked[a] \subseteq Bits(scenario.count[q.msg])
  /\ packet_id_source \in [Nodes -> Ids]
  /\ \A n, p \in Nodes : \A k \in 1 .. Len(net[n][p]) : net[n][p][k] \in Packets
  /\ unsent \subseteq Messages /\ corrupt \subseteq Nodes
  /\ delivered \in [Messages -> [Nodes -> 0 .. 2]] /\ once \in [Messages -> [Nodes -> 0 .. 2]]

\* The 16 bits of a packet id have not come round.
Fresh == \A m, o \in Messages :
  m # o /\ scenario.source[m] = scenario.source[o] /\ id_of[m] # Invalid => id_of[m] # id_of[o]

\* A bit a sender has for a fragment means that the target received it, however
\* the packets and the acknowledgements were lost, repeated or reordered.
AckedWasReceived ==
  Fresh => \A n \in Nodes, i \in Ids :
    LET q == send_queue[n][i] IN
    q # Free => \A a \in DOMAIN q.acked :
      q.acked[a] # Expired => \A f \in q.acked[a] \cap Fragments(q.msg) : <<f, q.msg>> \in got[a[1]]

\* What is delivered is one message and all of it.
DeliveredWhole == Fresh => corrupt = {}

\* What a node tells is true: to the sender, that a fragment has come (the bits of an
\* ACK), and to the callback, that a message is whole (process_packet).
Truthful == TypeOK /\ AckedWasReceived /\ DeliveredWhole

\* The network as a delivery of messages, at most once while the source stays
\* known and at least once before it is settled, however packets are lost; and where
\* nothing but this message is on its way it is settled in the end, unless its
\* fragments fill the bytes of an acknowledgement: Expected then asks for the bits
\* of one byte more, which stand for no fragment and never come, and the entry
\* stays, though retransmit has nothing to send for it.
\* A message may come twice when packets overtake one another or come twice, for a
\* fragment that arrives after its own retransmission starts again.  So may a reliable
\* message to everyone, whose fragments and their retransmissions come to different
\* sockets (no message is to everyone then, for an id may be given again).  So may any
\* reliable message where process runs on several threads, when two copies of a
\* retransmission are both looked for before either is remembered, and when
\* recent_packets has wrapped.  A message may be settled and never delivered when
\* fragments that were acknowledged go with their assembler, or with the target that
\* timed out on the receiving side only.
Exact ==
  /\ {"reorder", "duplicate", "threads"} \cap scenario.events = {}
  /\ \A m \in scenario.messages : scenario.dest[m] # Everyone
  /\ IsFiniteSet(scenario.messages) /\ scenario.ring >= Cardinality(scenario.messages)
Kept ==
  /\ {"expire", "silence"} \cap scenario.events = {}
  /\ IsFiniteSet(scenario.messages) /\ scenario.ids >= Cardinality(scenario.messages)
Plan ==
  [source |-> scenario.source, dest |-> scenario.dest, reliable |-> scenario.reliable,
   everyone |-> Everyone, exact |-> Exact, live |-> Alone, kept |-> Kept]
Owes(q, m, a) == q # Free /\ q.msg = m /\ a \in DOMAIN q.acked /\ q.acked[a] # Expired
Owed == {o \in Messages \X Addresses :
           \E n \in Nodes, i \in Ids : Owes(send_queue[n][i], o[1], o[2])}
D == INSTANCE Delivery WITH
  plan <- Plan, known <- [n \in Nodes |-> Known(n)], sent <- scenario.messages \ unsent, owed <- Owed
ImplementsDelivery == D!Spec
=============================================================================

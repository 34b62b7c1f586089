---------------------------- MODULE NetworkProofs ----------------------------
(***************************************************************************)
(* Proofs about Network, for any nodes and messages, fragments and sizes   *)
(* of the tables, and whatever the network does to the packets.            *)
(***************************************************************************)
EXTENDS Network, FiniteSetTheorems, WellFoundedInduction, TLAPS

-----------------------------------------------------------------------------
(* The inductive invariant.  Its parts are about the fragments received so *)
(* far, g, and the packet ids given so far, ids, so that they can be said  *)
(* of the state before a step and of the one after it alike.               *)

Parts == Nat \X Messages
Assemblies == {S \in SUBSET Parts : IsFiniteSet(S)}
IsFresh(ids) == \A m, o \in Messages :
  m # o /\ scenario.source[m] = scenario.source[o] /\ ids[m] # Invalid => ids[m] # ids[o]
SentAs(m, n, i, ids) == scenario.source[m] = n /\ ids[m] = i
Whole(n, m, g) == \A f \in Fragments(m) : <<f, m>> \in g[n]

\* What an assembler for packet id i from node q holds came from the message that
\* q sent under that id.
PartOK(n, q, i, p, g, ids) ==
  p[1] \in Fragments(p[2]) /\ SentAs(p[2], q, i, ids) /\ p \in g[n]

\* A number is assembled once; an id is recent when its message has come.
TargetOK(n, a, t, g, ids) ==
  /\ t \in [recent : [0 .. scenario.ring - 1 -> Ids \cup {Invalid}], index : 0 .. scenario.ring,
            assemblers : [Ids -> Assemblies]]
  /\ \A i \in Ids : \A p \in t.assemblers[i] : PartOK(n, a[1], i, p, g, ids)
  /\ \A i \in Ids : \A p, r \in t.assemblers[i] : p[1] = r[1] => p = r
  /\ \A k \in 0 .. scenario.ring - 1 : t.recent[k] # Invalid =>
       \E m \in Messages : SentAs(m, a[1], t.recent[k], ids) /\ (IsFresh(ids) => Whole(n, m, g))

\* What has been acknowledged is known, was received, and is not everything.
EntryOK(a, m, acked, K, g, ids) ==
  /\ a \in K /\ acked \subseteq Bits(scenario.count[m])
  /\ IsFresh(ids) => \A f \in acked \cap Fragments(m) : <<f, m>> \in g[a[1]]
  /\ scenario.count[m] % ByteBits # 0 => ~(Fragments(m) \subseteq acked)
QueueOK(n, i, q, K, g, ids) ==
  q # Free =>
    /\ q \in [msg : Messages, acked : {q.acked}]
    /\ q.acked = [a \in DOMAIN q.acked |-> q.acked[a]] /\ DOMAIN q.acked \subseteq Addresses
    /\ SentAs(q.msg, n, i, ids) /\ scenario.reliable[q.msg]
    /\ \A a \in DOMAIN q.acked : q.acked[a] # Expired => EntryOK(a, q.msg, q.acked[a], K, g, ids)

\* A packet of data says of its fragment what the sender knows of it; one that
\* acknowledges is about a message of the node it goes to.
DataOK(packet, ids) ==
  /\ SentAs(packet.msg, packet.from[1], packet.id, ids) /\ packet.no \in Fragments(packet.msg)
  /\ packet.count = scenario.count[packet.msg] /\ packet.reliable = scenario.reliable[packet.msg]
AckOK(p, packet, g, ids) ==
  /\ packet.type = "ACK" => packet.bits \subseteq 0 .. packet.count - 1
  /\ \E m \in Messages :
       /\ SentAs(m, p, packet.id, ids) /\ packet.count = scenario.count[m]
       /\ packet.type = "ACK" /\ IsFresh(ids) => \A f \in packet.bits : <<f, m>> \in g[packet.from[1]]
PacketOK(p, packet, g, ids) ==
  /\ packet \in Packets
  /\ IsData(packet) => DataOK(packet, ids)
  /\ packet.type \in {"ACK", "NACK"} => AckOK(p, packet, g, ids)
StreamOK(p, s, g, ids) == s \in Seq(Packets) /\ \A k \in 1 .. Len(s) : PacketOK(p, s[k], g, ids)

Knows(tt, n) == {a \in Addresses : tt[n][a] # Unknown}
\* What the nodes keep of one another and of the messages they send.
Tables(tt, qq, g, ids) ==
  /\ tt = [n \in Nodes |-> [a \in Addresses |-> tt[n][a]]]
  /\ qq = [n \in Nodes |-> [i \in Ids |-> qq[n][i]]]
  /\ g \in [Nodes -> SUBSET Parts]
  /\ \A n \in Nodes : \A a \in Knows(tt, n) : TargetOK(n, a, tt[n][a], g, ids)
  /\ \A n \in Nodes, i \in Ids : QueueOK(n, i, qq[n][i], Knows(tt, n), g, ids)
Types ==
  /\ scenario \in Scenarios /\ port \in [Nodes -> Ports] /\ packet_id_source \in [Nodes -> Ids]
  /\ unsent \subseteq Messages
  /\ id_of \in [Messages -> Ids \cup {Invalid}] /\ \A m \in unsent : id_of[m] = Invalid
Deliveries(d, o, c, ids) ==
  /\ d \in [Messages -> [Nodes -> 0 .. 2]] /\ o \in [Messages -> [Nodes -> 0 .. 2]]
  /\ c \subseteq Nodes /\ (IsFresh(ids) => c = {})
Packeted(w, g, ids) ==
  /\ w \in [Nodes -> [Nodes -> Seq(Packets)]]
  /\ \A q, p \in Nodes : StreamOK(p, w[q][p], g, ids)

Inv ==
  /\ Types /\ Tables(target, send_queue, got, id_of)
  /\ Deliveries(delivered, once, corrupt, id_of) /\ Packeted(net, got, id_of)

-----------------------------------------------------------------------------
(* Scenarios and numbers.                                                  *)

\* What NetworkAssumption says of the scenario of a run.
LEMMA Scenery ==
  ASSUME scenario \in Scenarios
  PROVE  /\ scenario.nodes \subseteq Nodes /\ scenario.messages \subseteq Messages
         /\ scenario.source \in [Messages -> Nodes] /\ scenario.reliable \in [Messages -> BOOLEAN]
         /\ scenario.count \in [Messages -> Nat \ {0}]
         /\ scenario.ids \in Nat \ {0} /\ scenario.ring \in Nat \ {0} /\ scenario.buffer \in Nat \ {0}
         /\ scenario.resets \in 0 .. MaxResets /\ Ids \subseteq Nat /\ Invalid \notin Ids
<1>1. {scenario.ids, scenario.ring, scenario.buffer} \subseteq Nat \ {0}
  BY NetworkAssumption
<1>2. /\ scenario.nodes \subseteq Nodes /\ scenario.messages \subseteq Messages
      /\ scenario.source \in [Messages -> Nodes] /\ scenario.reliable \in [Messages -> BOOLEAN]
      /\ scenario.count \in [Messages -> Nat \ {0}] /\ scenario.resets \in 0 .. MaxResets
  BY NetworkAssumption
<1> QED BY <1>1, <1>2 DEF Ids, Invalid

\* A set of numbers has a least one.
LEMMA LeastIn ==
  ASSUME NEW S, S \subseteq Nat, S # {}
  PROVE  \E x \in S : \A y \in S : x <= y
<1> DEFINE R == {ss \in Nat \X Nat : ss[1] < ss[2]}
<1>1. IsWellFoundedOn(R, Nat)
  BY NatLessThanWellFounded DEF OpToRel
<1>2. \E x \in S : \A y \in S : <<y, x>> \notin R
  <2> HIDE DEF R
  <2> QED BY <1>1, WFMin
<1>3. \A x, y \in Nat : y < x => <<y, x>> \in R
  OBVIOUS
<1>4. PICK x \in S : \A y \in S : ~(y < x)
  <2> HIDE DEF R
  <2> QED BY <1>2, <1>3
<1> QED BY <1>4

\* The fragments to be sent have an order, so that there is a first, a second and
\* so on: no two of them have the same number of others before them.
LEMMA NthIn ==
  ASSUME NEW S, IsFiniteSet(S), S \subseteq Nat \X Nat, NEW k \in 1 .. Cardinality(S)
  PROVE  Nth(S, k) \in S /\ Cardinality({e \in S : Before(e, Nth(S, k))}) = k - 1
<1> DEFINE below(d) == {e \in S : Before(e, d)}
           rank == [d \in S |-> Cardinality(below(d))]
<1>1. Cardinality(S) \in Nat
  BY FS_CardinalityType
<1>2. \A d \in S : IsFiniteSet(below(d)) /\ Cardinality(below(d)) \in Nat
  BY FS_Subset, FS_CardinalityType
<1>3. ASSUME NEW d \in S PROVE Cardinality(below(d)) < Cardinality(S)
  <2>1. d \notin below(d)
    <3>1. d[1] \in Nat /\ d[2] \in Nat
      OBVIOUS
    <3> QED BY <3>1 DEF Before
  <2>2. below(d) # S
    BY <2>1
  <2>3. Cardinality(below(d)) <= Cardinality(S) /\ (Cardinality(S) = Cardinality(below(d)) => S = below(d))
    BY FS_Subset
  <2> QED BY <2>2, <2>3, <1>1, <1>2
<1>4. ASSUME NEW d \in S, NEW e \in S, Before(d, e) PROVE Cardinality(below(d)) < Cardinality(below(e))
  <2>1. d \notin below(d) /\ d \in below(e)
    <3>1. d[1] \in Nat /\ d[2] \in Nat
      OBVIOUS
    <3> QED BY <3>1, <1>4 DEF Before
  <2>2. below(d) \subseteq below(e)
    <3>1. \A f \in S : f[1] \in Nat /\ f[2] \in Nat
      OBVIOUS
    <3>2. ASSUME NEW f \in below(d) PROVE f \in below(e)
      BY <3>1, <1>4 DEF Before
    <3> QED BY <3>2
  <2>3. Cardinality(below(d)) <= Cardinality(below(e))
        /\ (Cardinality(below(e)) = Cardinality(below(d)) => below(e) = below(d))
    BY <2>2, <1>2, FS_Subset
  <2> QED BY <2>1, <2>3, <1>2
<1>5. \A d, e \in S : rank[d] = rank[e] => d = e
  <2> SUFFICES ASSUME NEW d \in S, NEW e \in S, d # e PROVE rank[d] # rank[e]
    OBVIOUS
  <2>1. Before(d, e) \/ Before(e, d)
    <3>1. d[1] \in Nat /\ d[2] \in Nat /\ e[1] \in Nat /\ e[2] \in Nat
      OBVIOUS
    <3>2. d[1] # e[1] \/ d[2] # e[2]
      OBVIOUS
    <3> QED BY <3>1, <3>2 DEF Before
  <2> QED BY <2>1, <1>2, <1>4
<1>6. rank \in [S -> 0 .. Cardinality(S) - 1]
  <2>1. ASSUME NEW d \in S PROVE Cardinality(below(d)) \in 0 .. Cardinality(S) - 1
    <3> HIDE DEF below
    <3> QED BY <1>1, <1>2, <1>3
  <2> HIDE DEF below
  <2> QED BY <2>1
<1>7. rank \in Injection(S, 0 .. Cardinality(S) - 1)
  <2> HIDE DEF rank
  <2> QED BY <1>5, <1>6 DEF Injection, IsInjective
<1>8. IsFiniteSet(0 .. Cardinality(S) - 1) /\ Cardinality(0 .. Cardinality(S) - 1) = Cardinality(S)
  <2>1. 0 \in Int /\ Cardinality(S) - 1 \in Int
    BY <1>1
  <2>2. /\ IsFiniteSet(0 .. Cardinality(S) - 1)
        /\ Cardinality(0 .. Cardinality(S) - 1) =
             IF 0 > Cardinality(S) - 1 THEN 0 ELSE Cardinality(S) - 1 - 0 + 1
    BY <2>1, FS_Interval
  <2> QED BY <1>1, <2>2
<1>9. rank \in Surjection(S, 0 .. Cardinality(S) - 1)
  <2> HIDE DEF rank
  <2> QED BY <1>7, <1>8, FS_Injection
<1>10. k - 1 \in 0 .. Cardinality(S) - 1
  BY <1>1
<1>11. PICK d \in S : rank[d] = k - 1
  <2> HIDE DEF rank
  <2> QED BY <1>9, <1>10 DEF Surjection
<1>12. Cardinality({e \in S : Before(e, d)}) = k - 1
  BY <1>11
<1>13. \E e \in S : Cardinality({f \in S : Before(f, e)}) = k - 1
  BY <1>12
<1> QED BY <1>13 DEF Nth

-----------------------------------------------------------------------------
(* Packets on their way.                                                   *)

\* The packets that fragments are cut into: each is of one of the fragments.
LEMMA CutOK ==
  ASSUME NEW n, NEW type, NEW messages, NEW S, IsFiniteSet(S), S \subseteq Nat \X Nat
  PROVE  LET s == Cut(n, type, messages, S) IN
         /\ s = [k \in 1 .. Len(s) |-> s[k]] /\ Len(s) \in Nat
         /\ \A k \in 1 .. Len(s) : \E d \in S : s[k] = Data(n, type, messages[d[1]], d[1], d[2])
<1> DEFINE s == Cut(n, type, messages, S)
<1>1. Cardinality(S) \in Nat
  BY FS_CardinalityType
<1>2. s = [k \in 1 .. Cardinality(S) |-> Data(n, type, messages[Nth(S, k)[1]], Nth(S, k)[1], Nth(S, k)[2])]
  BY DEF Cut
<1>3. Len(s) = Cardinality(S)
  BY <1>1, <1>2
<1>4. ASSUME NEW k \in 1 .. Len(s)
      PROVE  \E d \in S : s[k] = Data(n, type, messages[d[1]], d[1], d[2])
  <2>1. Nth(S, k) \in S
    BY <1>3, NthIn
  <2> QED BY <1>2, <1>3, <2>1
<1> HIDE DEF s
<1>5. s = [k \in 1 .. Len(s) |-> s[k]]
  BY <1>2, <1>3
<1>6. QED BY <1>1, <1>3, <1>4, <1>5 DEF s

LEMMA Concatenation ==
  ASSUME NEW S, NEW x \in Seq(S), NEW y \in Seq(S)
  PROVE  /\ x \o y \in Seq(S) /\ Len(x \o y) = Len(x) + Len(y)
         /\ \A i \in 1 .. Len(x) + Len(y) : \/ \E j \in 1 .. Len(x) : (x \o y)[i] = x[j]
                                            \/ \E j \in 1 .. Len(y) : (x \o y)[i] = y[j]
<1>1. Len(x) \in Nat /\ Len(y) \in Nat /\ x \o y \in Seq(S) /\ Len(x \o y) = Len(x) + Len(y)
  OBVIOUS
<1>2. ASSUME NEW i \in 1 .. Len(x) + Len(y), i <= Len(x)
      PROVE  \E j \in 1 .. Len(x) : (x \o y)[i] = x[j]
  <2>1. (x \o y)[i] = x[i] /\ i \in 1 .. Len(x)
    BY <1>1, <1>2
  <2> QED BY <2>1
<1>3. ASSUME NEW i \in 1 .. Len(x) + Len(y), ~(i <= Len(x))
      PROVE  \E j \in 1 .. Len(y) : (x \o y)[i] = y[j]
  <2>1. (x \o y)[i] = y[i - Len(x)] /\ i - Len(x) \in 1 .. Len(y)
    BY <1>1, <1>3
  <2> QED BY <2>1
<1>4. \A i \in 1 .. Len(x) + Len(y) : \/ \E j \in 1 .. Len(x) : (x \o y)[i] = x[j]
                                      \/ \E j \in 1 .. Len(y) : (x \o y)[i] = y[j]
  BY <1>2, <1>3, Zenon
<1> QED BY <1>1, <1>4, Zenon

\* A stream of sound packets stays one when sound packets are added to it, the
\* socket buffer drops what does not fit, and packets are read or lost.
LEMMA Streams ==
  ASSUME scenario \in Scenarios, NEW p, NEW g, NEW ids,
         NEW s, StreamOK(p, s, g, ids)
  PROVE  /\ StreamOK(p, <<>>, g, ids)
         /\ \A t : StreamOK(p, t, g, ids) => StreamOK(p, Fit(s \o t), g, ids)
         /\ s # <<>> => StreamOK(p, Tail(s), g, ids)
         /\ \A k \in 1 .. Len(s) : StreamOK(p, RemoveAt(s, k), g, ids)
         /\ \A x : PacketOK(p, x, g, ids) => StreamOK(p, Append(s, x), g, ids)
<1>1. s \in Seq(Packets) /\ \A k \in 1 .. Len(s) : PacketOK(p, s[k], g, ids)
  BY DEF StreamOK
<1>2. StreamOK(p, <<>>, g, ids)
  BY DEF StreamOK
<1>3. ASSUME NEW t, StreamOK(p, t, g, ids) PROVE StreamOK(p, Fit(s \o t), g, ids)
  <2>1. t \in Seq(Packets) /\ \A k \in 1 .. Len(t) : PacketOK(p, t[k], g, ids)
    BY <1>3 DEF StreamOK
  <2> DEFINE u == s \o t
  <2>2. /\ u \in Seq(Packets) /\ Len(u) = Len(s) + Len(t)
        /\ \A i \in 1 .. Len(s) + Len(t) : \/ \E j \in 1 .. Len(s) : u[i] = s[j]
                                           \/ \E j \in 1 .. Len(t) : u[i] = t[j]
    <3>1. s \in Seq(Packets) /\ t \in Seq(Packets)
      BY <1>1, <2>1
    <3> QED BY ONLY <3>1, Concatenation
  <2>3. \A k \in 1 .. Len(u) : PacketOK(p, u[k], g, ids)
    BY <1>1, <2>1, <2>2
  <2> HIDE DEF u
  <2> DEFINE n == IF Len(u) < scenario.buffer THEN Len(u) ELSE scenario.buffer
  <2>4. n \in 0 .. Len(u)
    <3>1. scenario.buffer \in Nat \ {0} /\ Len(u) \in Nat
      BY <2>2, Scenery
    <3> QED BY <3>1
  <2>5. Fit(u) = SubSeq(u, 1, n)
    BY DEF Fit
  <2> HIDE DEF n
  <2>6. SubSeq(u, 1, n) \in Seq(Packets) /\ Len(SubSeq(u, 1, n)) = n
        /\ \A k \in 1 .. n : SubSeq(u, 1, n)[k] = u[k]
    BY <2>2, <2>4
  <2>7. \A k \in 1 .. n : k \in 1 .. Len(u)
    BY <2>2, <2>4
  <2>8. StreamOK(p, Fit(u), g, ids)
    BY <2>3, <2>5, <2>6, <2>7 DEF StreamOK
  <2> QED BY <2>8 DEF u
<1>4. ASSUME s # <<>> PROVE StreamOK(p, Tail(s), g, ids)
  <2>1. Tail(s) \in Seq(Packets) /\ Len(Tail(s)) = Len(s) - 1 /\ \A k \in 1 .. Len(s) - 1 : Tail(s)[k] = s[k + 1]
    BY <1>1, <1>4
  <2>2. \A k \in 1 .. Len(s) - 1 : k + 1 \in 1 .. Len(s)
    BY <1>1
  <2> QED BY <1>1, <2>1, <2>2 DEF StreamOK
<1>5. ASSUME NEW k \in 1 .. Len(s) PROVE StreamOK(p, RemoveAt(s, k), g, ids)
  <2>1. PICK u : u = SubSeq(s, 1, k - 1)
    OBVIOUS
  <2>2. PICK v : v = SubSeq(s, k + 1, Len(s))
    OBVIOUS
  <2>3. u \in Seq(Packets) /\ Len(u) = k - 1 /\ \A i \in 1 .. k - 1 : u[i] = s[i]
    BY <1>1, <2>1
  <2>4. v \in Seq(Packets) /\ Len(v) = Len(s) - k /\ \A i \in 1 .. Len(s) - k : v[i] = s[i + k]
    BY <1>1, <2>2
  <2>5. RemoveAt(s, k) = u \o v
    BY <2>1, <2>2 DEF RemoveAt
  <2> DEFINE w == u \o v
  <2>6. /\ w \in Seq(Packets) /\ Len(w) = Len(u) + Len(v)
        /\ \A i \in 1 .. Len(u) + Len(v) : \/ \E j \in 1 .. Len(u) : w[i] = u[j]
                                           \/ \E j \in 1 .. Len(v) : w[i] = v[j]
    <3>1. u \in Seq(Packets) /\ v \in Seq(Packets)
      BY <2>3, <2>4
    <3> QED BY <3>1, Concatenation
  <2> HIDE DEF w
  <2>7. Len(s) \in Nat /\ k \in Nat
    BY <1>1
  <2>8. /\ \A j \in 1 .. Len(u) : j \in 1 .. Len(s) /\ u[j] = s[j]
        /\ \A j \in 1 .. Len(v) : j + k \in 1 .. Len(s) /\ v[j] = s[j + k]
    BY <2>3, <2>4, <2>7
  <2>9. \A i \in 1 .. Len(w) : PacketOK(p, w[i], g, ids)
    BY <1>1, <2>6, <2>8
  <2>10. StreamOK(p, w, g, ids)
    BY <2>6, <2>9 DEF StreamOK
  <2> QED BY <2>5, <2>10 DEF w
<1>6. ASSUME NEW x, PacketOK(p, x, g, ids) PROVE StreamOK(p, Append(s, x), g, ids)
  <2>1. x \in Packets
    BY <1>6 DEF PacketOK
  <2>2. Append(s, x) \in Seq(Packets) /\ Len(Append(s, x)) = Len(s) + 1
        /\ Append(s, x)[Len(s) + 1] = x /\ \A k \in 1 .. Len(s) : Append(s, x)[k] = s[k]
    BY <1>1, <2>1
  <2>3. \A k \in 1 .. Len(s) + 1 : k = Len(s) + 1 \/ k \in 1 .. Len(s)
    BY <1>1
  <2> QED BY <1>1, <1>6, <2>2, <2>3 DEF StreamOK
<1> QED BY <1>2, <1>3, <1>4, <1>5, <1>6

-----------------------------------------------------------------------------
(* What is known of fragments and ids stays true as more come.             *)

Growth(g, h, ids, jds) ==
  /\ \A n \in Nodes : g[n] \subseteq h[n]
  /\ \A m \in Messages : ids[m] # Invalid => jds[m] = ids[m]
  /\ IsFresh(jds) => IsFresh(ids)

LEMMA SentStays ==
  ASSUME scenario \in Scenarios, NEW g, NEW h, NEW ids, NEW jds, Growth(g, h, ids, jds)
  PROVE  \A n : \A m \in Messages, i \in Ids : SentAs(m, n, i, ids) => SentAs(m, n, i, jds)
  BY Scenery DEF Growth, SentAs

LEMMA TargetGrows ==
  ASSUME scenario \in Scenarios, NEW g, NEW h, NEW ids, NEW jds, Growth(g, h, ids, jds),
         NEW n \in Nodes, NEW a \in Addresses, NEW t, TargetOK(n, a, t, g, ids)
  PROVE  TargetOK(n, a, t, h, jds)
<1>1. /\ t \in [recent : [0 .. scenario.ring - 1 -> Ids \cup {Invalid}], index : 0 .. scenario.ring,
                assemblers : [Ids -> Assemblies]]
      /\ \A i \in Ids : \A p, r \in t.assemblers[i] : p[1] = r[1] => p = r
  BY DEF TargetOK
<1>2. ASSUME NEW i \in Ids, NEW p \in t.assemblers[i] PROVE PartOK(n, a[1], i, p, h, jds)
  <2>1. p \in Parts /\ PartOK(n, a[1], i, p, g, ids)
    BY <1>1, <1>2 DEF TargetOK, Assemblies
  <2>2. p[2] \in Messages
    BY <2>1 DEF Parts
  <2> QED BY <2>1, <2>2, SentStays DEF PartOK, Growth
<1>3. ASSUME NEW k \in 0 .. scenario.ring - 1, t.recent[k] # Invalid
      PROVE  \E m \in Messages : SentAs(m, a[1], t.recent[k], jds) /\ (IsFresh(jds) => Whole(n, m, h))
  <2>1. PICK m \in Messages : SentAs(m, a[1], t.recent[k], ids) /\ (IsFresh(ids) => Whole(n, m, g))
    BY <1>3 DEF TargetOK
  <2>2. t.recent[k] \in Ids
    BY <1>1, <1>3
  <2>3. SentAs(m, a[1], t.recent[k], jds)
    BY <2>1, <2>2, SentStays
  <2>4. Whole(n, m, g) => Whole(n, m, h)
    BY DEF Whole, Growth
  <2> QED BY <2>1, <2>3, <2>4 DEF Growth
<1> QED BY <1>1, <1>2, <1>3 DEF TargetOK

LEMMA QueueGrows ==
  ASSUME scenario \in Scenarios, NEW g, NEW h, NEW ids, NEW jds, Growth(g, h, ids, jds),
         NEW n \in Nodes, NEW i \in Ids, NEW q, NEW K, NEW L, K \subseteq L, QueueOK(n, i, q, K, g, ids)
  PROVE  QueueOK(n, i, q, L, h, jds)
<1> SUFFICES ASSUME q # Free PROVE QueueOK(n, i, q, L, h, jds)
  BY DEF QueueOK
<1>1. /\ q \in [msg : Messages, acked : {q.acked}]
      /\ q.acked = [a \in DOMAIN q.acked |-> q.acked[a]] /\ DOMAIN q.acked \subseteq Addresses
      /\ SentAs(q.msg, n, i, ids) /\ scenario.reliable[q.msg]
      /\ \A a \in DOMAIN q.acked : q.acked[a] # Expired => EntryOK(a, q.msg, q.acked[a], K, g, ids)
  BY DEF QueueOK
<1>2. SentAs(q.msg, n, i, jds)
  BY <1>1, SentStays
<1>3. ASSUME NEW a \in DOMAIN q.acked, q.acked[a] # Expired
      PROVE  EntryOK(a, q.msg, q.acked[a], L, h, jds)
  <2>1. EntryOK(a, q.msg, q.acked[a], K, g, ids)
    BY <1>1, <1>3
  <2>2. a[1] \in Nodes
    BY <1>1 DEF Addresses
  <2>3. g[a[1]] \subseteq h[a[1]] /\ (IsFresh(jds) => IsFresh(ids))
    BY <2>2 DEF Growth
  <2> QED BY <2>1, <2>3 DEF EntryOK
<1> QED BY <1>1, <1>2, <1>3 DEF QueueOK

\* A packet that says it is one has the fields of one.
LEMMA PacketFields ==
  ASSUME NEW packet \in Packets
  PROVE  /\ packet.from \in Addresses /\ packet.from[1] \in Nodes
         /\ packet.type \in {"ANNOUNCE", "LEAVE", "DATA", "DATA_RETRANSMISSION", "ACK", "NACK"}
         /\ IsData(packet) => /\ packet.id \in Ids /\ packet.no \in Nat /\ packet.msg \in Messages
                              /\ packet.count \in Nat /\ packet.reliable \in BOOLEAN
         /\ packet.type \in {"ACK", "NACK"} =>
              packet.id \in Ids /\ packet.count \in Nat /\ packet.bits \subseteq Nat
<1>1. packet.from \in Addresses
  BY DEF Packets
<1> QED BY <1>1 DEF Packets, IsData, Addresses

LEMMA StreamGrows ==
  ASSUME scenario \in Scenarios, NEW g, NEW h, NEW ids, NEW jds, Growth(g, h, ids, jds),
         NEW p \in Nodes, NEW s, StreamOK(p, s, g, ids)
  PROVE  StreamOK(p, s, h, jds)
<1> SUFFICES ASSUME NEW packet \in Packets, PacketOK(p, packet, g, ids) PROVE PacketOK(p, packet, h, jds)
  BY DEF StreamOK
<1>1. ASSUME IsData(packet) PROVE DataOK(packet, jds)
  <2>1. DataOK(packet, ids)
    BY <1>1 DEF PacketOK
  <2> QED BY <1>1, <2>1, PacketFields, SentStays DEF DataOK
<1>2. ASSUME packet.type \in {"ACK", "NACK"} PROVE AckOK(p, packet, h, jds)
  <2>1. packet.type = "ACK" => packet.bits \subseteq 0 .. packet.count - 1
    BY <1>2 DEF PacketOK, AckOK
  <2>2. PICK m \in Messages :
          /\ SentAs(m, p, packet.id, ids) /\ packet.count = scenario.count[m]
          /\ packet.type = "ACK" /\ IsFresh(ids) => \A f \in packet.bits : <<f, m>> \in g[packet.from[1]]
    BY <1>2 DEF PacketOK, AckOK
  <2>3. SentAs(m, p, packet.id, jds)
    BY <1>2, <2>2, PacketFields, SentStays
  <2>4. g[packet.from[1]] \subseteq h[packet.from[1]] /\ (IsFresh(jds) => IsFresh(ids))
    BY PacketFields DEF Growth
  <2> QED BY <2>1, <2>2, <2>3, <2>4 DEF AckOK
<1> QED BY <1>1, <1>2 DEF PacketOK

-----------------------------------------------------------------------------
(* The handlers of process_packet.                                         *)

Handles(n, packet) ==
  /\ Inv /\ n \in Nodes /\ packet \in Packets /\ PacketOK(n, packet, got, id_of)
Handled ==
  /\ Tables(target', send_queue', got', id_of) /\ Growth(got, got', id_of, id_of)
  /\ Deliveries(delivered', once', corrupt', id_of)

LEMMA KnownKnows == \A n : Known(n) = Knows(target, n)
  BY DEF Known, Knows

\* A target that is new has sent nothing yet.
LEMMA NewTargetOK ==
  ASSUME scenario \in Scenarios, NEW n, NEW a, NEW g, NEW ids
  PROVE  TargetOK(n, a, NewTarget, g, ids)
<1>1. NewTarget = [recent |-> [i \in 0 .. scenario.ring - 1 |-> Invalid], index |-> 0,
                   assemblers |-> [i \in Ids |-> {}]]
  BY DEF NewTarget
<1>2. 0 \in 0 .. scenario.ring /\ {} \in Assemblies
  BY Scenery, FS_EmptySet DEF Assemblies
<1>3. NewTarget \in [recent : [0 .. scenario.ring - 1 -> Ids \cup {Invalid}], index : 0 .. scenario.ring,
                     assemblers : [Ids -> Assemblies]]
  BY <1>1, <1>2
<1>4. /\ \A i \in Ids : NewTarget.assemblers[i] = {}
      /\ \A k \in 0 .. scenario.ring - 1 : NewTarget.recent[k] = Invalid
  BY <1>1
<1> QED BY <1>3, <1>4 DEF TargetOK

LEMMA TargetIsKnown ==
  ASSUME scenario \in Scenarios, NEW n, NEW a, NEW t, NEW g, NEW ids, TargetOK(n, a, t, g, ids)
  PROVE  t # Unknown
<1>1. t \in [recent : [0 .. scenario.ring - 1 -> Ids \cup {Invalid}], index : 0 .. scenario.ring,
             assemblers : [Ids -> Assemblies]]
  BY DEF TargetOK
<1>2. /\ t.recent \in [0 .. scenario.ring - 1 -> Int] /\ t.index \in Nat
      /\ t.assemblers \in [0 .. scenario.ids - 1 -> SUBSET (Nat \X Messages)]
  <2>1. Ids \cup {Invalid} \subseteq Int /\ 0 .. scenario.ring \subseteq Nat
    BY Scenery DEF Invalid
  <2> QED BY <1>1, <2>1 DEF Ids, Assemblies, Parts
<1>3. t \in [recent : [0 .. scenario.ring - 1 -> Int], index : Nat,
             assemblers : [0 .. scenario.ids - 1 -> SUBSET (Nat \X Messages)]]
  BY <1>1, <1>2
<1> QED BY <1>3, UnknownAssumption

\* The tables stay sound when one node keeps one target another way.
LEMMA OneTarget ==
  ASSUME Inv, NEW n \in Nodes, NEW a \in Addresses, NEW u, NEW h, h \in [Nodes -> SUBSET Parts],
         Growth(got, h, id_of, id_of), TargetOK(n, a, u, h, id_of),
         target' = [target EXCEPT ![n][a] = u], send_queue' = send_queue
  PROVE  Tables(target', send_queue', h, id_of)
<1>1. /\ target = [m \in Nodes |-> [b \in Addresses |-> target[m][b]]]
      /\ send_queue = [m \in Nodes |-> [i \in Ids |-> send_queue[m][i]]]
      /\ \A m \in Nodes : \A b \in Knows(target, m) : TargetOK(m, b, target[m][b], got, id_of)
      /\ \A m \in Nodes, i \in Ids : QueueOK(m, i, send_queue[m][i], Knows(target, m), got, id_of)
      /\ scenario \in Scenarios
  BY DEF Inv, Tables, Types
<1>2. \A m \in Nodes, b \in Addresses : target'[m][b] = IF m = n /\ b = a THEN u ELSE target[m][b]
  BY <1>1
<1>3. target' = [m \in Nodes |-> [b \in Addresses |-> target'[m][b]]]
  BY <1>1
<1>4. \A m \in Nodes : Knows(target, m) \subseteq Knows(target', m)
  BY <1>1, <1>2, TargetIsKnown DEF Knows
<1>5. ASSUME NEW m \in Nodes, NEW b \in Knows(target', m) PROVE TargetOK(m, b, target'[m][b], h, id_of)
  <2>1. CASE m = n /\ b = a
    BY <2>1, <1>2 DEF Knows
  <2>2. CASE ~(m = n /\ b = a)
    <3>1. b \in Addresses /\ b \in Knows(target, m) /\ target'[m][b] = target[m][b]
      BY <2>2, <1>2 DEF Knows
    <3> QED BY <3>1, <1>1, TargetGrows
  <2> QED BY <2>1, <2>2
<1>6. ASSUME NEW m \in Nodes, NEW i \in Ids
      PROVE  QueueOK(m, i, send_queue[m][i], Knows(target', m), h, id_of)
  BY <1>1, <1>4, QueueGrows
<1>7. send_queue' = [m \in Nodes |-> [i \in Ids |-> send_queue'[m][i]]]
  BY <1>1
<1>8. \A m \in Nodes, i \in Ids : QueueOK(m, i, send_queue'[m][i], Knows(target', m), h, id_of)
  BY <1>6
<1> QED BY <1>3, <1>5, <1>7, <1>8, Zenon DEF Tables

LEMMA HearAnnounceOK ==
  ASSUME NEW n, NEW packet, Handles(n, packet), HearAnnounce(n, packet)
  PROVE  Handled
<1>1. /\ Inv /\ n \in Nodes /\ packet.from \in Addresses /\ scenario \in Scenarios
      /\ Tables(target, send_queue, got, id_of) /\ got \in [Nodes -> SUBSET Parts]
      /\ Deliveries(delivered, once, corrupt, id_of)
  BY PacketFields DEF Handles, Inv, Types, Tables
<1>2. UNCHANGED <<send_queue, got, delivered, once, corrupt>>
  BY DEF HearAnnounce, history
<1>3. Growth(got, got, id_of, id_of)
  BY DEF Growth
<1>4. Tables(target', send_queue', got, id_of)
  <2>1. CASE packet.from \in Known(n)
    BY <2>1, <1>1, <1>2 DEF HearAnnounce
  <2>2. CASE packet.from \notin Known(n)
    <3>1. target' = [target EXCEPT ![n][packet.from] = NewTarget]
      BY <2>2 DEF HearAnnounce
    <3> QED BY <1>1, <1>2, <1>3, <2>2, <3>1, OneTarget, NewTargetOK
  <2> QED BY <2>1, <2>2
<1> QED BY <1>1, <1>2, <1>3, <1>4 DEF Handled

\* A target that is forgotten leaves no entry in send_queue that counts.
LEMMA ForgetOK ==
  ASSUME Inv, NEW n \in Nodes, NEW S, S \subseteq Known(n), Forget(n, S),
         UNCHANGED <<got, delivered, corrupt>>
  PROVE  Handled
<1>1. /\ target = [m \in Nodes |-> [b \in Addresses |-> target[m][b]]]
      /\ send_queue = [m \in Nodes |-> [i \in Ids |-> send_queue[m][i]]]
      /\ got \in [Nodes -> SUBSET Parts]
      /\ \A m \in Nodes : \A b \in Knows(target, m) : TargetOK(m, b, target[m][b], got, id_of)
      /\ \A m \in Nodes, i \in Ids : QueueOK(m, i, send_queue[m][i], Knows(target, m), got, id_of)
      /\ Deliveries(delivered, once, corrupt, id_of)
  BY DEF Inv, Tables
<1>2. target' = [target EXCEPT ![n] = [a \in Addresses |-> IF a \in S THEN Unknown ELSE target[n][a]]]
  BY DEF Forget
<1>3. send_queue' = [send_queue EXCEPT ![n] = Expire(send_queue[n], S)]
  BY DEF Forget
<1>4. Growth(got, got, id_of, id_of)
  BY DEF Growth
<1>5. \A m \in Nodes, b \in Addresses :
        target'[m][b] = IF m = n /\ b \in S THEN Unknown ELSE target[m][b]
  BY <1>1, <1>2
<1>6. target' = [m \in Nodes |-> [b \in Addresses |-> target'[m][b]]]
  BY <1>1, <1>2
<1>7. send_queue' = [m \in Nodes |-> [i \in Ids |-> send_queue'[m][i]]]
  BY <1>1, <1>3 DEF Expire
<1>8. \A m \in Nodes : Knows(target', m) = IF m = n THEN Knows(target, m) \ S ELSE Knows(target, m)
  BY <1>5 DEF Knows
<1>9. ASSUME NEW m \in Nodes, NEW b \in Knows(target', m) PROVE TargetOK(m, b, target'[m][b], got, id_of)
  <2>1. b \in Addresses /\ b \in Knows(target, m) /\ target'[m][b] = target[m][b]
    BY <1>5 DEF Knows
  <2> QED BY <1>1, <2>1
<1>10. ASSUME NEW m \in Nodes, NEW i \in Ids
       PROVE  QueueOK(m, i, send_queue'[m][i], Knows(target', m), got, id_of)
  <2>1. CASE m # n
    <3>1. send_queue'[m] = send_queue[m] /\ Knows(target', m) = Knows(target, m)
      BY <1>1, <1>3, <1>8, <2>1
    <3> QED BY <1>1, <3>1
  <2>2. CASE m = n
    <3>1. PICK q : q = send_queue[n][i]
      OBVIOUS
    <3>2. QueueOK(n, i, q, Knows(target, n), got, id_of)
      BY <1>1, <3>1
    <3>3. send_queue'[n][i] = IF q = Free THEN Free ELSE
            [q EXCEPT !.acked = [a \in DOMAIN q.acked |-> IF a \in S THEN Expired ELSE q.acked[a]]]
      BY <1>1, <1>3, <3>1 DEF Expire
    <3>4. CASE q = Free
      BY <2>2, <3>3, <3>4 DEF QueueOK
    <3>5. CASE q # Free
      <4>1. PICK r : r = send_queue'[n][i]
        OBVIOUS
      <4>2. /\ q \in [msg : Messages, acked : {q.acked}] /\ DOMAIN q.acked \subseteq Addresses
            /\ SentAs(q.msg, n, i, id_of) /\ scenario.reliable[q.msg]
            /\ \A a \in DOMAIN q.acked : q.acked[a] # Expired =>
                 EntryOK(a, q.msg, q.acked[a], Knows(target, n), got, id_of)
        BY <3>2, <3>5 DEF QueueOK
      <4>3. /\ r.msg = q.msg /\ r \in [msg : Messages, acked : {r.acked}]
            /\ r.acked = [a \in DOMAIN q.acked |-> IF a \in S THEN Expired ELSE q.acked[a]]
        BY <3>3, <3>5, <4>1, <4>2
      <4>4. r.acked = [a \in DOMAIN r.acked |-> r.acked[a]] /\ DOMAIN r.acked = DOMAIN q.acked
        BY <4>3
      <4>5. ASSUME NEW a \in DOMAIN r.acked, r.acked[a] # Expired
            PROVE  EntryOK(a, r.msg, r.acked[a], Knows(target', n), got, id_of)
        <5>1. a \notin S /\ a \in DOMAIN q.acked /\ r.acked[a] = q.acked[a]
          BY <4>3, <4>4, <4>5
        <5>2. EntryOK(a, q.msg, q.acked[a], Knows(target, n), got, id_of)
          BY <4>2, <4>5, <5>1
        <5> QED BY <1>8, <4>3, <5>1, <5>2 DEF EntryOK
      <4>6. QueueOK(n, i, r, Knows(target', n), got, id_of)
        BY <4>2, <4>3, <4>4, <4>5 DEF QueueOK
      <4> QED BY <2>2, <4>1, <4>6
    <3> QED BY <3>4, <3>5
  <2> QED BY <2>1, <2>2
<1>11. Tables(target', send_queue', got, id_of)
  BY <1>1, <1>6, <1>7, <1>9, <1>10 DEF Tables
<1>12. Deliveries(delivered', once', corrupt', id_of)
  <2>1. once' = [m \in Messages |->
           [once[m] EXCEPT ![n] = IF scenario.source[m] \in {a[1] : a \in S} THEN 0 ELSE @]]
    BY DEF Forget
  <2>2. delivered \in [Messages -> [Nodes -> 0 .. 2]] /\ once \in [Messages -> [Nodes -> 0 .. 2]]
        /\ corrupt \subseteq Nodes /\ (IsFresh(id_of) => corrupt = {})
    BY <1>1 DEF Deliveries
  <2>3. once' \in [Messages -> [Nodes -> 0 .. 2]]
    BY <2>1, <2>2
  <2> QED BY <2>2, <2>3 DEF Deliveries
<1> QED BY <1>4, <1>11, <1>12 DEF Handled

LEMMA HearLeaveOK ==
  ASSUME NEW n, NEW packet, Handles(n, packet), HearLeave(n, packet)
  PROVE  Handled
  BY ForgetOK DEF Handles, HearLeave

\* An id becomes recent when its message has come whole.
LEMMA RememberOK ==
  ASSUME scenario \in Scenarios, NEW n \in Nodes, NEW packet \in Packets, IsData(packet), NEW g, NEW ids,
         NEW t, TargetOK(n, packet.from, t, g, ids), DataOK(packet, ids),
         IsFresh(ids) => Whole(n, packet.msg, g), NEW u \in Remember(t, packet)
  PROVE  TargetOK(n, packet.from, u, g, ids) /\ u.assemblers = t.assemblers
<1>1. /\ t \in [recent : [0 .. scenario.ring - 1 -> Ids \cup {Invalid}], index : 0 .. scenario.ring,
                assemblers : [Ids -> Assemblies]]
      /\ \A i \in Ids : \A p \in t.assemblers[i] : PartOK(n, packet.from[1], i, p, g, ids)
      /\ \A i \in Ids : \A p, r \in t.assemblers[i] : p[1] = r[1] => p = r
      /\ \A k \in 0 .. scenario.ring - 1 : t.recent[k] # Invalid =>
           \E m \in Messages : SentAs(m, packet.from[1], t.recent[k], ids) /\ (IsFresh(ids) => Whole(n, m, g))
  BY DEF TargetOK
<1>2. scenario.ring \in Nat \ {0}
  BY Scenery
<1>3. packet.id \in Ids /\ packet.msg \in Messages /\ SentAs(packet.msg, packet.from[1], packet.id, ids)
  BY PacketFields DEF DataOK
<1>4. CASE ~packet.reliable
  BY <1>4 DEF Remember
<1>5. CASE packet.reliable /\ t.index < scenario.ring
  <2>1. u = [t EXCEPT !.recent[t.index] = packet.id, !.index = @ + 1]
    BY <1>5 DEF Remember
  <2>2. t.index \in 0 .. scenario.ring - 1 /\ t.index + 1 \in 0 .. scenario.ring
    BY <1>1, <1>2, <1>5
  <2>3. /\ u.recent = [t.recent EXCEPT ![t.index] = packet.id] /\ u.assemblers = t.assemblers
        /\ u \in [recent : [0 .. scenario.ring - 1 -> Ids \cup {Invalid}], index : 0 .. scenario.ring,
                  assemblers : [Ids -> Assemblies]]
    BY <1>1, <1>3, <2>1, <2>2
  <2>4. \A k \in 0 .. scenario.ring - 1 : u.recent[k] = IF k = t.index THEN packet.id ELSE t.recent[k]
    BY <1>1, <2>2, <2>3
  <2>5. \A k \in 0 .. scenario.ring - 1 : u.recent[k] # Invalid =>
           \E m \in Messages : SentAs(m, packet.from[1], u.recent[k], ids) /\ (IsFresh(ids) => Whole(n, m, g))
    BY <1>1, <1>3, <2>4
  <2> QED BY <1>1, <2>3, <2>5 DEF TargetOK
<1>6. CASE packet.reliable /\ ~(t.index < scenario.ring)
  <2>1. PICK i \in 0 .. scenario.ring : u = [t EXCEPT !.index = i]
    BY <1>6 DEF Remember
  <2>2. /\ u.recent = t.recent /\ u.assemblers = t.assemblers
        /\ u \in [recent : [0 .. scenario.ring - 1 -> Ids \cup {Invalid}], index : 0 .. scenario.ring,
                  assemblers : [Ids -> Assemblies]]
    BY <1>1, <2>1
  <2> QED BY <1>1, <2>2 DEF TargetOK
<1> QED BY <1>4, <1>5, <1>6

\* The fragments of a message, as parts.
LEMMA MessageParts ==
  ASSUME scenario \in Scenarios, NEW m \in Messages
  PROVE  /\ IsFiniteSet({<<i, m>> : i \in Fragments(m)})
         /\ Cardinality({<<i, m>> : i \in Fragments(m)}) = scenario.count[m]
         /\ IsFiniteSet(Fragments(m)) /\ Fragments(m) \subseteq Nat /\ 0 \in Fragments(m)
<1>1. scenario.count[m] \in Nat \ {0}
  BY Scenery
<1>2. Fragments(m) = 0 .. scenario.count[m] - 1
  BY DEF Fragments
<1>3. IsFiniteSet(Fragments(m)) /\ Cardinality(Fragments(m)) = scenario.count[m]
  <2>1. 0 \in Int /\ scenario.count[m] - 1 \in Int
    BY <1>1
  <2>2. /\ IsFiniteSet(0 .. scenario.count[m] - 1)
        /\ Cardinality(0 .. scenario.count[m] - 1) =
             IF 0 > scenario.count[m] - 1 THEN 0 ELSE scenario.count[m] - 1 - 0 + 1
    BY <2>1, FS_Interval
  <2> QED BY <1>1, <1>2, <2>2
<1>4. IsFiniteSet({m}) /\ Cardinality({m}) = 1
  BY FS_Singleton
<1>5. /\ IsFiniteSet(Fragments(m) \X {m})
      /\ Cardinality(Fragments(m) \X {m}) = Cardinality(Fragments(m)) * Cardinality({m})
  BY <1>3, <1>4, FS_Product
<1>6. {<<i, m>> : i \in Fragments(m)} = Fragments(m) \X {m}
  OBVIOUS
<1>7. Cardinality(Fragments(m) \X {m}) = scenario.count[m]
  BY <1>1, <1>3, <1>4, <1>5
<1>8. Fragments(m) \subseteq Nat /\ 0 \in Fragments(m)
  BY <1>1, <1>2
<1> QED BY <1>3, <1>5, <1>6, <1>7, <1>8

\* What the assembler holds once this fragment is in it.
LEMMA AssembledOK ==
  ASSUME scenario \in Scenarios, NEW n \in Nodes, NEW packet \in Packets, IsData(packet), NEW g, NEW ids,
         NEW t, TargetOK(n, packet.from, t, g, ids), DataOK(packet, ids), <<packet.no, packet.msg>> \in g[n]
  PROVE  LET parts == Assembled(t, packet) IN
         /\ parts \in Assemblies
         /\ \A p \in parts : PartOK(n, packet.from[1], packet.id, p, g, ids)
         /\ \A p, r \in parts : p[1] = r[1] => p = r
         /\ \A p \in parts : p[1] < packet.count
<1>1. /\ packet.id \in Ids /\ packet.no \in Nat /\ packet.msg \in Messages
      /\ packet.no \in Fragments(packet.msg) /\ packet.count = scenario.count[packet.msg]
      /\ SentAs(packet.msg, packet.from[1], packet.id, ids)
  BY PacketFields DEF DataOK
<1>2. /\ t.assemblers[packet.id] \subseteq Parts /\ IsFiniteSet(t.assemblers[packet.id])
      /\ \A p \in t.assemblers[packet.id] : PartOK(n, packet.from[1], packet.id, p, g, ids)
      /\ \A p, r \in t.assemblers[packet.id] : p[1] = r[1] => p = r
  BY <1>1 DEF TargetOK, Assemblies
<1>3. PICK x : x = <<packet.no, packet.msg>>
  OBVIOUS
<1>4. x \in Parts /\ x[1] = packet.no /\ PartOK(n, packet.from[1], packet.id, x, g, ids)
  BY <1>1, <1>3 DEF Parts, PartOK
<1>5. packet.count \in Nat /\ packet.no < packet.count
  <2>1. scenario.count[packet.msg] \in Nat \ {0}
    BY <1>1, Scenery
  <2> QED BY <1>1, <2>1 DEF Fragments
<1>6. PICK parts : parts = Assembled(t, packet)
  OBVIOUS
<1>7. \A p \in parts : p = x \/ (p \in t.assemblers[packet.id] /\ p[1] # packet.no /\ ~(p[1] >= packet.count))
  BY <1>3, <1>6 DEF Assembled, Held, Confused
<1>8. parts \subseteq Parts /\ \A p \in parts : PartOK(n, packet.from[1], packet.id, p, g, ids)
  BY <1>2, <1>4, <1>7
<1>9. \A p, r \in parts : p[1] = r[1] => p = r
  BY <1>2, <1>4, <1>7
<1>10. \A p \in parts : p[1] < packet.count
  <2> SUFFICES ASSUME NEW p \in parts PROVE p[1] < packet.count
    OBVIOUS
  <2>1. p[1] \in Nat
    BY <1>8 DEF Parts
  <2> QED BY <2>1, <1>4, <1>5, <1>7
<1>11. IsFiniteSet(parts)
  <2>1. parts \subseteq t.assemblers[packet.id] \cup {x}
    BY <1>7
  <2>2. IsFiniteSet(t.assemblers[packet.id] \cup {x})
    BY <1>2, FS_AddElement
  <2> QED BY <2>1, <2>2, FS_Subset
<1> QED BY <1>6, <1>8, <1>9, <1>10, <1>11 DEF Assemblies

\* When as many parts are there as the message has, and the ids have not come round,
\* they are the message.
LEMMA CompleteIsWhole ==
  ASSUME scenario \in Scenarios, NEW n \in Nodes, NEW packet \in Packets, IsData(packet), NEW g, NEW ids,
         NEW t, TargetOK(n, packet.from, t, g, ids), DataOK(packet, ids), <<packet.no, packet.msg>> \in g[n],
         IsFresh(ids), Complete(Assembled(t, packet), packet), ids \in [Messages -> Ids \cup {Invalid}]
  PROVE  /\ Assembled(t, packet) = {<<i, packet.msg>> : i \in Fragments(packet.msg)}
         /\ Whole(n, packet.msg, g)
<1>1. PICK parts : parts = Assembled(t, packet)
  OBVIOUS
<1>2. /\ parts \subseteq Parts
      /\ \A p \in parts : PartOK(n, packet.from[1], packet.id, p, g, ids)
  BY <1>1, AssembledOK DEF Assemblies
<1>3. packet.id \in Ids /\ packet.msg \in Messages /\ packet.count = scenario.count[packet.msg]
      /\ SentAs(packet.msg, packet.from[1], packet.id, ids)
  BY PacketFields DEF DataOK
<1>4. \A p \in parts : p = <<p[1], p[2]>> /\ p[1] \in Fragments(p[2]) /\ p[2] \in Messages
                       /\ SentAs(p[2], packet.from[1], packet.id, ids) /\ p \in g[n]
  BY <1>2 DEF Parts, PartOK
<1>5. \A m \in Messages : SentAs(m, packet.from[1], packet.id, ids) => m = packet.msg
  BY <1>3, Scenery DEF IsFresh, SentAs
<1>6. parts \subseteq {<<i, packet.msg>> : i \in Fragments(packet.msg)}
  BY <1>4, <1>5
<1>7. Cardinality(parts) = Cardinality({<<i, packet.msg>> : i \in Fragments(packet.msg)})
  BY <1>1, <1>3, MessageParts DEF Complete
<1>8. parts = {<<i, packet.msg>> : i \in Fragments(packet.msg)}
  BY <1>3, <1>6, <1>7, MessageParts, FS_Subset
<1> QED BY <1>1, <1>4, <1>8 DEF Whole

\* A fragment that is received is a part of the message that its sender sent.
LEMMA ReceivedOK ==
  ASSUME NEW n, NEW packet, Handles(n, packet), IsData(packet), NEW f \in Nat,
         got' = [got EXCEPT ![n] = @ \cup {<<f, packet.msg>>}]
  PROVE  /\ got' \in [Nodes -> SUBSET Parts] /\ Growth(got, got', id_of, id_of)
         /\ <<f, packet.msg>> \in got'[n]
<1>1. n \in Nodes /\ packet.msg \in Messages /\ got \in [Nodes -> SUBSET Parts]
  BY PacketFields DEF Handles, Inv, Tables
<1>2. <<f, packet.msg>> \in Parts
  BY <1>1 DEF Parts
<1>3. \A m \in Nodes : got'[m] = IF m = n THEN got[n] \cup {<<f, packet.msg>>} ELSE got[m]
  BY <1>1
<1>4. got' \in [Nodes -> SUBSET Parts]
  BY <1>1, <1>2
<1>5. Growth(got, got', id_of, id_of)
  BY <1>3 DEF Growth
<1> QED BY <1>1, <1>3, <1>4, <1>5

LEMMA DeliverOK ==
  ASSUME NEW n \in Nodes, NEW packet, packet.msg \in Messages, NEW parts, Deliver(n, packet, parts),
         Deliveries(delivered, once, corrupt, id_of),
         IsFresh(id_of) => parts = {<<i, packet.msg>> : i \in Fragments(packet.msg)}
  PROVE  Deliveries(delivered', once', corrupt', id_of)
<1>1. /\ delivered \in [Messages -> [Nodes -> 0 .. 2]] /\ once \in [Messages -> [Nodes -> 0 .. 2]]
      /\ corrupt \subseteq Nodes /\ (IsFresh(id_of) => corrupt = {})
  BY DEF Deliveries
<1>2. PICK m : m = packet.msg
  OBVIOUS
<1>3. delivered[m][n] \in 0 .. 2 /\ once[m][n] \in 0 .. 2
  BY <1>1, <1>2
<1>4. CASE parts = {<<i, m>> : i \in Fragments(m)}
  <2>1. /\ delivered' = [delivered EXCEPT ![m][n] = IF @ < 2 THEN @ + 1 ELSE @]
        /\ once' = [once EXCEPT ![m][n] = IF @ < 2 THEN @ + 1 ELSE @]
        /\ corrupt' = corrupt
    BY <1>2, <1>4 DEF Deliver
  <2>2. \A x \in 0 .. 2 : (IF x < 2 THEN x + 1 ELSE x) \in 0 .. 2
    OBVIOUS
  <2>3. delivered' \in [Messages -> [Nodes -> 0 .. 2]] /\ once' \in [Messages -> [Nodes -> 0 .. 2]]
    BY <1>1, <1>2, <1>3, <2>1, <2>2
  <2> QED BY <1>1, <2>1, <2>3 DEF Deliveries
<1>5. CASE parts # {<<i, m>> : i \in Fragments(m)}
  <2>1. /\ delivered' = [delivered EXCEPT ![m][n] = @] /\ once' = [once EXCEPT ![m][n] = @]
        /\ corrupt' = corrupt \cup {n}
    BY <1>2, <1>5 DEF Deliver
  <2>2. delivered' = delivered /\ once' = once
    BY <1>1, <2>1
  <2> QED BY <1>1, <1>2, <1>5, <2>1, <2>2 DEF Deliveries
<1> QED BY <1>4, <1>5

\* A message of one fragment is whole when its fragment has come.
LEMMA HearWholeOK ==
  ASSUME NEW n, NEW packet, Handles(n, packet), IsData(packet), packet.from \in Known(n),
         HearWhole(n, packet)
  PROVE  Handled
<1>1. /\ Inv /\ scenario \in Scenarios /\ n \in Nodes /\ packet \in Packets
      /\ packet.from \in Addresses /\ packet.msg \in Messages /\ DataOK(packet, id_of)
      /\ Deliveries(delivered, once, corrupt, id_of)
      /\ \A b \in Knows(target, n) : TargetOK(n, b, target[n][b], got, id_of)
  BY PacketFields DEF Handles, Inv, Types, Tables, PacketOK
<1>2. PICK t : t = target[n][packet.from]
  OBVIOUS
<1>3. TargetOK(n, packet.from, t, got, id_of)
  BY <1>1, <1>2, KnownKnows
<1>4. packet.count = 1
  BY DEF HearWhole
<1>5. /\ got' \in [Nodes -> SUBSET Parts] /\ Growth(got, got', id_of, id_of)
      /\ <<0, packet.msg>> \in got'[n]
  <2>1. got' = [got EXCEPT ![n] = @ \cup {<<0, packet.msg>>}]
    BY DEF HearWhole
  <2> QED BY <2>1, ReceivedOK
<1>6. Fragments(packet.msg) = {0}
  BY <1>1, <1>4 DEF DataOK, Fragments
<1>7. Whole(n, packet.msg, got')
  BY <1>5, <1>6 DEF Whole
<1>8. TargetOK(n, packet.from, t, got', id_of)
  BY <1>1, <1>3, <1>5, TargetGrows
<1>9. PICK u \in Remember(t, packet) : target' = [target EXCEPT ![n][packet.from] = u]
  BY <1>2 DEF HearWhole
<1>10. TargetOK(n, packet.from, u, got', id_of)
  BY <1>1, <1>7, <1>8, RememberOK
<1>11. send_queue' = send_queue
  BY DEF HearWhole
<1>12. Tables(target', send_queue', got', id_of)
  BY <1>1, <1>5, <1>9, <1>10, <1>11, OneTarget
<1>13. Deliveries(delivered', once', corrupt', id_of)
  <2>1. Deliver(n, packet, {<<0, packet.msg>>})
    BY DEF HearWhole
  <2>2. {<<0, packet.msg>>} = {<<i, packet.msg>> : i \in Fragments(packet.msg)}
    BY <1>6
  <2> QED BY <1>1, <2>1, <2>2, DeliverOK
<1> QED BY <1>5, <1>12, <1>13 DEF Handled

\* An assembler that is filled, emptied or forgotten leaves a sound target.
LEMMA HearFragmentOK ==
  ASSUME NEW n, NEW packet, Handles(n, packet), IsData(packet), packet.from \in Known(n),
         HearFragment(n, packet)
  PROVE  Handled
<1>1. /\ Inv /\ scenario \in Scenarios /\ n \in Nodes /\ packet \in Packets
      /\ packet.from \in Addresses /\ packet.msg \in Messages /\ DataOK(packet, id_of)
      /\ packet.no \in Nat /\ packet.id \in Ids
      /\ Deliveries(delivered, once, corrupt, id_of) /\ id_of \in [Messages -> Ids \cup {Invalid}]
      /\ \A b \in Knows(target, n) : TargetOK(n, b, target[n][b], got, id_of)
  BY PacketFields DEF Handles, Inv, Types, Tables, PacketOK
<1>2. PICK t : t = target[n][packet.from]
  OBVIOUS
<1>3. PICK parts : parts = Assembled(t, packet)
  OBVIOUS
<1> DEFINE complete == Complete(parts, packet)
<1>5. /\ got' \in [Nodes -> SUBSET Parts] /\ Growth(got, got', id_of, id_of)
      /\ <<packet.no, packet.msg>> \in got'[n]
  <2>1. got' = [got EXCEPT ![n] = @ \cup {<<packet.no, packet.msg>>}]
    BY DEF HearFragment
  <2> QED BY <1>1, <2>1, ReceivedOK
<1>6. TargetOK(n, packet.from, t, got', id_of)
  <2>1. TargetOK(n, packet.from, t, got, id_of)
    BY <1>1, <1>2, KnownKnows
  <2> QED BY <1>1, <1>5, <2>1, TargetGrows
<1>7. /\ parts \in Assemblies
      /\ \A p \in parts : PartOK(n, packet.from[1], packet.id, p, got', id_of)
      /\ \A p, r \in parts : p[1] = r[1] => p = r
  BY <1>1, <1>3, <1>5, <1>6, AssembledOK
<1>8. IsFresh(id_of) /\ complete => /\ parts = {<<i, packet.msg>> : i \in Fragments(packet.msg)}
                                    /\ Whole(n, packet.msg, got')
  BY <1>1, <1>3, <1>5, <1>6, CompleteIsWhole
<1>9. PICK u \in IF Complete(Assembled(target[n][packet.from], packet), packet)
               THEN Remember(target[n][packet.from], packet) ELSE {target[n][packet.from]},
           old \in IF "expire" \in scenario.events THEN SUBSET (Ids \ {packet.id}) ELSE {{}} :
       target' = [target EXCEPT ![n][packet.from] = [u EXCEPT !.assemblers = [i \in Ids |->
            IF i \in old THEN {} ELSE IF i # packet.id THEN target[n][packet.from].assemblers[i]
            ELSE IF Complete(Assembled(target[n][packet.from], packet), packet) THEN {}
            ELSE Assembled(target[n][packet.from], packet)]]]
  BY Zenon DEF HearFragment
<1> HIDE DEF complete
<1>10. TargetOK(n, packet.from, u, got', id_of) /\ u.assemblers = t.assemblers
  <2>1. CASE complete
    BY <1>1, <1>2, <1>3, <1>6, <1>8, <1>9, <2>1, RememberOK DEF complete
  <2>2. CASE ~complete
    BY <1>2, <1>3, <1>6, <1>9, <2>2 DEF complete
  <2> QED BY <2>1, <2>2
<1>11. PICK v : v = [u EXCEPT !.assemblers = [i \in Ids |->
            IF i \in old THEN {} ELSE IF i # packet.id THEN target[n][packet.from].assemblers[i]
            ELSE IF Complete(Assembled(target[n][packet.from], packet), packet) THEN {}
            ELSE Assembled(target[n][packet.from], packet)]]
  OBVIOUS
<1>12. TargetOK(n, packet.from, v, got', id_of)
  <2>1. /\ u \in [recent : [0 .. scenario.ring - 1 -> Ids \cup {Invalid}], index : 0 .. scenario.ring,
                  assemblers : [Ids -> Assemblies]]
        /\ \A i \in Ids : \A p \in t.assemblers[i] : PartOK(n, packet.from[1], i, p, got', id_of)
        /\ \A i \in Ids : \A p, r \in t.assemblers[i] : p[1] = r[1] => p = r
        /\ \A k \in 0 .. scenario.ring - 1 : u.recent[k] # Invalid =>
             \E m \in Messages : SentAs(m, packet.from[1], u.recent[k], id_of)
                                 /\ (IsFresh(id_of) => Whole(n, m, got'))
    BY <1>10 DEF TargetOK
  <2>2. t.assemblers \in [Ids -> Assemblies] /\ {} \in Assemblies
    BY <1>10, <2>1, FS_EmptySet DEF Assemblies
  <2>3. /\ v.recent = u.recent /\ v.index = u.index
        /\ v.assemblers = [i \in Ids |->
            IF i \in old THEN {} ELSE IF i # packet.id THEN target[n][packet.from].assemblers[i]
            ELSE IF Complete(Assembled(target[n][packet.from], packet), packet) THEN {}
            ELSE Assembled(target[n][packet.from], packet)]
        /\ v = [recent |-> v.recent, index |-> v.index, assemblers |-> v.assemblers]
    BY <1>11, <2>1
  <2>4. \A i \in Ids : v.assemblers[i] \in {{}, t.assemblers[i]} \/ (i = packet.id /\ v.assemblers[i] = parts)
    BY <1>2, <1>3, <2>3
  <2>5. v.assemblers \in [Ids -> Assemblies]
    <3>1. \A i \in Ids : v.assemblers[i] \in Assemblies
      BY <1>7, <2>2, <2>4
    <3>2. v.assemblers = [i \in Ids |-> v.assemblers[i]]
      BY <2>3
    <3> QED BY <3>1, <3>2
  <2>6. /\ \A i \in Ids : \A p \in v.assemblers[i] : PartOK(n, packet.from[1], i, p, got', id_of)
        /\ \A i \in Ids : \A p, r \in v.assemblers[i] : p[1] = r[1] => p = r
    BY <1>7, <2>1, <2>4
  <2>7. v \in [recent : [0 .. scenario.ring - 1 -> Ids \cup {Invalid}], index : 0 .. scenario.ring,
               assemblers : [Ids -> Assemblies]]
    BY <2>1, <2>3, <2>5
  <2> QED BY <2>1, <2>3, <2>6, <2>7 DEF TargetOK
<1>13. send_queue' = send_queue
  BY DEF HearFragment
<1>14. Tables(target', send_queue', got', id_of)
  BY <1>1, <1>5, <1>9, <1>11, <1>12, <1>13, OneTarget
<1>15. Deliveries(delivered', once', corrupt', id_of)
  <2>1. CASE complete
    <3>1. Deliver(n, packet, parts)
      BY <1>2, <1>3, <2>1 DEF HearFragment, complete
    <3> QED BY <1>1, <1>8, <2>1, <3>1, DeliverOK
  <2>2. CASE ~complete
    BY <1>1, <1>2, <1>3, <2>2 DEF HearFragment, complete
  <2> QED BY <2>1, <2>2
<1> QED BY <1>5, <1>14, <1>15 DEF Handled

\* What does not concern a node leaves what it keeps as it was.
LEMMA NothingChanges ==
  ASSUME NEW n, NEW packet, Handles(n, packet), UNCHANGED <<target, send_queue, history>>
  PROVE  Handled
<1>1. UNCHANGED <<target, send_queue, got, delivered, once, corrupt>>
  BY DEF history
<1>2. Growth(got, got, id_of, id_of)
  BY DEF Growth
<1> QED BY <1>1, <1>2 DEF Handles, Inv, Handled

\* An acknowledgement has room for every fragment.
LEMMA RoomForAll ==
  ASSUME NEW count \in Nat
  PROVE  0 .. count - 1 \subseteq Bits(count)
<1>1. ByteBits \in Nat \ {0}
  BY NetworkAssumption
<1>2. count \div ByteBits \in Nat /\ count % ByteBits \in 0 .. ByteBits - 1
      /\ count = ByteBits * (count \div ByteBits) + (count % ByteBits)
  BY <1>1
<1>3. PICK d \in Nat : d = count \div ByteBits
  BY <1>2
<1>4. PICK r \in Nat : r = count % ByteBits
  BY <1>1, <1>2
<1>5. (d + 1) * ByteBits = ByteBits * d + ByteBits /\ r < ByteBits /\ count = ByteBits * d + r
  BY <1>1, <1>2, <1>3, <1>4
<1>6. PICK e : e = ByteBits * d
  OBVIOUS
<1>7. e \in Nat
  BY <1>1, <1>6
<1>8. (d + 1) * ByteBits = e + ByteBits /\ count = e + r /\ e \in Nat
  BY <1>5, <1>6, <1>7
<1>9. count <= (d + 1) * ByteBits /\ (d + 1) * ByteBits \in Nat
  BY <1>1, <1>5, <1>8
<1> QED BY <1>3, <1>9 DEF Bits

\* The tables stay sound when one node keeps one message another way.
LEMMA OneMessage ==
  ASSUME NEW n, NEW packet, Handles(n, packet), NEW i \in Ids, NEW r,
         QueueOK(n, i, r, Known(n), got, id_of),
         send_queue' = [send_queue EXCEPT ![n][i] = r], UNCHANGED <<target, history>>
  PROVE  Handled
<1>1. /\ n \in Nodes /\ Tables(target, send_queue, got, id_of)
      /\ send_queue = [m \in Nodes |-> [j \in Ids |-> send_queue[m][j]]]
      /\ \A m \in Nodes, j \in Ids : QueueOK(m, j, send_queue[m][j], Knows(target, m), got, id_of)
      /\ Deliveries(delivered, once, corrupt, id_of)
  BY DEF Handles, Inv, Tables
<1>2. UNCHANGED <<target, got, delivered, once, corrupt>>
  BY DEF history
<1>3. Growth(got, got, id_of, id_of)
  BY DEF Growth
<1>4. send_queue' = [m \in Nodes |-> [j \in Ids |-> send_queue'[m][j]]]
  BY <1>1
<1>5. \A m \in Nodes, j \in Ids : send_queue'[m][j] = IF m = n /\ j = i THEN r ELSE send_queue[m][j]
  BY <1>1
<1>6. \A m \in Nodes, j \in Ids : QueueOK(m, j, send_queue'[m][j], Knows(target, m), got, id_of)
  BY <1>1, <1>5, KnownKnows
<1>7. Tables(target, send_queue', got, id_of)
  BY <1>1, <1>4, <1>6 DEF Tables
<1> QED BY <1>1, <1>2, <1>3, <1>7 DEF Handled

\* A message stays sound when what one of its targets has acknowledged changes.
LEMMA OneEntry ==
  ASSUME NEW n, NEW i, NEW q, NEW K, NEW g, NEW ids, QueueOK(n, i, q, K, g, ids), q # Free,
         NEW a \in DOMAIN q.acked, NEW acked, EntryOK(a, q.msg, acked, K, g, ids)
  PROVE  QueueOK(n, i, [q EXCEPT !.acked[a] = acked], K, g, ids)
<1>1. /\ q \in [msg : Messages, acked : {q.acked}]
      /\ q.acked = [b \in DOMAIN q.acked |-> q.acked[b]] /\ DOMAIN q.acked \subseteq Addresses
      /\ SentAs(q.msg, n, i, ids) /\ scenario.reliable[q.msg]
      /\ \A b \in DOMAIN q.acked : q.acked[b] # Expired => EntryOK(b, q.msg, q.acked[b], K, g, ids)
  BY DEF QueueOK
<1>2. PICK r : r = [q EXCEPT !.acked[a] = acked]
  OBVIOUS
<1>3. /\ r.msg = q.msg /\ r \in [msg : Messages, acked : {r.acked}]
      /\ r.acked = [q.acked EXCEPT ![a] = acked]
  BY <1>1, <1>2
<1>4. /\ DOMAIN r.acked = DOMAIN q.acked /\ r.acked = [b \in DOMAIN r.acked |-> r.acked[b]]
      /\ \A b \in DOMAIN r.acked : r.acked[b] = IF b = a THEN acked ELSE q.acked[b]
  BY <1>1, <1>3
<1>5. \A b \in DOMAIN r.acked : r.acked[b] # Expired => EntryOK(b, r.msg, r.acked[b], K, g, ids)
  BY <1>1, <1>3, <1>4
<1>6. QueueOK(n, i, r, K, g, ids)
  BY <1>1, <1>3, <1>4, <1>5 DEF QueueOK
<1> QED BY <1>2, <1>6

\* What an entry of send_queue says of the packet that is about it.
LEMMA RelevantEntry ==
  ASSUME NEW n, NEW packet, Handles(n, packet), packet.type \in {"ACK", "NACK"}, Relevant(n, packet)
  PROVE  LET q == send_queue[n][packet.id] IN
         /\ packet.id \in Ids /\ q # Free /\ QueueOK(n, packet.id, q, Known(n), got, id_of)
         /\ q.msg \in Messages /\ SentAs(q.msg, n, packet.id, id_of)
         /\ packet.from \in DOMAIN q.acked /\ packet.count = scenario.count[q.msg]
         /\ EntryOK(packet.from, q.msg, q.acked[packet.from], Known(n), got, id_of)
<1>1. packet.id \in Ids /\ n \in Nodes /\ packet \in Packets
  BY PacketFields DEF Handles
<1>2. QueueOK(n, packet.id, send_queue[n][packet.id], Known(n), got, id_of)
  BY <1>1, KnownKnows DEF Handles, Inv, Tables
<1>3. /\ send_queue[n][packet.id] # Free
      /\ packet.from \in DOMAIN send_queue[n][packet.id].acked
      /\ send_queue[n][packet.id].acked[packet.from] # Expired
      /\ packet.count = scenario.count[send_queue[n][packet.id].msg]
  BY DEF Relevant
<1> QED BY <1>1, <1>2, <1>3 DEF QueueOK

\* An acknowledgement that makes an entry full takes it out.
LEMMA HearAckOK ==
  ASSUME NEW n, NEW packet, Handles(n, packet), packet.type = "ACK", HearAck(n, packet)
  PROVE  Handled
<1>1. PICK q : q = send_queue[n][packet.id]
  OBVIOUS
<1>2. /\ packet.id \in Ids /\ q # Free /\ QueueOK(n, packet.id, q, Known(n), got, id_of)
      /\ q.msg \in Messages /\ SentAs(q.msg, n, packet.id, id_of)
      /\ packet.from \in DOMAIN q.acked /\ packet.count = scenario.count[q.msg]
      /\ EntryOK(packet.from, q.msg, q.acked[packet.from], Known(n), got, id_of)
  BY <1>1, RelevantEntry DEF HearAck
<1>3. PICK m \in Messages :
        /\ SentAs(m, n, packet.id, id_of)
        /\ packet.type = "ACK" /\ IsFresh(id_of) => \A f \in packet.bits : <<f, m>> \in got[packet.from[1]]
  BY DEF Handles, PacketOK, AckOK
<1>4. packet.bits \subseteq 0 .. packet.count - 1
  BY DEF Handles, PacketOK, AckOK
<1>5. scenario \in Scenarios /\ packet.id # Invalid /\ scenario.count[q.msg] \in Nat
  BY <1>2, Scenery DEF Handles, Inv, Types
<1>6. IsFresh(id_of) => m = q.msg
  BY <1>2, <1>3, <1>5 DEF IsFresh, SentAs
<1>7. PICK acked : acked = q.acked[packet.from] \cup packet.bits
  OBVIOUS
<1>8. PICK rest : rest = DOMAIN q.acked \ {packet.from}
  OBVIOUS
<1>9. PICK r : r = IF ~(Expected(packet.count) \subseteq acked)
                   THEN [q EXCEPT !.acked[packet.from] = acked]
                   ELSE IF rest = {} THEN Free
                   ELSE [q EXCEPT !.acked = [a \in rest |-> q.acked[a]]]
  OBVIOUS
<1>10. send_queue' = [send_queue EXCEPT ![n][packet.id] = r] /\ UNCHANGED <<target, history>>
  BY <1>1, <1>7, <1>8, <1>9 DEF HearAck
<1>11. QueueOK(n, packet.id, r, Known(n), got, id_of)
  <2>1. CASE ~(Expected(packet.count) \subseteq acked)
    <3>1. acked \subseteq Bits(scenario.count[q.msg])
      BY <1>2, <1>4, <1>5, <1>7, RoomForAll DEF EntryOK
    <3>2. IsFresh(id_of) => \A f \in acked \cap Fragments(q.msg) : <<f, q.msg>> \in got[packet.from[1]]
      BY <1>2, <1>3, <1>6, <1>7 DEF EntryOK
    <3>3. scenario.count[q.msg] % ByteBits # 0 => ~(Fragments(q.msg) \subseteq acked)
      BY <1>2, <2>1 DEF Expected, Fragments
    <3>4. EntryOK(packet.from, q.msg, acked, Known(n), got, id_of)
      BY <1>2, <3>1, <3>2, <3>3 DEF EntryOK
    <3> QED BY <1>2, <1>9, <2>1, <3>4, OneEntry
  <2>2. CASE Expected(packet.count) \subseteq acked /\ rest = {}
    BY <1>9, <2>2 DEF QueueOK
  <2>3. CASE Expected(packet.count) \subseteq acked /\ rest # {}
    <3>1. r = [q EXCEPT !.acked = [a \in rest |-> q.acked[a]]]
      BY <1>9, <2>3
    <3>2. /\ q \in [msg : Messages, acked : {q.acked}]
          /\ DOMAIN q.acked \subseteq Addresses
          /\ SentAs(q.msg, n, packet.id, id_of) /\ scenario.reliable[q.msg]
          /\ \A a \in DOMAIN q.acked : q.acked[a] # Expired =>
               EntryOK(a, q.msg, q.acked[a], Known(n), got, id_of)
      BY <1>2 DEF QueueOK
    <3>3. /\ r.msg = q.msg /\ r \in [msg : Messages, acked : {r.acked}]
          /\ r.acked = [a \in rest |-> q.acked[a]]
      BY <3>1, <3>2
    <3>4. /\ DOMAIN r.acked = rest /\ r.acked = [a \in DOMAIN r.acked |-> r.acked[a]]
          /\ \A a \in rest : a \in DOMAIN q.acked /\ r.acked[a] = q.acked[a]
      BY <1>8, <3>3
    <3>5. DOMAIN r.acked \subseteq Addresses
      BY <3>2, <3>4
    <3>6. \A a \in DOMAIN r.acked : r.acked[a] # Expired =>
            EntryOK(a, r.msg, r.acked[a], Known(n), got, id_of)
      BY <3>2, <3>3, <3>4
    <3> QED BY <3>2, <3>3, <3>4, <3>5, <3>6 DEF QueueOK
  <2> QED BY <2>1, <2>2, <2>3
<1> QED BY <1>2, <1>10, <1>11, OneMessage

\* A negative acknowledgement takes bits away, so that nothing untrue is added.
LEMMA HearNackOK ==
  ASSUME NEW n, NEW packet, Handles(n, packet), packet.type = "NACK", HearNack(n, packet)
  PROVE  Handled
<1>1. PICK q : q = send_queue[n][packet.id]
  OBVIOUS
<1>2. /\ packet.id \in Ids /\ q # Free /\ QueueOK(n, packet.id, q, Known(n), got, id_of)
      /\ packet.from \in DOMAIN q.acked
      /\ EntryOK(packet.from, q.msg, q.acked[packet.from], Known(n), got, id_of)
  BY <1>1, RelevantEntry DEF HearNack
<1>3. PICK r : r = [q EXCEPT !.acked[packet.from] = q.acked[packet.from] \ packet.bits]
  OBVIOUS
<1>4. send_queue' = [send_queue EXCEPT ![n][packet.id] = r] /\ UNCHANGED <<target, history>>
  BY <1>1, <1>3 DEF HearNack
<1>5. EntryOK(packet.from, q.msg, q.acked[packet.from] \ packet.bits, Known(n), got, id_of)
  BY <1>2 DEF EntryOK
<1>6. QueueOK(n, packet.id, r, Known(n), got, id_of)
  BY <1>2, <1>3, <1>5, OneEntry
<1> QED BY <1>2, <1>4, <1>6, OneMessage

\* Every way a packet is handled keeps the tables sound.
LEMMA HandleOK ==
  ASSUME NEW n, NEW packet, Handles(n, packet), Handle(n, packet)
  PROVE  Handled
<1>1. CASE packet.type = "ANNOUNCE" /\ HearAnnounce(n, packet)
  BY <1>1, HearAnnounceOK
<1>2. CASE packet.type = "LEAVE" /\ HearLeave(n, packet)
  BY <1>2, HearLeaveOK
<1>3. CASE HearAgain(n, packet)
  BY <1>3, NothingChanges DEF HearAgain
<1>4. CASE IsData(packet) /\ packet.from \in Known(n) /\ HearWhole(n, packet)
  BY <1>4, HearWholeOK
<1>5. CASE IsData(packet) /\ packet.from \in Known(n) /\ HearFragment(n, packet)
  BY <1>5, HearFragmentOK
<1>6. CASE packet.type = "ACK" /\ HearAck(n, packet)
  BY <1>6, HearAckOK
<1>7. CASE packet.type = "NACK" /\ HearNack(n, packet)
  BY <1>7, HearNackOK
<1>8. CASE Irrelevant(n, packet) /\ UNCHANGED <<target, send_queue, history>>
  BY <1>8, NothingChanges
<1> QED BY <1>1, <1>2, <1>3, <1>4, <1>5, <1>6, <1>7, <1>8 DEF Handle

-----------------------------------------------------------------------------
(* What is sent.                                                           *)

LEMMA AddressOK ==
  ASSUME Types, NEW n \in Nodes
  PROVE  Address(n) \in Addresses /\ Address(n)[1] = n
  BY DEF Types, Address, Addresses

\* A packet of a fragment of a message says what its sender knows.
LEMMA DataPacketOK ==
  ASSUME Types, NEW n \in Nodes, NEW type \in {"DATA", "DATA_RETRANSMISSION"}, NEW m \in Messages,
         NEW id \in Ids, NEW ids, SentAs(m, n, id, ids), NEW i \in Fragments(m)
  PROVE  \A p, g : PacketOK(p, Data(n, type, m, id, i), g, ids)
<1>1. PICK x : x = Data(n, type, m, id, i)
  OBVIOUS
<1>2. /\ x = [type |-> type, from |-> Address(n), socket |-> DataSocket(type, m), held |-> FALSE, id |-> id,
              no |-> i, msg |-> m, count |-> scenario.count[m], reliable |-> scenario.reliable[m]]
      /\ scenario \in Scenarios
  BY <1>1 DEF Data, Types
<1>3. /\ scenario.count[m] \in Nat /\ scenario.reliable[m] \in BOOLEAN /\ i \in Nat
      /\ DataSocket(type, m) \in Sockets
  BY <1>2, Scenery, MessageParts DEF DataSocket, Sockets
<1>4. x \in [type : {"DATA", "DATA_RETRANSMISSION"}, from : Addresses, socket : Sockets, held : BOOLEAN,
             id : Ids, no : Nat, msg : Messages, count : Nat, reliable : BOOLEAN]
  BY <1>2, <1>3, AddressOK
<1>5. x \in Packets
  BY <1>4 DEF Packets
<1>6. DataOK(x, ids) /\ x.type \notin {"ACK", "NACK"}
  <2>1. /\ x.msg = m /\ x.from = Address(n) /\ x.id = id /\ x.no = i /\ x.type = type
        /\ x.count = scenario.count[m] /\ x.reliable = scenario.reliable[m]
    BY <1>2
  <2> QED BY <2>1, AddressOK DEF DataOK
<1> QED BY <1>1, <1>5, <1>6 DEF PacketOK

\* So do the packets that fragments are cut into.
LEMMA CutStream ==
  ASSUME Types, NEW n \in Nodes, NEW type \in {"DATA", "DATA_RETRANSMISSION"}, NEW messages, NEW ids,
         NEW S, IsFiniteSet(S), S \subseteq Ids \X Nat,
         \A d \in S : /\ messages[d[1]] \in Messages /\ SentAs(messages[d[1]], n, d[1], ids)
                      /\ d[2] \in Fragments(messages[d[1]])
  PROVE  \A p, g : StreamOK(p, Cut(n, type, messages, S), g, ids)
<1>1. PICK s : s = Cut(n, type, messages, S)
  OBVIOUS
<1>2. S \subseteq Nat \X Nat
  BY Scenery DEF Types
<1>3. /\ s = [k \in 1 .. Len(s) |-> s[k]] /\ Len(s) \in Nat
      /\ \A k \in 1 .. Len(s) : \E d \in S : s[k] = Data(n, type, messages[d[1]], d[1], d[2])
  BY <1>1, <1>2, CutOK
<1>4. ASSUME NEW k \in 1 .. Len(s) PROVE \A p, g : PacketOK(p, s[k], g, ids)
  <2>1. PICK d \in S : s[k] = Data(n, type, messages[d[1]], d[1], d[2])
    BY <1>3
  <2>2. d[1] \in Ids
    OBVIOUS
  <2>3. \A p, g : PacketOK(p, Data(n, type, messages[d[1]], d[1], d[2]), g, ids)
    BY <2>2, DataPacketOK
  <2> QED BY <2>1, <2>3
<1>5. s \in Seq(Packets)
  <2>1. \A k \in 1 .. Len(s) : s[k] \in Packets
    BY <1>4 DEF PacketOK
  <2>2. s \in [1 .. Len(s) -> Packets]
    BY <1>3, <2>1
  <2> QED BY <1>3, <2>2
<1> QED BY <1>1, <1>4, <1>5 DEF StreamOK

LEMMA OnePacket ==
  ASSUME NEW p, NEW x, NEW g, NEW ids, PacketOK(p, x, g, ids)
  PROVE  StreamOK(p, <<x>>, g, ids)
<1>1. x \in Packets
  BY DEF PacketOK
<1>2. <<x>> \in Seq(Packets) /\ Len(<<x>>) = 1 /\ <<x>>[1] = x
  BY <1>1
<1>3. \A k \in 1 .. Len(<<x>>) : k = 1
  BY <1>2
<1> QED BY <1>2, <1>3 DEF StreamOK

LEMMA AnnounceOK ==
  ASSUME Types, NEW n \in Nodes
  PROVE  \A p, g, ids : /\ PacketOK(p, LeavePacket(n), g, ids)
                        /\ \A socket \in Sockets : /\ PacketOK(p, Announce(n, socket), g, ids)
                                                   /\ StreamOK(p, <<Announce(n, socket)>>, g, ids)
<1>1. ASSUME NEW type \in {"ANNOUNCE", "LEAVE"}, NEW socket \in Sockets, NEW p, NEW g, NEW ids
      PROVE  PacketOK(p, [type |-> type, from |-> Address(n), socket |-> socket, held |-> FALSE], g, ids)
  <2>1. PICK x : x = [type |-> type, from |-> Address(n), socket |-> socket, held |-> FALSE]
    OBVIOUS
  <2>2. /\ x \in [type : {"ANNOUNCE", "LEAVE"}, from : Addresses, socket : Sockets, held : BOOLEAN]
        /\ x.type \in {"ANNOUNCE", "LEAVE"}
    BY <2>1, AddressOK
  <2>3. x \in Packets /\ ~IsData(x) /\ x.type \notin {"ACK", "NACK"}
    BY <2>2 DEF Packets, IsData
  <2> QED BY <2>1, <2>3 DEF PacketOK
<1>2. ASSUME NEW p, NEW g, NEW ids PROVE PacketOK(p, LeavePacket(n), g, ids)
  BY <1>1 DEF LeavePacket, Sockets
<1>3. ASSUME NEW p, NEW g, NEW ids, NEW socket \in Sockets PROVE PacketOK(p, Announce(n, socket), g, ids)
  BY <1>1 DEF Announce
<1>4. ASSUME NEW p, NEW g, NEW ids, NEW socket \in Sockets PROVE StreamOK(p, <<Announce(n, socket)>>, g, ids)
  BY <1>3, OnePacket
<1> QED BY <1>2, <1>3, <1>4

\* An acknowledgement tells what its sender has received of one message.
LEMMA AckPacketOK ==
  ASSUME Types, NEW n \in Nodes, NEW packet \in Packets, IsData(packet), DataOK(packet, id_of),
         NEW bits, bits \subseteq Nat, NEW g
  PROVE  /\ PacketOK(packet.from[1], Nack(n, packet, bits), g, id_of)
         /\ /\ bits \subseteq 0 .. packet.count - 1
            /\ IsFresh(id_of) => \A f \in bits : <<f, packet.msg>> \in g[n]
            => PacketOK(packet.from[1], Ack(n, packet, bits), g, id_of)
<1>1. /\ packet.id \in Ids /\ packet.count \in Nat /\ packet.msg \in Messages
      /\ SentAs(packet.msg, packet.from[1], packet.id, id_of) /\ packet.count = scenario.count[packet.msg]
  BY PacketFields DEF DataOK
<1>2. PICK x : x = Ack(n, packet, bits)
  OBVIOUS
<1>3. PICK y : y = Nack(n, packet, bits)
  OBVIOUS
<1>4. /\ x = [type |-> "ACK", from |-> Address(n), socket |-> "data_fd", held |-> FALSE, id |-> packet.id,
              count |-> packet.count, bits |-> bits]
      /\ y = [type |-> "NACK", from |-> Address(n), socket |-> "data_fd", held |-> FALSE, id |-> packet.id,
              count |-> packet.count, bits |-> bits]
  BY <1>2, <1>3 DEF Ack, Nack
<1>5. {x, y} \subseteq [type : {"ACK", "NACK"}, from : Addresses, socket : Sockets, held : BOOLEAN,
                       id : Ids, count : Nat, bits : SUBSET Nat]
  BY <1>1, <1>4, AddressOK DEF Sockets
<1>6. x \in Packets /\ y \in Packets
  BY <1>5 DEF Packets
<1>7. y.type = "NACK" /\ y.id = packet.id /\ y.count = packet.count
  BY <1>4
<1>8. PacketOK(packet.from[1], y, g, id_of)
  BY <1>1, <1>6, <1>7 DEF PacketOK, AckOK, IsData
<1>9. x.type = "ACK" /\ x.id = packet.id /\ x.count = packet.count /\ x.bits = bits /\ x.from[1] = n
  BY <1>4, AddressOK
<1>10. ASSUME bits \subseteq 0 .. packet.count - 1,
              IsFresh(id_of) => \A f \in bits : <<f, packet.msg>> \in g[n]
       PROVE  PacketOK(packet.from[1], x, g, id_of)
  BY <1>1, <1>6, <1>9, <1>10 DEF PacketOK, AckOK, IsData
<1> QED BY <1>2, <1>3, <1>8, <1>10

\* A message that is repeated has come whole.
LEMMA RepeatedIsWhole ==
  ASSUME scenario \in Scenarios, NEW n \in Nodes, NEW packet \in Packets, IsData(packet), NEW g, NEW ids,
         NEW t, TargetOK(n, packet.from, t, g, ids), DataOK(packet, ids), Repeated(t, packet), IsFresh(ids)
  PROVE  Whole(n, packet.msg, g)
<1>1. packet.id \in Ids /\ packet.msg \in Messages /\ SentAs(packet.msg, packet.from[1], packet.id, ids)
  BY PacketFields DEF DataOK
<1>2. PICK k \in DOMAIN t.recent : t.recent[k] = packet.id
  BY DEF Repeated
<1>3. k \in 0 .. scenario.ring - 1 /\ t.recent[k] # Invalid
  BY <1>1, <1>2, Scenery DEF TargetOK
<1>4. PICK m \in Messages : SentAs(m, packet.from[1], packet.id, ids) /\ Whole(n, m, g)
  BY <1>2, <1>3 DEF TargetOK
<1>5. m = packet.msg
  BY <1>1, <1>4, Scenery DEF IsFresh, SentAs
<1> QED BY <1>4, <1>5

\* What answers a packet of data is true of what has been received with it.
LEMMA AnswerOK ==
  ASSUME NEW n, NEW packet, Handles(n, packet), IsData(packet), packet.from \in Known(n),
         Handle(n, packet)
  PROVE  StreamOK(packet.from[1], Answer(n, packet), got', id_of)
<1>1. /\ Types /\ scenario \in Scenarios /\ n \in Nodes /\ packet \in Packets
      /\ packet.from \in Addresses /\ packet.msg \in Messages /\ DataOK(packet, id_of)
      /\ packet.no \in Nat /\ packet.id \in Ids /\ packet.count = scenario.count[packet.msg]
      /\ SentAs(packet.msg, packet.from[1], packet.id, id_of)
      /\ \A b \in Knows(target, n) : TargetOK(n, b, target[n][b], got, id_of)
  BY PacketFields DEF Handles, Inv, Types, Tables, PacketOK, DataOK
<1>2. PICK t : t = target[n][packet.from]
  OBVIOUS
<1>3. PICK p : p = packet.from[1]
  OBVIOUS
<1>4. TargetOK(n, packet.from, t, got, id_of) /\ TargetOK(n, packet.from, t, got', id_of)
      /\ Growth(got, got', id_of, id_of)
  <2>1. Growth(got, got', id_of, id_of)
    BY HandleOK DEF Handled
  <2>2. TargetOK(n, packet.from, t, got, id_of)
    BY <1>1, <1>2, KnownKnows
  <2> QED BY <1>1, <2>1, <2>2, TargetGrows
<1>5. ~Repeated(t, packet) => <<packet.no, packet.msg>> \in got'[n]
                              /\ (packet.count = 1 => Whole(n, packet.msg, got'))
  <2> SUFFICES ASSUME ~Repeated(t, packet)
               PROVE  <<packet.no, packet.msg>> \in got'[n]
                      /\ (packet.count = 1 => Whole(n, packet.msg, got'))
    OBVIOUS
  <2>1. HearWhole(n, packet) \/ HearFragment(n, packet)
    BY <1>2 DEF Handle, HearAgain, Irrelevant, IsData
  <2>2. CASE HearWhole(n, packet)
    <3>1. packet.count = 1 /\ got' = [got EXCEPT ![n] = @ \cup {<<0, packet.msg>>}]
      BY <2>2 DEF HearWhole
    <3>2. <<0, packet.msg>> \in got'[n]
      BY <3>1, ReceivedOK
    <3>3. Fragments(packet.msg) = {0} /\ packet.no = 0
      BY <1>1, <3>1 DEF DataOK, Fragments
    <3> QED BY <3>2, <3>3 DEF Whole
  <2>3. CASE HearFragment(n, packet)
    <3>1. packet.count > 1 /\ got' = [got EXCEPT ![n] = @ \cup {<<packet.no, packet.msg>>}]
      BY <2>3 DEF HearFragment
    <3>2. <<packet.no, packet.msg>> \in got'[n]
      BY <1>1, <3>1, ReceivedOK
    <3> QED BY <3>1, <3>2
  <2> QED BY <2>1, <2>2, <2>3
<1>6. 0 .. packet.count - 1 = Fragments(packet.msg) /\ 0 .. packet.count - 1 \subseteq Nat
  BY <1>1, MessageParts DEF Fragments
<1>7. Repeated(t, packet) \/ packet.count = 1 =>
        PacketOK(p, Ack(n, packet, 0 .. packet.count - 1), got', id_of)
  <2>1. Repeated(t, packet) \/ packet.count = 1 => (IsFresh(id_of) => Whole(n, packet.msg, got'))
    BY <1>1, <1>4, <1>5, RepeatedIsWhole
  <2>2. Repeated(t, packet) \/ packet.count = 1 =>
          (IsFresh(id_of) => \A f \in 0 .. packet.count - 1 : <<f, packet.msg>> \in got'[n])
    BY <1>6, <2>1 DEF Whole
  <2> QED BY <1>1, <1>3, <1>6, <2>2, AckPacketOK
<1>8. ~Repeated(t, packet) => PacketOK(p, Ack(n, packet, Numbers(Assembled(t, packet))), got', id_of)
  <2> SUFFICES ASSUME ~Repeated(t, packet)
               PROVE  PacketOK(p, Ack(n, packet, Numbers(Assembled(t, packet))), got', id_of)
    OBVIOUS
  <2>1. PICK parts : parts = Assembled(t, packet)
    OBVIOUS
  <2>2. /\ parts \subseteq Parts
        /\ \A r \in parts : PartOK(n, p, packet.id, r, got', id_of) /\ r[1] < packet.count
    BY <1>1, <1>3, <1>4, <1>5, <2>1, AssembledOK DEF Assemblies
  <2>3. \A r \in parts : r = <<r[1], r[2]>> /\ r[1] \in Nat /\ r[2] \in Messages
                         /\ SentAs(r[2], p, packet.id, id_of) /\ r \in got'[n]
    BY <2>2 DEF Parts, PartOK
  <2>4. packet.count \in Nat
    BY <1>1, Scenery
  <2>5. \A r \in parts : r[1] \in 0 .. packet.count - 1
    BY <2>2, <2>3, <2>4
  <2>6. IsFresh(id_of) => \A r \in parts : r[2] = packet.msg
    BY <1>1, <1>3, <2>3, Scenery DEF IsFresh, SentAs
  <2>7. PICK bits : bits = Numbers(parts)
    OBVIOUS
  <2>8. \A f \in bits : \E r \in parts : f = r[1]
    BY <2>7 DEF Numbers
  <2>9. bits \subseteq 0 .. packet.count - 1 /\ bits \subseteq Nat
    BY <2>5, <2>8
  <2>10. IsFresh(id_of) => \A f \in bits : <<f, packet.msg>> \in got'[n]
    BY <2>3, <2>6, <2>8
  <2> QED BY <1>1, <1>3, <2>1, <2>7, <2>9, <2>10, AckPacketOK
<1>9. PacketOK(p, Nack(n, packet, Numbers(Held(t, packet)) \ {packet.no}), got', id_of)
  <2>1. \A r \in Held(t, packet) : r[1] \in Nat
    BY <1>1, <1>4 DEF Held, TargetOK, Assemblies, Parts
  <2>2. Numbers(Held(t, packet)) \ {packet.no} \subseteq Nat
    BY <2>1 DEF Numbers
  <2> QED BY <1>1, <1>3, <2>2, AckPacketOK
<1>10. CASE ~packet.reliable
  <2>1. Answer(n, packet) = <<>>
    BY <1>10 DEF Answer
  <2> QED BY <2>1 DEF StreamOK
<1>11. CASE packet.reliable /\ (Repeated(t, packet) \/ packet.count = 1)
  <2>1. Answer(n, packet) = <<Ack(n, packet, 0 .. packet.count - 1)>>
    BY <1>2, <1>11 DEF Answer
  <2> QED BY <1>3, <1>7, <1>11, <2>1, OnePacket
<1>12. CASE packet.reliable /\ ~(Repeated(t, packet) \/ packet.count = 1)
  <2>1. PICK x : x = Ack(n, packet, Numbers(Assembled(t, packet)))
    OBVIOUS
  <2>2. PICK y : y = Nack(n, packet, Numbers(Held(t, packet)) \ {packet.no})
    OBVIOUS
  <2>3. Answer(n, packet) = IF Confused(t, packet) THEN <<y, x>> ELSE <<x>>
    BY <1>2, <1>12, <2>1, <2>2 DEF Answer
  <2>4. PacketOK(p, x, got', id_of) /\ PacketOK(p, y, got', id_of)
    BY <1>8, <1>9, <1>12, <2>1, <2>2
  <2>5. x \in Packets /\ y \in Packets
    BY <2>4 DEF PacketOK
  <2>6. <<y, x>> \in Seq(Packets) /\ Len(<<y, x>>) = 2 /\ <<y, x>>[1] = y /\ <<y, x>>[2] = x
    BY <2>5
  <2>7. \A k \in 1 .. Len(<<y, x>>) : k = 1 \/ k = 2
    BY <2>6
  <2>8. StreamOK(p, <<y, x>>, got', id_of)
    BY <2>4, <2>6, <2>7 DEF StreamOK
  <2>9. StreamOK(p, <<x>>, got', id_of)
    BY <2>4, OnePacket
  <2> QED BY <1>3, <2>3, <2>8, <2>9
<1> QED BY <1>10, <1>11, <1>12

\* What a handler sends back is sound, whatever it heard.
LEMMA ReplyOK ==
  ASSUME NEW n, NEW packet, Handles(n, packet), Handle(n, packet)
  PROVE  StreamOK(packet.from[1], Reply(n, packet), got', id_of)
<1>1. Types /\ n \in Nodes /\ packet \in Packets /\ scenario \in Scenarios
  BY DEF Handles, Inv, Types
<1>2. CASE packet.type = "ANNOUNCE" /\ packet.from \notin Known(n)
  <2>1. Reply(n, packet) = <<Announce(n, "data_fd")>>
    BY <1>2 DEF Reply
  <2> QED BY <1>1, <2>1, AnnounceOK DEF Sockets
<1>3. CASE IsData(packet) /\ packet.from \in Known(n)
  <2>1. Reply(n, packet) = Answer(n, packet)
    BY <1>3 DEF Reply
  <2> QED BY <1>3, <2>1, AnswerOK
<1>4. CASE packet.type = "NACK" /\ Relevant(n, packet)
  <2>1. Reply(n, packet) = Cut(n, "DATA_RETRANSMISSION", Queued(n), {packet.id} \X Resent(packet))
    BY <1>4 DEF Reply, IsData
  <2>2. PICK q : q = send_queue[n][packet.id]
    OBVIOUS
  <2>3. /\ packet.id \in Ids /\ q # Free /\ q.msg \in Messages /\ SentAs(q.msg, n, packet.id, id_of)
        /\ packet.count = scenario.count[q.msg]
    BY <1>4, <2>2, RelevantEntry
  <2>4. Queued(n)[packet.id] = q.msg
    BY <2>2, <2>3 DEF Queued, Used
  <2>5. packet.count \in Nat \ {0}
    BY <1>1, <2>3, Scenery
  <2>6. packet.count \div ByteBits \in 0 .. packet.count - 1
    <3>1. PICK c \in Nat \ {0} : c = packet.count
      BY <2>5
    <3>2. ByteBits \in Nat /\ ByteBits >= 2
      BY NetworkAssumption
    <3>3. PICK d \in Nat : d = c \div ByteBits
      BY <3>2
    <3>4. ByteBits * d <= c
      BY <3>2, <3>3
    <3>5. 2 * d <= ByteBits * d
      BY <3>2
    <3>6. ByteBits * d \in Nat
      BY <3>2
    <3>7. 2 * d <= c
      BY <3>4, <3>5, <3>6
    <3> QED BY <3>1, <3>3, <3>7
  <2>7. Resent(packet) \subseteq Fragments(q.msg)
    <3>1. Resent(packet) \subseteq 0 .. packet.count \div ByteBits
      BY DEF Resent
    <3> QED BY <2>3, <2>5, <2>6, <3>1 DEF Fragments
  <2>8. PICK S : S = {packet.id} \X Resent(packet)
    OBVIOUS
  <2>9. IsFiniteSet(S) /\ S \subseteq Ids \X Nat
    <3>1. IsFiniteSet(Resent(packet)) /\ Resent(packet) \subseteq Nat
      BY <1>1, <2>3, <2>7, MessageParts, FS_Subset
    <3>2. IsFiniteSet({packet.id})
      BY FS_Singleton
    <3> QED BY <2>3, <2>8, <3>1, <3>2, FS_Product
  <2>10. \A d \in S : d[1] = packet.id /\ d[2] \in Fragments(q.msg)
    BY <2>7, <2>8
  <2>11. \A d \in S : /\ Queued(n)[d[1]] \in Messages /\ SentAs(Queued(n)[d[1]], n, d[1], id_of)
                      /\ d[2] \in Fragments(Queued(n)[d[1]])
    BY <2>3, <2>4, <2>10
  <2>12. \A p, g : StreamOK(p, Cut(n, "DATA_RETRANSMISSION", Queued(n), S), g, id_of)
    <3>1. PICK messages : messages = Queued(n)
      OBVIOUS
    <3> QED BY <1>1, <2>9, <2>11, <3>1, CutStream
  <2> QED BY <2>1, <2>8, <2>12
<1>5. CASE ~(\/ packet.type = "ANNOUNCE" /\ packet.from \notin Known(n)
             \/ IsData(packet) /\ packet.from \in Known(n)
             \/ packet.type = "NACK" /\ Relevant(n, packet))
  <2>1. Reply(n, packet) = <<>>
    BY <1>5 DEF Reply
  <2> QED BY <2>1 DEF StreamOK
<1> QED BY <1>2, <1>3, <1>4, <1>5

-----------------------------------------------------------------------------
(* The steps.                                                              *)

\* The scenario never changes, so that the invariant after a step can be said of
\* the scenario before it.
LEMMA SameScenario ==
  ASSUME scenario' = scenario, Types',
         Tables(target', send_queue', got', id_of'), Deliveries(delivered', once', corrupt', id_of'),
         Packeted(net', got', id_of')
  PROVE  Inv'
<1>1. Ids' = Ids
  BY DEF Ids
<1>2. \A m : Fragments(m)' = Fragments(m)
  BY DEF Fragments
<1>3. \A ids : IsFresh(ids)' <=> IsFresh(ids)
  BY DEF IsFresh
<1>4. \A m, n, i, ids : SentAs(m, n, i, ids)' <=> SentAs(m, n, i, ids)
  BY DEF SentAs
<1>5. \A n, m, g : Whole(n, m, g)' <=> Whole(n, m, g)
  BY <1>2 DEF Whole
<1>6. \A n, q, i, p, g, ids : PartOK(n, q, i, p, g, ids)' <=> PartOK(n, q, i, p, g, ids)
  BY <1>2, <1>4 DEF PartOK
<1>7. \A n, a, t, g, ids : TargetOK(n, a, t, g, ids)' <=> TargetOK(n, a, t, g, ids)
  BY <1>1, <1>3, <1>4, <1>5, <1>6 DEF TargetOK
<1>8. \A a, m, acked, K, g, ids : EntryOK(a, m, acked, K, g, ids)' <=> EntryOK(a, m, acked, K, g, ids)
  BY <1>2, <1>3 DEF EntryOK
<1>9. \A n, i, q, K, g, ids : QueueOK(n, i, q, K, g, ids)' <=> QueueOK(n, i, q, K, g, ids)
  BY <1>4, <1>8 DEF QueueOK
<1>10. Tables(target, send_queue, got, id_of)'
  BY <1>1, <1>7, <1>9 DEF Tables, Knows
<1>11. Deliveries(delivered, once, corrupt, id_of)'
  BY <1>3 DEF Deliveries
<1>12. Packets' = Packets
  BY <1>1 DEF Packets
<1>13. \A p, packet, g, ids : PacketOK(p, packet, g, ids)' <=> PacketOK(p, packet, g, ids)
  BY <1>2, <1>3, <1>4, <1>12 DEF PacketOK, DataOK, AckOK, IsData
<1>14. \A p, s, g, ids : StreamOK(p, s, g, ids)' <=> StreamOK(p, s, g, ids)
  BY <1>12, <1>13 DEF StreamOK
<1>15. Packeted(net, got, id_of)'
  BY <1>12, <1>14 DEF Packeted
<1> QED BY <1>10, <1>11, <1>15 DEF Inv

\* Packets that are on their way stay sound as more is received and sent.
LEMMA PacketsGrow ==
  ASSUME scenario \in Scenarios, NEW g, NEW h, NEW ids, NEW jds, Growth(g, h, ids, jds),
         Packeted(net, g, ids)
  PROVE  Packeted(net, h, jds)
  BY StreamGrows DEF Packeted

\* What the network does to the packets of one node leaves the others sound.
LEMMA OneSender ==
  ASSUME NEW n \in Nodes, NEW w, NEW g, NEW ids, Packeted(w, g, ids),
         NEW row, row = [p \in Nodes |-> row[p]], \A p \in Nodes : StreamOK(p, row[p], g, ids)
  PROVE  Packeted([w EXCEPT ![n] = row], g, ids)
<1>1. w \in [Nodes -> [Nodes -> Seq(Packets)]] /\ \A q, p \in Nodes : StreamOK(p, w[q][p], g, ids)
  BY DEF Packeted
<1>2. row \in [Nodes -> Seq(Packets)]
  <2>1. \A p \in Nodes : row[p] \in Seq(Packets)
    BY DEF StreamOK
  <2> QED BY <2>1
<1>3. PICK v : v = [w EXCEPT ![n] = row]
  OBVIOUS
<1>4. v \in [Nodes -> [Nodes -> Seq(Packets)]] /\ \A q \in Nodes : v[q] = IF q = n THEN row ELSE w[q]
  BY <1>1, <1>2, <1>3
<1>5. \A q, p \in Nodes : StreamOK(p, v[q][p], g, ids)
  BY <1>1, <1>4
<1> QED BY <1>3, <1>4, <1>5 DEF Packeted

LEMMA TransmitOK ==
  ASSUME scenario \in Scenarios, NEW n \in Nodes, NEW g, NEW ids, Packeted(net, g, ids), NEW sent,
         \A p \in Nodes : StreamOK(p, sent[p], g, ids), Transmit(n, sent)
  PROVE  Packeted(net', g, ids)
<1>1. PICK row : row = [p \in Nodes |-> Fit(net[n][p] \o sent[p])]
  OBVIOUS
<1>2. net' = [net EXCEPT ![n] = row]
  BY <1>1 DEF Transmit
<1>3. \A p \in Nodes : StreamOK(p, net[n][p], g, ids)
  BY DEF Packeted
<1>4. \A p \in Nodes : StreamOK(p, row[p], g, ids)
  BY <1>1, <1>3, Streams
<1> QED BY <1>1, <1>2, <1>4, OneSender

\* The state after a step that leaves the scenario and the ports alone.
LEMMA StepOK ==
  ASSUME Inv, UNCHANGED <<scenario, port, packet_id_source, unsent, id_of>>,
         Tables(target', send_queue', got', id_of), Deliveries(delivered', once', corrupt', id_of),
         Packeted(net', got', id_of)
  PROVE  Inv'
<1>1. Types'
  <2>1. Ids' = Ids
    BY DEF Ids
  <2> QED BY <2>1 DEF Inv, Types
<1> QED BY <1>1, SameScenario

LEMMA AnnounceSelfOK ==
  ASSUME Inv, NEW n \in Nodes, AnnounceSelf(n)
  PROVE  Inv'
<1>1. /\ Types /\ scenario \in Scenarios /\ Packeted(net, got, id_of)
      /\ Tables(target, send_queue, got, id_of) /\ Deliveries(delivered, once, corrupt, id_of)
  BY DEF Inv, Types
<1>2. Transmit(n, Multicast(n, <<Announce(n, "announce_fd")>>))
      /\ UNCHANGED <<scenario, port, target, send_queue, packet_id_source, unsent, got, delivered, once,
                     corrupt, id_of>>
  BY DEF AnnounceSelf, history
<1>3. \A p \in Nodes : StreamOK(p, Multicast(n, <<Announce(n, "announce_fd")>>)[p], got, id_of)
  <2>1. \A p : StreamOK(p, <<>>, got, id_of)
    BY DEF StreamOK
  <2> QED BY <1>1, <2>1, AnnounceOK DEF Multicast, Sockets
<1>4. Packeted(net', got, id_of)
  <2>1. PICK sent : sent = Multicast(n, <<Announce(n, "announce_fd")>>)
    OBVIOUS
  <2> QED BY <1>1, <1>2, <1>3, <2>1, TransmitOK
<1> QED BY <1>1, <1>2, <1>4, StepOK

LEMMA TimeOutOK ==
  ASSUME Inv, NEW n \in Nodes, TimeOut(n)
  PROVE  Inv'
<1>1. PICK S \in SUBSET Known(n) \ {{}} : Forget(n, S)
  BY DEF TimeOut
<1>2. UNCHANGED <<scenario, port, packet_id_source, net, unsent, got, delivered, corrupt, id_of>>
  BY DEF TimeOut
<1>3. Handled
  BY <1>1, <1>2, ForgetOK
<1>4. Packeted(net', got', id_of)
  BY <1>2 DEF Inv
<1> QED BY <1>2, <1>3, <1>4, StepOK DEF Handled

LEMMA LoseOK ==
  ASSUME Inv, NEW n \in Nodes, NEW q \in Nodes, Lose(n, q)
  PROVE  Inv'
<1>1. /\ scenario \in Scenarios /\ net \in [Nodes -> [Nodes -> Seq(Packets)]]
      /\ \A p \in Nodes : StreamOK(p, net[q][p], got, id_of) /\ Packeted(net, got, id_of)
      /\ Tables(target, send_queue, got, id_of) /\ Deliveries(delivered, once, corrupt, id_of)
  BY DEF Inv, Types, Packeted
<1>2. UNCHANGED <<scenario, port, target, send_queue, packet_id_source, unsent, got, delivered, once,
                  corrupt, id_of>>
      /\ net' = [net EXCEPT ![q][n] = Tail(@)] /\ net[q][n] # <<>>
  BY DEF Lose, history
<1>3. PICK row : row = [net[q] EXCEPT ![n] = Tail(net[q][n])]
  OBVIOUS
<1>4. net' = [net EXCEPT ![q] = row] /\ row = [p \in Nodes |-> row[p]]
      /\ \A p \in Nodes : row[p] = IF p = n THEN Tail(net[q][n]) ELSE net[q][p]
  BY <1>1, <1>2, <1>3
<1>5. StreamOK(n, Tail(net[q][n]), got, id_of)
  BY <1>1, <1>2, Streams
<1>6. \A p \in Nodes : StreamOK(p, row[p], got, id_of)
  BY <1>1, <1>4, <1>5
<1>7. Packeted(net', got, id_of)
  BY <1>1, <1>4, <1>6, OneSender
<1> QED BY <1>1, <1>2, <1>7, StepOK

\* A packet in a thread's hand is sound as it was on its way.
LEMMA HeldOK ==
  ASSUME NEW p, NEW x, NEW g, NEW ids, PacketOK(p, x, g, ids)
  PROVE  PacketOK(p, [x EXCEPT !.held = TRUE], g, ids)
<1>1. PICK y : y = [x EXCEPT !.held = TRUE]
  OBVIOUS
<1>2. x \in Packets
  BY DEF PacketOK
<1>3. /\ y \in Packets /\ y.type = x.type /\ y.from = x.from
      /\ IsData(x) => y.id = x.id /\ y.no = x.no /\ y.msg = x.msg /\ y.count = x.count /\ y.reliable = x.reliable
      /\ x.type \in {"ACK", "NACK"} => y.id = x.id /\ y.count = x.count /\ y.bits = x.bits
  <2>1. CASE x \in [type : {"ANNOUNCE", "LEAVE"}, from : Addresses, socket : Sockets, held : BOOLEAN]
    BY <1>1, <2>1 DEF Packets, IsData
  <2>2. CASE x \in [type : {"DATA", "DATA_RETRANSMISSION"}, from : Addresses, socket : Sockets, held : BOOLEAN,
                    id : Ids, no : Nat, msg : Messages, count : Nat, reliable : BOOLEAN]
    BY <1>1, <2>2 DEF Packets, IsData
  <2>3. CASE x \in [type : {"ACK", "NACK"}, from : Addresses, socket : Sockets, held : BOOLEAN,
                    id : Ids, count : Nat, bits : SUBSET Nat]
    BY <1>1, <2>3 DEF Packets, IsData
  <2> QED BY <1>2, <2>1, <2>2, <2>3 DEF Packets
<1>4. IsData(x) => DataOK(y, ids)
  BY <1>3 DEF PacketOK, DataOK
<1>5. x.type \in {"ACK", "NACK"} => AckOK(p, y, g, ids)
  BY <1>3 DEF PacketOK, AckOK
<1> QED BY <1>1, <1>3, <1>4, <1>5 DEF PacketOK, IsData

LEMMA LookOK ==
  ASSUME Inv, NEW n \in Nodes, NEW q \in Nodes, Look(n, q)
  PROVE  Inv'
<1>1. /\ scenario \in Scenarios /\ net \in [Nodes -> [Nodes -> Seq(Packets)]]
      /\ \A p \in Nodes : StreamOK(p, net[q][p], got, id_of) /\ Packeted(net, got, id_of)
      /\ Tables(target, send_queue, got, id_of) /\ Deliveries(delivered, once, corrupt, id_of)
  BY DEF Inv, Types, Packeted
<1>2. UNCHANGED <<scenario, port, target, send_queue, packet_id_source, unsent, got, delivered, once,
                  corrupt, id_of>>
  BY DEF Look, history
<1>3. PICK k \in 1 .. Len(net[q][n]) : net' = [net EXCEPT ![q][n][k].held = TRUE]
  BY DEF Look, Readable
<1>4. PICK s : s = [net[q][n] EXCEPT ![k] = [net[q][n][k] EXCEPT !.held = TRUE]]
  OBVIOUS
<1>5. StreamOK(n, s, got, id_of)
  <2>1. net[q][n] \in Seq(Packets) /\ \A j \in 1 .. Len(net[q][n]) : PacketOK(n, net[q][n][j], got, id_of)
    BY <1>1 DEF StreamOK
  <2>2. \A j \in 1 .. Len(net[q][n]) : PacketOK(n, s[j], got, id_of)
    BY <1>4, <2>1, HeldOK
  <2>3. s \in Seq(Packets) /\ Len(s) = Len(net[q][n])
    <3>1. PICK z \in Seq(Packets) : z = net[q][n]
      BY <2>1
    <3>2. PICK y : y = [z[k] EXCEPT !.held = TRUE]
      OBVIOUS
    <3>3. s = [z EXCEPT ![k] = y] /\ k \in 1 .. Len(z)
      BY <1>3, <1>4, <3>1, <3>2
    <3>4. s[k] = y
      BY <3>1, <3>3
    <3>5. y \in Packets
      BY <1>3, <2>2, <3>4 DEF PacketOK
    <3> QED BY <3>1, <3>3, <3>5
  <2> QED BY <2>2, <2>3 DEF StreamOK
<1>6. PICK row : row = [net[q] EXCEPT ![n] = s]
  OBVIOUS
<1>7. net' = [net EXCEPT ![q] = row] /\ row = [p \in Nodes |-> row[p]]
      /\ \A p \in Nodes : row[p] = IF p = n THEN s ELSE net[q][p]
  BY <1>1, <1>3, <1>4, <1>6
<1>8. \A p \in Nodes : StreamOK(p, row[p], got, id_of)
  BY <1>1, <1>5, <1>7
<1>9. Packeted(net', got, id_of)
  BY <1>1, <1>7, <1>8, OneSender
<1> QED BY <1>1, <1>2, <1>9, StepOK

\* A packet that is read is sound, and so is what answers it.
LEMMA ReceiveOneOK ==
  ASSUME Inv, NEW n \in Nodes, NEW q \in Nodes, NEW again \in BOOLEAN, ReceiveOne(n, q, again)
  PROVE  Inv'
<1>1. /\ Types /\ scenario \in Scenarios /\ net \in [Nodes -> [Nodes -> Seq(Packets)]]
      /\ \A r, p \in Nodes : StreamOK(p, net[r][p], got, id_of) /\ Packeted(net, got, id_of)
  BY DEF Inv, Types, Packeted
<1>2. Len(net[q][n]) \in Nat
  BY <1>1
<1>3. PICK k \in 1 .. Len(net[q][n]) :
        LET packet == net[q][n][k]
            left == IF again THEN net[q] ELSE [net[q] EXCEPT ![n] = RemoveAt(@, k)]
            sent == SendTo(packet.from, Reply(n, packet))
        IN /\ Handle(n, packet)
           /\ net' = [net EXCEPT ![q] = left, ![n] = [p \in Nodes |-> Fit(net[n][p] \o sent[p])]]
  BY <1>2 DEF ReceiveOne, Readable
<1>4. UNCHANGED <<scenario, port, packet_id_source, unsent, id_of>>
  BY DEF ReceiveOne
<1>5. PICK packet : packet = net[q][n][k]
  OBVIOUS
<1>6. Handles(n, packet) /\ Handle(n, packet) /\ packet \in Packets
  <2>1. PacketOK(n, packet, got, id_of)
    BY <1>1, <1>3, <1>5 DEF StreamOK
  <2> QED BY <1>3, <1>5, <2>1 DEF Handles, PacketOK
<1>7. Handled
  BY <1>6, HandleOK
<1>8. Growth(got, got', id_of, id_of)
  BY <1>7 DEF Handled
<1>9. Packeted(net, got', id_of)
  BY <1>1, <1>8, PacketsGrow
<1>10. \A r, p \in Nodes : StreamOK(p, net[r][p], got', id_of)
  BY <1>9 DEF Packeted
<1>11. PICK sent : sent = SendTo(packet.from, Reply(n, packet))
  OBVIOUS
<1>12. \A p \in Nodes : StreamOK(p, sent[p], got', id_of)
  <2>1. StreamOK(packet.from[1], Reply(n, packet), got', id_of)
    BY <1>6, ReplyOK
  <2>2. \A p : StreamOK(p, <<>>, got', id_of)
    BY DEF StreamOK
  <2> QED BY <1>11, <2>1, <2>2 DEF SendTo
<1>13. PICK left : left = IF again THEN net[q] ELSE [net[q] EXCEPT ![n] = RemoveAt(net[q][n], k)]
  OBVIOUS
<1>14. PICK row : row = [p \in Nodes |-> Fit(net[n][p] \o sent[p])]
  OBVIOUS
<1>15. net' = [net EXCEPT ![q] = left, ![n] = row]
  BY <1>3, <1>5, <1>11, <1>13, <1>14
<1>16. PICK w : w = [net EXCEPT ![q] = left]
  OBVIOUS
<1>17. net' = [w EXCEPT ![n] = row]
  BY <1>15, <1>16
<1>18. Packeted(w, got', id_of)
  <2>1. left = [p \in Nodes |-> left[p]]
        /\ \A p \in Nodes : left[p] = net[q][p] \/ (p = n /\ left[p] = RemoveAt(net[q][n], k))
    BY <1>1, <1>13
  <2>2. StreamOK(n, RemoveAt(net[q][n], k), got', id_of)
    BY <1>1, <1>10, Streams
  <2>3. \A p \in Nodes : StreamOK(p, left[p], got', id_of)
    BY <1>10, <2>1, <2>2
  <2> QED BY <1>9, <1>16, <2>1, <2>3, OneSender
<1>19. Packeted(net', got', id_of)
  <2>1. \A p \in Nodes : StreamOK(p, row[p], got', id_of)
    BY <1>1, <1>10, <1>12, <1>14, Streams
  <2> QED BY <1>14, <1>17, <1>18, <2>1, OneSender
<1> QED BY <1>4, <1>7, <1>19, StepOK DEF Handled

\* What is wanted again is of messages that the queue holds, and there is an end of it.
LEMMA WantedOK ==
  ASSUME Inv, NEW n \in Nodes, NEW p, NEW due \in SUBSET Entries(n)
  PROVE  LET W == Wanted(n, p, due) IN
         IsFiniteSet(W) /\ \A d \in W : /\ d = <<d[1], d[2]>> /\ d[1] \in Used(n)
                                        /\ d[2] \in Fragments(send_queue[n][d[1]].msg)
<1> DEFINE of(i) == {i} \X Fragments(send_queue[n][i].msg)
           row == [i \in Used(n) |-> of(i)]
           rows == {of(i) : i \in Used(n)}
<1>0. PICK W : W = Wanted(n, p, due)
  OBVIOUS
<1>1. scenario \in Scenarios /\ \A i \in Ids : QueueOK(n, i, send_queue[n][i], Knows(target, n), got, id_of)
  BY DEF Inv, Types, Tables
<1>2. \A i \in Used(n) : i \in Ids /\ send_queue[n][i].msg \in Messages
  BY <1>1 DEF Used, QueueOK
<1>3. \A d \in W : /\ d = <<d[1], d[2]>> /\ d[1] \in Used(n)
                   /\ d[2] \in Fragments(send_queue[n][d[1]].msg)
  <2>1. SUFFICES ASSUME NEW d \in W
                 PROVE  /\ d = <<d[1], d[2]>> /\ d[1] \in Used(n)
                        /\ d[2] \in Fragments(send_queue[n][d[1]].msg)
    OBVIOUS
  <2>2. PICK e \in due : d \in {e[1]} \X Missing(send_queue[n][e[1]], e[2])
    BY <1>0 DEF Wanted
  <2>3. e[1] \in Used(n)
    BY DEF Entries
  <2>4. d = <<d[1], d[2]>> /\ d[1] = e[1] /\ d[2] \in Missing(send_queue[n][e[1]], e[2])
    BY <2>2
  <2> QED BY <2>3, <2>4 DEF Missing
<1>4. W \subseteq UNION rows
  <2> SUFFICES ASSUME NEW d \in W PROVE d \in UNION rows
    OBVIOUS
  <2>1. d = <<d[1], d[2]>> /\ d[1] \in Used(n) /\ d[2] \in Fragments(send_queue[n][d[1]].msg)
    BY <1>3
  <2>2. d \in of(d[1])
    BY <2>1
  <2> QED BY <2>1, <2>2
<1>5. \A i \in Used(n) : IsFiniteSet(of(i))
  <2> SUFFICES ASSUME NEW i \in Used(n) PROVE IsFiniteSet(of(i))
    OBVIOUS
  <2>1. IsFiniteSet(Fragments(send_queue[n][i].msg))
    BY <1>1, <1>2, MessageParts
  <2>2. IsFiniteSet({i})
    BY FS_Singleton
  <2> QED BY <2>1, <2>2, FS_Product
<1>6. IsFiniteSet(rows)
  <2>1. IsFiniteSet(Used(n))
    <3>1. IsFiniteSet(Ids)
      <4>1. scenario.ids - 1 \in Int
        BY <1>1, Scenery
      <4> QED BY <4>1, FS_Interval DEF Ids
    <3> QED BY <1>2, <3>1, FS_Subset
  <2>2. row \in Surjection(Used(n), rows)
    <3>1. row \in [Used(n) -> rows]
      OBVIOUS
    <3>2. \A r \in rows : \E i \in Used(n) : row[i] = r
      OBVIOUS
    <3> HIDE DEF row, rows
    <3> QED BY <3>1, <3>2 DEF Surjection
  <2> HIDE DEF row, rows
  <2> QED BY <2>1, <2>2, FS_Surjection
<1>7. IsFiniteSet(UNION rows)
  <2>1. \A r \in rows : IsFiniteSet(r)
    BY <1>5
  <2> HIDE DEF rows
  <2> QED BY <1>6, <2>1, FS_UNION
<1>8. IsFiniteSet(W)
  <2> HIDE DEF rows
  <2> QED BY <1>4, <1>7, FS_Subset
<1> QED BY <1>0, <1>3, <1>8

\* What is sent again is what the queue holds; the settled entries go.
LEMMA RetransmitOK ==
  ASSUME Inv, NEW n \in Nodes, NEW due \in SUBSET Entries(n), Retransmit(n, due)
  PROVE  Inv'
<1>1. /\ Types /\ scenario \in Scenarios /\ Packeted(net, got, id_of)
      /\ Tables(target, send_queue, got, id_of) /\ Deliveries(delivered, once, corrupt, id_of)
      /\ send_queue = [m \in Nodes |-> [i \in Ids |-> send_queue[m][i]]]
      /\ \A m \in Nodes, i \in Ids : QueueOK(m, i, send_queue[m][i], Knows(target, m), got, id_of)
  BY DEF Inv, Types, Tables
<1>2. UNCHANGED <<scenario, port, target, packet_id_source, unsent, got, delivered, once, corrupt, id_of>>
  BY DEF Retransmit, history
<1>3. PICK sent : sent = [p \in Nodes |-> Cut(n, "DATA_RETRANSMISSION", Queued(n), Wanted(n, p, due))]
  OBVIOUS
<1>4. Transmit(n, sent)
  BY <1>3, Zenon DEF Retransmit
<1>5. \A p \in Nodes : StreamOK(p, sent[p], got, id_of)
  <2> SUFFICES ASSUME NEW p \in Nodes PROVE StreamOK(p, sent[p], got, id_of)
    OBVIOUS
  <2>1. PICK W : W = Wanted(n, p, due)
    OBVIOUS
  <2>2. IsFiniteSet(W) /\ \A d \in W : /\ d = <<d[1], d[2]>> /\ d[1] \in Used(n)
                                       /\ d[2] \in Fragments(send_queue[n][d[1]].msg)
    BY <2>1, WantedOK
  <2>3. PICK messages : messages = Queued(n)
    OBVIOUS
  <2>4. \A i \in Used(n) : /\ i \in Ids /\ messages[i] = send_queue[n][i].msg
                           /\ messages[i] \in Messages /\ SentAs(messages[i], n, i, id_of)
    BY <1>1, <2>3 DEF Used, Queued, QueueOK
  <2>5. W \subseteq Ids \X Nat
    <3>1. \A m \in Messages : Fragments(m) \subseteq Nat
      BY <1>1, MessageParts
    <3>2. \A d \in W : d = <<d[1], d[2]>> /\ d[1] \in Ids /\ d[2] \in Nat
      BY <2>2, <2>4, <3>1
    <3> QED BY <3>2
  <2>6. \A d \in W : /\ messages[d[1]] \in Messages /\ SentAs(messages[d[1]], n, d[1], id_of)
                     /\ d[2] \in Fragments(messages[d[1]])
    BY <2>2, <2>4
  <2>7. StreamOK(p, Cut(n, "DATA_RETRANSMISSION", messages, W), got, id_of)
    BY <1>1, <2>2, <2>5, <2>6, CutStream
  <2> QED BY <1>3, <2>1, <2>3, <2>7
<1>6. Packeted(net', got, id_of)
  BY <1>1, <1>4, <1>5, TransmitOK
<1>7. send_queue' = [send_queue EXCEPT ![n] =
       [i \in Ids |-> IF i \notin Used(n) \/ Live(n, i) = {} THEN Free
                      ELSE [send_queue[n][i] EXCEPT !.acked =
                              [a \in Live(n, i) |-> send_queue[n][i].acked[a]]]]]
  BY Zenon DEF Retransmit
<1>8. send_queue' = [m \in Nodes |-> [i \in Ids |-> send_queue'[m][i]]]
  BY <1>1, <1>7
<1>9. ASSUME NEW i \in Ids PROVE QueueOK(n, i, send_queue'[n][i], Knows(target, n), got, id_of)
  <2>1. PICK q : q = send_queue[n][i]
    OBVIOUS
  <2>2. send_queue'[n][i] = IF i \notin Used(n) \/ Live(n, i) = {} THEN Free
                            ELSE [q EXCEPT !.acked = [a \in Live(n, i) |-> q.acked[a]]]
    BY <1>1, <1>7, <2>1
  <2>3. CASE i \notin Used(n) \/ Live(n, i) = {}
    BY <2>2, <2>3 DEF QueueOK
  <2>4. CASE ~(i \notin Used(n) \/ Live(n, i) = {})
    <3>1. PICK r : r = send_queue'[n][i]
      OBVIOUS
    <3>2. PICK live : live = Live(n, i)
      OBVIOUS
    <3>3. r = [q EXCEPT !.acked = [a \in live |-> q.acked[a]]] /\ q # Free
      BY <2>1, <2>2, <2>4, <3>1, <3>2 DEF Used
    <3>4. /\ q \in [msg : Messages, acked : {q.acked}]
          /\ DOMAIN q.acked \subseteq Addresses
          /\ SentAs(q.msg, n, i, id_of) /\ scenario.reliable[q.msg]
          /\ \A a \in DOMAIN q.acked : q.acked[a] # Expired =>
               EntryOK(a, q.msg, q.acked[a], Knows(target, n), got, id_of)
      BY <1>1, <2>1, <3>3 DEF QueueOK
    <3>5. /\ r.msg = q.msg /\ r \in [msg : Messages, acked : {r.acked}]
          /\ r.acked = [a \in live |-> q.acked[a]]
      BY <3>3, <3>4
    <3>6. live \subseteq DOMAIN q.acked
      BY <2>1, <3>2 DEF Live
    <3>7. /\ DOMAIN r.acked = live /\ r.acked = [a \in DOMAIN r.acked |-> r.acked[a]]
          /\ \A a \in live : a \in DOMAIN q.acked /\ r.acked[a] = q.acked[a]
      BY <3>5, <3>6
    <3>8. \A a \in DOMAIN r.acked : r.acked[a] # Expired =>
            EntryOK(a, r.msg, r.acked[a], Knows(target, n), got, id_of)
      BY <3>4, <3>5, <3>7
    <3>9. DOMAIN r.acked \subseteq Addresses
      BY <3>4, <3>6, <3>7
    <3>10. QueueOK(n, i, r, Knows(target, n), got, id_of)
      BY <3>4, <3>5, <3>7, <3>8, <3>9 DEF QueueOK
    <3> QED BY <3>1, <3>10
  <2> QED BY <2>3, <2>4
<1>10. \A m \in Nodes, i \in Ids : QueueOK(m, i, send_queue'[m][i], Knows(target, m), got, id_of)
  <2>1. \A m \in Nodes : m # n => send_queue'[m] = send_queue[m]
    BY <1>1, <1>7
  <2> QED BY <1>1, <1>9, <2>1
<1>11. Tables(target, send_queue', got, id_of)
  BY <1>1, <1>8, <1>10 DEF Tables
<1> QED BY <1>1, <1>2, <1>6, <1>11, StepOK

\* A node that starts again knows nobody and owes nothing.
LEMMA ResetOK ==
  ASSUME Inv, NEW n \in Nodes, Reset(n)
  PROVE  Inv'
<1>1. /\ Types /\ scenario \in Scenarios /\ Packeted(net, got, id_of)
      /\ net \in [Nodes -> [Nodes -> Seq(Packets)]]
      /\ \A q, p \in Nodes : StreamOK(p, net[q][p], got, id_of)
      /\ Tables(target, send_queue, got, id_of) /\ Deliveries(delivered, once, corrupt, id_of)
      /\ target = [m \in Nodes |-> [a \in Addresses |-> target[m][a]]]
      /\ send_queue = [m \in Nodes |-> [i \in Ids |-> send_queue[m][i]]]
      /\ \A m \in Nodes : \A a \in Knows(target, m) : TargetOK(m, a, target[m][a], got, id_of)
      /\ \A m \in Nodes, i \in Ids : QueueOK(m, i, send_queue[m][i], Knows(target, m), got, id_of)
  BY DEF Inv, Types, Tables, Packeted
<1>2. /\ port[n] < scenario.resets /\ port' = [port EXCEPT ![n] = @ + 1]
      /\ target' = [target EXCEPT ![n] = [a \in Addresses |-> Unknown]]
      /\ send_queue' = [send_queue EXCEPT ![n] = [i \in Ids |-> Free]]
      /\ once' = [m \in Messages |-> [once[m] EXCEPT ![n] = 0]]
      /\ UNCHANGED <<scenario, packet_id_source, unsent, got, delivered, corrupt, id_of>>
  BY DEF Reset
<1>3. net' = [q \in Nodes |-> [p \in Nodes |->
               IF p = n THEN <<>>
               ELSE IF q = n /\ Len(net[n][p]) < scenario.buffer THEN Append(net[n][p], LeavePacket(n))
               ELSE net[q][p]]]
  BY DEF Reset
<1>4. Types'
  <2>1. port' \in [Nodes -> Ports]
    <3>1. port \in [Nodes -> Ports] /\ scenario.resets \in 0 .. MaxResets /\ MaxResets \in Nat
      BY <1>1, Scenery, NetworkAssumption DEF Types
    <3>2. port[n] + 1 \in Ports
      BY <1>2, <3>1 DEF Ports
    <3> QED BY <1>2, <3>1, <3>2
  <2>2. Ids' = Ids
    BY <1>2 DEF Ids
  <2> QED BY <1>1, <1>2, <2>1, <2>2 DEF Types
<1>5. Tables(target', send_queue', got, id_of)
  <2>1. /\ target' = [m \in Nodes |-> [a \in Addresses |-> target'[m][a]]]
        /\ send_queue' = [m \in Nodes |-> [i \in Ids |-> send_queue'[m][i]]]
    BY <1>1, <1>2
  <2>2. /\ \A a \in Addresses : target'[n][a] = Unknown
        /\ \A i \in Ids : send_queue'[n][i] = Free
        /\ \A m \in Nodes : m # n => target'[m] = target[m] /\ send_queue'[m] = send_queue[m]
    BY <1>1, <1>2
  <2>3. Knows(target', n) = {} /\ \A m \in Nodes : m # n => Knows(target', m) = Knows(target, m)
    BY <2>2 DEF Knows
  <2>4. \A m \in Nodes : \A a \in Knows(target', m) : TargetOK(m, a, target'[m][a], got, id_of)
    BY <1>1, <2>2, <2>3
  <2>5. ASSUME NEW m \in Nodes, NEW i \in Ids
        PROVE  QueueOK(m, i, send_queue'[m][i], Knows(target', m), got, id_of)
    <3>1. CASE m = n
      BY <2>2, <3>1 DEF QueueOK
    <3>2. CASE m # n
      BY <1>1, <2>2, <2>3, <3>2
    <3> QED BY <3>1, <3>2
  <2> QED BY <1>1, <2>1, <2>4, <2>5 DEF Tables
<1>6. Deliveries(delivered', once', corrupt', id_of)
  <2>1. once' \in [Messages -> [Nodes -> 0 .. 2]]
    BY <1>1, <1>2 DEF Deliveries
  <2> QED BY <1>1, <1>2, <2>1 DEF Deliveries
<1>7. Packeted(net', got, id_of)
  <2>1. ASSUME NEW q \in Nodes, NEW p \in Nodes PROVE StreamOK(p, net'[q][p], got, id_of)
    <3>1. net'[q][p] \in {<<>>, Append(net[n][p], LeavePacket(n)), net[q][p]}
      BY <1>3
    <3>2. StreamOK(p, <<>>, got, id_of)
      BY <1>1, Streams
    <3>3. PacketOK(p, LeavePacket(n), got, id_of)
      BY <1>1, AnnounceOK
    <3>4. StreamOK(p, Append(net[n][p], LeavePacket(n)), got, id_of)
      BY <1>1, <3>3, Streams
    <3> QED BY <1>1, <3>1, <3>2, <3>4
  <2>2. net' = [q \in Nodes |-> [p \in Nodes |-> net'[q][p]]]
    BY <1>3
  <2>3. \A q, p \in Nodes : net'[q][p] \in Seq(Packets)
    BY <2>1 DEF StreamOK
  <2>4. net' \in [Nodes -> [Nodes -> Seq(Packets)]]
    BY <2>2, <2>3
  <2> QED BY <2>1, <2>4 DEF Packeted
<1> QED BY <1>2, <1>4, <1>5, <1>6, <1>7, SameScenario

\* The next packet id is one, as there is one free: the search ends.
LEMMA NextIdIn ==
  ASSUME Types, NEW n \in Nodes, NEW i \in Ids, send_queue[n][i] = Free
  PROVE  /\ NextId(n) \in Ids /\ send_queue[n][NextId(n)] = Free
         /\ \E k \in 1 .. scenario.ids :
              /\ NextId(n) = (packet_id_source[n] + k) % scenario.ids
              /\ \A j \in 1 .. k - 1 : send_queue[n][(packet_id_source[n] + j) % scenario.ids] # Free
<1> DEFINE after(k) == (packet_id_source[n] + k) % scenario.ids
           least(k) == /\ send_queue[n][after(k)] = Free
                       /\ \A j \in 1 .. k - 1 : send_queue[n][after(j)] # Free
           S == {k \in 1 .. scenario.ids : send_queue[n][after(k)] = Free}
<1>1. scenario.ids \in Nat \ {0} /\ packet_id_source[n] \in Ids /\ Ids = 0 .. scenario.ids - 1
  BY Scenery DEF Types, Ids
<1>2. \E k \in 1 .. scenario.ids : after(k) = i
  <2>1. PICK c \in Nat \ {0} : c = scenario.ids
    BY <1>1
  <2>2. PICK s \in 0 .. c - 1 : s = packet_id_source[n]
    BY <1>1, <2>1
  <2>3. i \in 0 .. c - 1
    BY <1>1, <2>1
  <2>4. CASE i > s
    <3>1. i - s \in 1 .. c /\ s + (i - s) = i /\ i % c = i
      BY <2>3, <2>4
    <3>2. (s + (i - s)) % c = i
      BY <3>1
    <3> QED BY <2>1, <2>2, <3>1, <3>2
  <2>5. CASE ~(i > s)
    <3>1. i - s + c \in 1 .. c /\ s + (i - s + c) = i + c
      BY <2>3, <2>5
    <3>2. (i + c) % c = i
      BY <2>3
    <3>3. (s + (i - s + c)) % c = i
      BY <3>1, <3>2
    <3> QED BY <2>1, <2>2, <3>1, <3>3
  <2> QED BY <2>4, <2>5
<1>3. \E k \in 1 .. scenario.ids : least(k)
  <2>1. S # {} /\ S \subseteq Nat
    <3> HIDE DEF after
    <3> QED BY <1>2
  <2>2. PICK k \in S : \A j \in S : k <= j
    <3> HIDE DEF S
    <3> QED BY <2>1, LeastIn
  <2>3. \A j \in 1 .. k - 1 : j \in 1 .. scenario.ids /\ ~(k <= j)
    <3> HIDE DEF after
    <3> QED BY <1>1
  <2>4. least(k)
    <3> HIDE DEF after
    <3> QED BY <2>2, <2>3
  <2> QED BY <2>4
<1>4. PICK k : k = CHOOSE x \in 1 .. scenario.ids : least(x)
  OBVIOUS
<1>5. k \in 1 .. scenario.ids /\ least(k)
  <2> HIDE DEF least
  <2> QED BY <1>3, <1>4
<1>6. NextId(n) = after(k)
  BY <1>4, Zenon DEF NextId
<1>7. after(k) \in Ids
  <2>1. \A c \in Nat \ {0}, x \in Nat : x % c \in 0 .. c - 1
    OBVIOUS
  <2>2. packet_id_source[n] + k \in Nat
    <3>1. k \in 1 .. scenario.ids
      BY <1>5
    <3> QED BY <1>1, <3>1
  <2> QED BY <1>1, <2>1, <2>2
<1> QED BY <1>5, <1>6, <1>7

\* A message that is sent has an id from then on, and nothing of it is acknowledged.
LEMMA SendOK ==
  ASSUME Inv, NEW m \in Messages, Send(m)
  PROVE  Inv'
<1>1. /\ Types /\ scenario \in Scenarios /\ Packeted(net, got, id_of)
      /\ Tables(target, send_queue, got, id_of) /\ Deliveries(delivered, once, corrupt, id_of)
      /\ target = [n \in Nodes |-> [a \in Addresses |-> target[n][a]]]
      /\ send_queue = [n \in Nodes |-> [i \in Ids |-> send_queue[n][i]]]
      /\ got \in [Nodes -> SUBSET Parts] /\ id_of \in [Messages -> Ids \cup {Invalid}]
      /\ \A n \in Nodes : \A a \in Knows(target, n) : TargetOK(n, a, target[n][a], got, id_of)
      /\ \A n \in Nodes, i \in Ids : QueueOK(n, i, send_queue[n][i], Knows(target, n), got, id_of)
  BY DEF Inv, Types, Tables
<1>2. PICK n \in Nodes : n = scenario.source[m]
  BY <1>1, Scenery
<1>3. PICK id \in Ids : id = NextId(n)
  BY <1>1, <1>2, NextIdIn DEF Send
<1>4. /\ m \in unsent /\ unsent' = unsent \ {m}
      /\ packet_id_source' = [packet_id_source EXCEPT ![n] = id]
      /\ send_queue' = Enqueue(n, m, id) /\ id_of' = [id_of EXCEPT ![m] = id]
      /\ UNCHANGED <<scenario, port, target, got, delivered, once, corrupt>>
  BY <1>2, <1>3 DEF Send, history
<1>5. PICK packets : packets = Cut(n, "DATA", [i \in {id} |-> m], {id} \X Fragments(m))
  OBVIOUS
<1>6. PICK sent : /\ Transmit(n, sent)
                  /\ \A p \in Nodes : sent[p] \in {packets, <<>>}
  <2>1. CASE scenario.dest[m] = Everyone
    <3>1. Transmit(n, Multicast(n, packets))
      BY <1>2, <1>3, <1>5, <2>1 DEF Send
    <3>2. \A p \in Nodes : Multicast(n, packets)[p] \in {packets, <<>>}
      BY DEF Multicast
    <3> QED BY <3>1, <3>2
  <2>2. CASE scenario.dest[m] # Everyone
    <3> DEFINE one == [p \in Nodes |-> IF p = scenario.dest[m] /\ Address(p) \in Known(n) THEN packets ELSE <<>>]
    <3>1. Transmit(n, one)
      BY <1>2, <1>3, <1>5, <2>2 DEF Send
    <3>2. \A p \in Nodes : one[p] \in {packets, <<>>}
      OBVIOUS
    <3> HIDE DEF one
    <3> QED BY <3>1, <3>2
  <2> QED BY <2>1, <2>2
<1>7. id_of[m] = Invalid /\ id_of' \in [Messages -> Ids \cup {Invalid}]
      /\ \A o \in Messages : id_of'[o] = IF o = m THEN id ELSE id_of[o]
  BY <1>1, <1>4 DEF Types
<1>8. SentAs(m, n, id, id_of')
  BY <1>2, <1>7 DEF SentAs
<1>9. Growth(got, got, id_of, id_of')
  <2>1. IsFresh(id_of') => IsFresh(id_of)
    BY <1>1, <1>7 DEF IsFresh
  <2> QED BY <1>7, <2>1 DEF Growth
<1>10. Types'
  <2>1. Ids' = Ids
    BY <1>4 DEF Ids
  <2>2. packet_id_source' \in [Nodes -> Ids]
    BY <1>1, <1>4 DEF Types
  <2>3. \A o \in unsent' : id_of'[o] = Invalid
    BY <1>1, <1>4, <1>7 DEF Types
  <2> QED BY <1>1, <1>4, <1>7, <2>1, <2>2, <2>3 DEF Types
<1>11. Tables(target, send_queue', got, id_of')
  <2>1. send_queue' = [o \in Nodes |-> [i \in Ids |-> send_queue'[o][i]]]
    BY <1>1, <1>4 DEF Enqueue
  <2>2. \A o \in Nodes : \A a \in Knows(target, o) : TargetOK(o, a, target[o][a], got, id_of')
    <3>1. \A o : Knows(target, o) \subseteq Addresses
      BY DEF Knows
    <3> QED BY <1>1, <1>9, <3>1, TargetGrows
  <2>3. \A o \in Nodes, i \in Ids : QueueOK(o, i, send_queue[o][i], Knows(target, o), got, id_of')
    BY <1>1, <1>9, QueueGrows
  <2>4. CASE ~scenario.reliable[m]
    BY <1>1, <1>4, <2>2, <2>3, <2>4 DEF Tables, Enqueue
  <2>5. CASE scenario.reliable[m]
    <3>1. PICK T : T = Interested(n, m)
      OBVIOUS
    <3>2. T \subseteq Knows(target, n) /\ T \subseteq Addresses
      BY <3>1, KnownKnows DEF Interested, Knows
    <3>3. PICK q : q = [msg |-> m, acked |-> [a \in T |-> {}]]
      OBVIOUS
    <3>4. /\ q.msg = m /\ q.acked = [a \in T |-> {}] /\ q \in [msg : Messages, acked : {q.acked}]
          /\ DOMAIN q.acked = T
      BY <3>3
    <3>5. q.acked = [a \in DOMAIN q.acked |-> q.acked[a]] /\ \A a \in T : q.acked[a] = {}
      BY <3>4
    <3>6. 0 \in Fragments(m)
      BY <1>1, MessageParts
    <3>7. \A a \in T : EntryOK(a, m, {}, Knows(target, n), got, id_of')
      BY <3>2, <3>6 DEF EntryOK
    <3>8. QueueOK(n, id, q, Knows(target, n), got, id_of')
      BY <1>8, <2>5, <3>2, <3>4, <3>5, <3>7 DEF QueueOK
    <3>9. send_queue' = [send_queue EXCEPT ![n][id] = q]
      BY <1>4, <2>5, <3>1, <3>3 DEF Enqueue
    <3>10. \A o \in Nodes, i \in Ids : send_queue'[o][i] = IF o = n /\ i = id THEN q ELSE send_queue[o][i]
      BY <1>1, <3>9
    <3>11. \A o \in Nodes, i \in Ids : QueueOK(o, i, send_queue'[o][i], Knows(target, o), got, id_of')
      BY <2>3, <3>8, <3>10
    <3> QED BY <1>1, <2>1, <2>2, <3>11 DEF Tables
  <2> QED BY <2>4, <2>5
<1>12. Deliveries(delivered, once, corrupt, id_of')
  BY <1>1, <1>9 DEF Deliveries, Growth
<1>13. Packeted(net', got, id_of')
  <2>1. Packeted(net, got, id_of')
    BY <1>1, <1>9, PacketsGrow
  <2>2. \A p : StreamOK(p, packets, got, id_of')
    <3>1. PICK S : S = {id} \X Fragments(m)
      OBVIOUS
    <3>2. IsFiniteSet(Fragments(m)) /\ Fragments(m) \subseteq Nat
      BY <1>1, MessageParts
    <3>3. IsFiniteSet({id})
      BY FS_Singleton
    <3>4. IsFiniteSet(S) /\ S \subseteq Ids \X Nat
      BY <3>1, <3>2, <3>3, FS_Product
    <3>5. PICK messages : messages = [i \in {id} |-> m]
      OBVIOUS
    <3>6. \A d \in S : /\ messages[d[1]] \in Messages /\ SentAs(messages[d[1]], n, d[1], id_of')
                       /\ d[2] \in Fragments(messages[d[1]])
      BY <1>8, <3>1, <3>5
    <3>7. \A p, g : StreamOK(p, Cut(n, "DATA", messages, S), g, id_of')
      BY <1>1, <3>4, <3>6, CutStream
    <3> QED BY <1>5, <3>1, <3>5, <3>7
  <2>3. \A p : StreamOK(p, <<>>, got, id_of')
    BY DEF StreamOK
  <2> QED BY <1>1, <1>6, <2>1, <2>2, <2>3, TransmitOK
<1> QED BY <1>4, <1>10, <1>11, <1>12, <1>13, SameScenario

LEMMA InitOK ==
  ASSUME Init
  PROVE  Inv
<1>1. /\ scenario \in Scenarios
      /\ port = [n \in Nodes |-> 0]
      /\ target = [n \in Nodes |-> [a \in Addresses |->
           IF "announce" \notin scenario.events /\ {n, a[1]} \subseteq scenario.nodes /\ a[1] # n /\ a[2] = 0
           THEN NewTarget ELSE Unknown]]
      /\ send_queue = [n \in Nodes |-> [i \in Ids |-> Free]]
      /\ packet_id_source = [n \in Nodes |-> 0]
      /\ net = [n \in Nodes |-> [p \in Nodes |-> <<>>]]
      /\ unsent = scenario.messages
      /\ got = [n \in Nodes |-> {}]
      /\ delivered = [m \in Messages |-> [n \in Nodes |-> 0]] /\ once = delivered
      /\ corrupt = {}
      /\ id_of = [m \in Messages |-> Invalid]
  BY DEF Init
<1>2. Types
  <2>1. 0 \in Ids /\ 0 \in Ports /\ scenario.messages \subseteq Messages
    BY <1>1, Scenery, NetworkAssumption DEF Ids, Ports
  <2> QED BY <1>1, <2>1 DEF Types
<1>3. Tables(target, send_queue, got, id_of)
  <2>1. /\ target = [n \in Nodes |-> [a \in Addresses |-> target[n][a]]]
        /\ \A n \in Nodes : \A a \in Knows(target, n) : target[n][a] = NewTarget
    BY <1>1 DEF Knows
  <2>2. \A n \in Nodes : \A a \in Knows(target, n) : TargetOK(n, a, target[n][a], got, id_of)
    <3>1. \A n, a : TargetOK(n, a, NewTarget, got, id_of)
      BY <1>1, NewTargetOK
    <3> QED BY <2>1, <3>1
  <2>3. \A n \in Nodes, i \in Ids : QueueOK(n, i, send_queue[n][i], Knows(target, n), got, id_of)
    BY <1>1 DEF QueueOK
  <2>4. send_queue = [n \in Nodes |-> [i \in Ids |-> send_queue[n][i]]]
    BY <1>1
  <2>5. got \in [Nodes -> SUBSET Parts]
    BY <1>1
  <2> QED BY <2>1, <2>2, <2>3, <2>4, <2>5 DEF Tables
<1>4. Deliveries(delivered, once, corrupt, id_of)
  BY <1>1 DEF Deliveries
<1>5. Packeted(net, got, id_of)
  <2>1. \A p : StreamOK(p, <<>>, got, id_of)
    BY DEF StreamOK
  <2>2. \A q, p \in Nodes : net[q][p] = <<>>
    BY <1>1
  <2>3. net \in [Nodes -> [Nodes -> Seq(Packets)]]
    BY <1>1
  <2> QED BY <2>1, <2>2, <2>3 DEF Packeted
<1> QED BY <1>2, <1>3, <1>4, <1>5 DEF Inv

LEMMA NextOK ==
  ASSUME Inv, [Next]_vars
  PROVE  Inv'
<1>1. scenario.nodes \subseteq Nodes
  BY Scenery DEF Inv, Types
<1>2. ASSUME NEW m \in Messages, Send(m) PROVE Inv'
  BY <1>2, SendOK
<1>3. ASSUME NEW n \in scenario.nodes, AnnounceSelf(n) PROVE Inv'
  BY <1>1, <1>3, AnnounceSelfOK
<1>4. ASSUME NEW n \in scenario.nodes, TimeOut(n) PROVE Inv'
  BY <1>1, <1>4, TimeOutOK
<1>5. ASSUME NEW n \in scenario.nodes, Reset(n) PROVE Inv'
  BY <1>1, <1>5, ResetOK
<1>6. ASSUME NEW n \in scenario.nodes, NEW due \in SUBSET Entries(n), Retransmit(n, due) PROVE Inv'
  BY <1>1, <1>6, RetransmitOK
<1>7. ASSUME NEW n \in scenario.nodes, NEW q \in scenario.nodes, Receive(n, q) PROVE Inv'
  <2>1. PICK again \in BOOLEAN : ReceiveOne(n, q, again)
    BY <1>7 DEF Receive
  <2> QED BY <1>1, <2>1, ReceiveOneOK
<1>8. ASSUME NEW n \in scenario.nodes, NEW q \in scenario.nodes, Lose(n, q) PROVE Inv'
  BY <1>1, <1>8, LoseOK
<1>9. ASSUME NEW n \in scenario.nodes, NEW q \in scenario.nodes, Look(n, q) PROVE Inv'
  BY <1>1, <1>9, LookOK
<1>10. ASSUME UNCHANGED vars PROVE Inv'
  <2>1. UNCHANGED <<scenario, port, target, send_queue, packet_id_source, net, unsent,
                    got, delivered, once, corrupt, id_of>>
    BY <1>10 DEF vars
  <2> QED BY <2>1, StepOK DEF Inv
<1>11. CASE Next
  BY <1>2, <1>3, <1>4, <1>5, <1>6, <1>7, <1>8, <1>9, <1>10, <1>11 DEF Next, Rest
<1> QED BY <1>10, <1>11

\* The invariant holds for any nodes, messages and scenarios.
THEOREM InvHolds == Spec => []Inv
<1>1. Init => Inv
  BY InitOK
<1>2. Inv /\ [Next]_vars => Inv'
  BY NextOK
<1> QED BY <1>1, <1>2, PTL DEF Spec

-----------------------------------------------------------------------------
(* What it says of the properties.                                         *)

LEMMA NumberedOnce ==
  ASSUME NEW S \in Assemblies, \A p, r \in S : p[1] = r[1] => p = r
  PROVE  Cardinality(Numbers(S)) = Cardinality(S)
<1> DEFINE number == [p \in S |-> p[1]]
<1>1. number \in [S -> Numbers(S)] /\ \A x \in Numbers(S) : \E p \in S : number[p] = x
  BY DEF Numbers
<1>2. \A p, r \in S : number[p] = number[r] => p = r
  OBVIOUS
<1> HIDE DEF number
<1>3. number \in Surjection(S, Numbers(S)) /\ number \in Injection(S, Numbers(S))
  BY <1>1, <1>2 DEF Surjection, Injection, IsInjective
<1>4. IsFiniteSet(S)
  BY DEF Assemblies
<1> QED BY <1>3, <1>4, FS_Surjection

LEMMA InvTypeOK ==
  ASSUME Inv
  PROVE  TypeOK
<1>1. /\ Types /\ scenario \in Scenarios /\ Deliveries(delivered, once, corrupt, id_of)
      /\ Tables(target, send_queue, got, id_of) /\ Packeted(net, got, id_of)
  BY DEF Inv, Types
<1>2. ASSUME NEW n \in Nodes, NEW a \in Known(n)
      PROVE  /\ target[n][a].recent \in [0 .. scenario.ring - 1 -> Ids \cup {Invalid}]
             /\ target[n][a].index \in 0 .. scenario.ring
             /\ \A i \in Ids : Cardinality(Numbers(target[n][a].assemblers[i]))
                               = Cardinality(target[n][a].assemblers[i])
  <2>1. TargetOK(n, a, target[n][a], got, id_of)
    BY <1>1, KnownKnows DEF Tables
  <2> QED BY <2>1, NumberedOnce DEF TargetOK
<1>3. ASSUME NEW n \in Nodes, NEW i \in Ids, NEW q, q = send_queue[n][i], q # Free
      PROVE  /\ scenario.source[q.msg] = n /\ scenario.reliable[q.msg]
             /\ \A a \in DOMAIN q.acked : q.acked[a] # Expired =>
                  a \in Known(n) /\ q.acked[a] \subseteq Bits(scenario.count[q.msg])
  <2>1. QueueOK(n, i, q, Known(n), got, id_of)
    BY <1>1, <1>3, KnownKnows DEF Tables
  <2> QED BY <1>3, <2>1 DEF QueueOK, SentAs, EntryOK
<1>4. \A n, p \in Nodes : \A k \in 1 .. Len(net[n][p]) : net[n][p][k] \in Packets
  BY <1>1 DEF Packeted, StreamOK, PacketOK
<1>5. port \in [Nodes -> Ports] /\ packet_id_source \in [Nodes -> Ids] /\ unsent \subseteq Messages
  BY <1>1 DEF Types
<1>6. corrupt \subseteq Nodes /\ delivered \in [Messages -> [Nodes -> 0 .. 2]]
      /\ once \in [Messages -> [Nodes -> 0 .. 2]]
  BY <1>1 DEF Deliveries
<1> QED BY <1>2, <1>3, <1>4, <1>5, <1>6 DEF TypeOK

\* What a node tells is true: a bit it acknowledges to the sender stands for a
\* fragment it has received, and what it gives the callback is one message and all of
\* it, while the packet ids have not come round (process_packet).
THEOREM TruthfulHolds == Spec => []Truthful
<1>1. Inv => Truthful
  <2> SUFFICES ASSUME Inv PROVE Truthful
    OBVIOUS
  <2>1. Tables(target, send_queue, got, id_of) /\ Deliveries(delivered, once, corrupt, id_of)
    BY DEF Inv
  <2>2. Fresh <=> IsFresh(id_of)
    BY DEF Fresh, IsFresh
  <2>3. AckedWasReceived
    <3> SUFFICES ASSUME Fresh, NEW n \in Nodes, NEW i \in Ids, NEW q, q = send_queue[n][i], q # Free,
                        NEW a \in DOMAIN q.acked, q.acked[a] # Expired,
                        NEW f \in q.acked[a] \cap Fragments(q.msg)
                 PROVE  <<f, q.msg>> \in got[a[1]]
      BY DEF AckedWasReceived
    <3>1. QueueOK(n, i, q, Knows(target, n), got, id_of)
      BY <2>1 DEF Tables
    <3> QED BY <2>2, <3>1 DEF QueueOK, EntryOK
  <2>4. DeliveredWhole
    BY <2>1, <2>2 DEF Deliveries, DeliveredWhole
  <2> QED BY <2>3, <2>4, InvTypeOK DEF Truthful
<1> QED BY <1>1, InvHolds, PTL

-----------------------------------------------------------------------------
(* The network keeps the promises of Delivery.  The parts of the invariant *)
(* are about the packets on their way, w, the targets, tt, the queues, qq, *)
(* the ports, pp, the messages that are not sent yet, u, and what has been *)
(* delivered: d, and since the source joined, o.                           *)

Carries(x, m) == IsData(x) /\ x.msg = m
First(x, m) == x.type = "DATA" /\ x.msg = m
HasId(t, i) == \E k \in 0 .. t.index - 1 : t.recent[k] = i
Current(n, pp) == <<n, pp[n]>>
Source(m) == scenario.source[m]

\* A packet comes from the node that sent it, from a port it has or had: one it had
\* when it says LEAVE.  Nobody hears or knows himself.  Data is on its socket, and held
\* only where there are threads.
Placed(x) ==
  /\ x.type = "DATA_RETRANSMISSION" => scenario.reliable[x.msg]
  /\ IsData(x) => x.socket = DataSocket(x.type, x.msg)
  /\ x.held => "threads" \in scenario.events
Sources(w, tt, pp) ==
  /\ \A q, p \in Nodes : \A k \in 1 .. Len(w[q][p]) :
       LET x == w[q][p][k] IN
       /\ p # q /\ x.from[1] = q /\ x.from[2] <= pp[q]
       /\ x.type = "LEAVE" => x.from[2] < pp[q]
       /\ Placed(x)
  /\ \A n \in Nodes : \A a \in Knows(tt, n) : a[1] # n /\ a[2] <= pp[a[1]]

\* Only what is sent has an id; what is delivered has been sent by a node that is
\* known.
Sendings(u, ids, tt, o) ==
  /\ u \subseteq scenario.messages
  /\ \A m \in Messages : ids[m] # Invalid => m \in scenario.messages \ u
  /\ \A m \in Messages, n \in Nodes : o[m][n] # 0 =>
       ids[m] # Invalid /\ \E a \in Knows(tt, n) : a[1] = Source(m)

\* All packets of a message come from one address, that of its node while the message
\* is in the queue, and where it has been delivered that address remembers it.
HomeOK(m, a, w, tt, qq, pp, ids, o) ==
  /\ a[1] = Source(m)
  /\ \A p \in Nodes : \A k \in 1 .. Len(w[Source(m)][p]) :
       Carries(w[Source(m)][p][k], m) => w[Source(m)][p][k].from = a
  /\ \A i \in Ids : qq[Source(m)][i] # Free /\ qq[Source(m)][i].msg = m => a = Current(Source(m), pp)
  /\ Exact => \A p \in Nodes : o[m][p] # 0 /\ scenario.reliable[m] =>
                a \in Knows(tt, p) /\ HasId(tt[p][a], ids[m])
Homes(w, tt, qq, pp, ids, o) ==
  \A m \in Messages : \E a \in Addresses : HomeOK(m, a, w, tt, qq, pp, ids, o)

\* Fragments come in order, each once, and before any retransmission and anything else
\* on the data socket, which all of them come to where each message is for one node.
Run(s, j, k, m) == \A l \in j .. k : s[l].socket = "data_fd" => First(s[l], m)
Ordered(s) ==
  \A m \in Messages : \A j, k \in 1 .. Len(s) :
    j < k /\ Carries(s[j], m) /\ First(s[k], m) => s[j].no < s[k].no /\ Run(s, j, k, m)
\* What is assembled came before what comes.
Earlier(s, t) ==
  \A i \in Ids : \A p \in t.assemblers[i] : \A k \in 1 .. Len(s) :
    First(s[k], p[2]) => p[1] < s[k].no
\* As many messages have been remembered as recent_packets_index says, none of them
\* to be assembled again.
DoneOK(m, s, t, a, ids) ==
  /\ Source(m) = a[1] /\ ids[m] # Invalid /\ HasId(t, ids[m])
  /\ \A k \in 1 .. Len(s) : First(s[k], m) =>
       /\ 0 < s[k].no /\ Run(s, 1, k, m)
       /\ \A p \in t.assemblers[ids[m]] : 0 < p[1]
Remembers(s, t, a, ids) ==
  \E done \in SUBSET scenario.messages :
    Cardinality(done) = t.index /\ \A m \in done : DoneOK(m, s, t, a, ids)
\* What has been delivered does not come for the first time.
NotFirst(w, o) ==
  \A m \in Messages, p \in Nodes : o[m][p] # 0 =>
    \A k \in 1 .. Len(w[Source(m)][p]) : ~First(w[Source(m)][p][k], m)
Orderly(w, tt, ids, o) ==
  Exact =>
    /\ \A q, p \in Nodes : Ordered(w[q][p])
    /\ \A p \in Nodes : \A a \in Knows(tt, p) :
         Earlier(w[a[1]][p], tt[p][a]) /\ Remembers(w[a[1]][p], tt[p][a], a, ids)
    /\ NotFirst(w, o)

\* The ids of the messages sent are the first ones.
SentBy(n, u) == {m \in scenario.messages \ u : Source(m) = n}
Numbered(u, ids, last) ==
  Kept => \A n \in Nodes :
    LET c == Cardinality(SentBy(n, u)) IN
    /\ last[n] = c % scenario.ids
    /\ \A m \in SentBy(n, u) : \E k \in 1 .. c : ids[m] = k % scenario.ids
Remembered(tt, d, ids) ==
  \A n \in Nodes : \A a \in Knows(tt, n), m \in Messages :
    Source(m) = a[1] /\ ids[m] # Invalid /\ (\E k \in 0 .. scenario.ring - 1 : tt[n][a].recent[k] = ids[m]) =>
      d[m][n] > 0
\* What address a of node p has acknowledged of a message that is not delivered there
\* is not all of it, and is assembled there if a is the address of p still.
Bound(q, i, m, a, H, acked, w, tt, pp) ==
  /\ H \subseteq Fragments(m) /\ H # Fragments(m) /\ acked \cap Fragments(m) \subseteq H
  /\ \A k \in 1 .. Len(w[a[1]][q]) :
       LET x == w[a[1]][q][k] IN x.type = "ACK" /\ x.id = i /\ x.from = a => x.bits \subseteq H
  /\ a = Current(a[1], pp) => \A f \in H :
       /\ Current(q, pp) \in Knows(tt, a[1])
       /\ <<f, m>> \in tt[a[1]][Current(q, pp)].assemblers[i]
Bounded(w, tt, qq, pp, d) ==
  \A q \in Nodes, i \in Ids : qq[q][i] # Free => \A a \in DOMAIN qq[q][i].acked :
    qq[q][i].acked[a] # Expired =>
      \/ d[qq[q][i].msg][a[1]] > 0
      \/ \E H : Bound(q, i, qq[q][i].msg, a, H, qq[q][i].acked[a], w, tt, pp)
Safe(w, tt, qq, pp, d, ids) ==
  Kept => IsFresh(ids) /\ Remembered(tt, d, ids) /\ Bounded(w, tt, qq, pp, d)

Promises ==
  /\ Sources(net, target, port) /\ Sendings(unsent, id_of, target, once)
  /\ Homes(net, target, send_queue, port, id_of, once)
  /\ Orderly(net, target, id_of, once)
  /\ Numbered(unsent, id_of, packet_id_source)
  /\ Safe(net, target, send_queue, port, delivered, id_of)

\* Nothing that comes for the first time comes before its turn: what a stream u has of
\* that, and all before it, is what s had without its e-th packet.
Behind(l, e) == IF l < e THEN l ELSE l + 1
Trails(s, u, e) ==
  \A m \in Messages : \A k \in 1 .. Len(u) : First(u[k], m) =>
    Behind(k, e) \in 1 .. Len(s) /\ \A l \in 1 .. k : u[l] = s[Behind(l, e)]

LEMMA BehindOrder ==
  ASSUME NEW e \in Nat
  PROVE  /\ \A k \in Nat : Behind(k, e) \in Nat /\ k <= Behind(k, e) /\ Behind(k, e) # e
         /\ \A j, k \in Nat : (j < k => Behind(j, e) < Behind(k, e)) /\ (j <= k => Behind(j, e) <= Behind(k, e))
         /\ \A k \in Nat : k < e => Behind(k, e) = k
  BY DEF Behind

\* What a link holds after Fit is what it held, and of what was added a first part.
LEMMA Cropped ==
  ASSUME scenario \in Scenarios, NEW s \in Seq(Packets), NEW t \in Seq(Packets)
  PROVE  LET u == Fit(s \o t) IN
         /\ u \in Seq(Packets)
         /\ \A k \in 1 .. Len(u) : \/ k \in 1 .. Len(s) /\ u[k] = s[k]
                                   \/ /\ k > Len(s) /\ k - Len(s) \in 1 .. Len(t)
                                      /\ u[k] = t[k - Len(s)]
<1> DEFINE v == s \o t
           n == IF Len(v) < scenario.buffer THEN Len(v) ELSE scenario.buffer
<1>1. /\ v \in Seq(Packets) /\ Len(v) = Len(s) + Len(t) /\ Len(s) \in Nat /\ Len(t) \in Nat
      /\ \A k \in 1 .. Len(v) : v[k] = IF k <= Len(s) THEN s[k] ELSE t[k - Len(s)]
  OBVIOUS
<1> HIDE DEF v
<1>2. n \in 0 .. Len(v)
  <2>1. scenario.buffer \in Nat \ {0} /\ Len(v) \in Nat
    BY <1>1, Scenery
  <2> QED BY <2>1
<1>3. Fit(v) = SubSeq(v, 1, n)
  BY DEF Fit
<1> HIDE DEF n
<1>4. PICK u : u = Fit(v)
  OBVIOUS
<1>5. u \in Seq(Packets) /\ Len(u) = n /\ \A k \in 1 .. n : u[k] = v[k]
  BY <1>1, <1>2, <1>3, <1>4
<1>6. ASSUME NEW k \in 1 .. Len(u)
      PROVE  \/ k \in 1 .. Len(s) /\ u[k] = s[k]
             \/ k > Len(s) /\ k - Len(s) \in 1 .. Len(t) /\ u[k] = t[k - Len(s)]
  <2>1. k \in 1 .. Len(v) /\ u[k] = v[k] /\ k \in Nat
    BY <1>1, <1>2, <1>5
  <2>2. CASE k <= Len(s)
    BY <1>1, <2>1, <2>2
  <2>3. CASE ~(k <= Len(s))
    BY <1>1, <2>1, <2>3
  <2> QED BY <2>2, <2>3
<1> QED BY <1>4, <1>5, <1>6 DEF v

\* What has been said of a stream stays true while it moves on.
LEMMA TrailsKeep ==
  ASSUME NEW s, NEW u, NEW e \in Nat, Trails(s, u, e), Len(s) \in Nat, Len(u) \in Nat
  PROVE  /\ Ordered(s) => Ordered(u)
         /\ \A t : t.assemblers \in [Ids -> Assemblies] /\ Earlier(s, t) => Earlier(u, t)
         /\ \A m \in Messages : \A t, a, ids : DoneOK(m, s, t, a, ids) => DoneOK(m, u, t, a, ids)
<1> DEFINE b(l) == Behind(l, e)
<1>0. /\ \A k \in Nat : b(k) \in Nat /\ k <= b(k)
      /\ \A j, k \in Nat : (j < k => b(j) < b(k)) /\ (j <= k => b(j) <= b(k))
  BY BehindOrder
<1>1. \A m \in Messages : \A k \in 1 .. Len(u) : First(u[k], m) =>
        b(k) \in 1 .. Len(s) /\ \A l \in 1 .. k : u[l] = s[b(l)]
  BY DEF Trails
<1> HIDE DEF b
<1>2. ASSUME NEW m \in Messages, NEW k \in 1 .. Len(u), First(u[k], m)
      PROVE  /\ b(k) \in 1 .. Len(s) /\ u[k] = s[b(k)] /\ First(s[b(k)], m)
             /\ \A j \in 1 .. k : /\ b(j) \in 1 .. Len(s) /\ u[j] = s[b(j)] /\ b(j) <= b(k)
                                  /\ Run(s, b(j), b(k), m) => Run(u, j, k, m)
             /\ Run(s, 1, b(k), m) => Run(u, 1, k, m)
  <2>1. b(k) \in 1 .. Len(s) /\ \A l \in 1 .. k : u[l] = s[b(l)]
    BY <1>1, <1>2
  <2>2. k \in Nat /\ k \in 1 .. k /\ \A l \in 1 .. k : l \in Nat /\ l <= k
    OBVIOUS
  <2>3. \A l \in 1 .. k : b(l) \in Nat /\ l <= b(l) /\ b(l) <= b(k)
    BY <1>0, <2>2
  <2>4. \A l \in 1 .. k : b(l) \in 1 .. Len(s)
    BY <2>1, <2>3
  <2>5. \A j \in 1 .. k : \A l \in j .. k : l \in 1 .. k /\ b(l) \in b(j) .. b(k)
    <3> SUFFICES ASSUME NEW j \in 1 .. k, NEW l \in j .. k PROVE l \in 1 .. k /\ b(l) \in b(j) .. b(k)
      OBVIOUS
    <3>1. l \in 1 .. k /\ j \in Nat /\ l \in Nat /\ j <= l
      OBVIOUS
    <3>2. b(j) <= b(l) /\ b(l) <= b(k) /\ b(j) \in Nat /\ b(l) \in Nat /\ b(k) \in Nat
      BY <1>0, <2>2, <2>3, <3>1
    <3>3. \A x, y, z \in Nat : x <= y /\ y <= z => y \in x .. z
      OBVIOUS
    <3> QED BY <3>1, <3>2, <3>3
  <2>6. \A j \in 1 .. k : Run(s, b(j), b(k), m) => Run(u, j, k, m)
    BY <2>1, <2>5 DEF Run
  <2>7. Run(s, 1, b(k), m) => Run(u, 1, k, m)
    <3>1. \A l \in 1 .. k : b(l) \in 1 .. b(k)
      BY <2>1, <2>3, <2>4
    <3> QED BY <2>1, <3>1 DEF Run
  <2> QED BY <1>2, <2>1, <2>2, <2>3, <2>4, <2>6, <2>7
<1>3. ASSUME Ordered(s) PROVE Ordered(u)
  <2> SUFFICES ASSUME NEW m \in Messages, NEW j \in 1 .. Len(u), NEW k \in 1 .. Len(u),
                      j < k, Carries(u[j], m), First(u[k], m)
               PROVE  u[j].no < u[k].no /\ Run(u, j, k, m)
    BY DEF Ordered
  <2>1. j \in 1 .. k
    OBVIOUS
  <2>2. b(j) < b(k)
    BY <1>0
  <2>3. /\ b(j) \in 1 .. Len(s) /\ b(k) \in 1 .. Len(s) /\ u[j] = s[b(j)] /\ u[k] = s[b(k)]
        /\ Run(s, b(j), b(k), m) => Run(u, j, k, m)
    BY <1>2, <2>1
  <2> QED BY <1>3, <2>2, <2>3 DEF Ordered
<1>4. ASSUME NEW t, t.assemblers \in [Ids -> Assemblies], Earlier(s, t) PROVE Earlier(u, t)
  <2> SUFFICES ASSUME NEW i \in Ids, NEW p \in t.assemblers[i], NEW k \in 1 .. Len(u), First(u[k], p[2])
               PROVE  p[1] < u[k].no
    BY DEF Earlier
  <2>1. p[2] \in Messages
    BY <1>4 DEF Assemblies, Parts
  <2>2. b(k) \in 1 .. Len(s) /\ u[k] = s[b(k)] /\ First(s[b(k)], p[2])
    BY <1>2, <2>1
  <2> QED BY <1>4, <2>2 DEF Earlier
<1>5. ASSUME NEW m \in Messages, NEW t, NEW a, NEW ids, DoneOK(m, s, t, a, ids)
      PROVE  DoneOK(m, u, t, a, ids)
  <2>1. Source(m) = a[1] /\ ids[m] # Invalid /\ HasId(t, ids[m])
    BY <1>5 DEF DoneOK
  <2>2. ASSUME NEW k \in 1 .. Len(u), First(u[k], m)
        PROVE  /\ 0 < u[k].no /\ Run(u, 1, k, m)
               /\ \A p \in t.assemblers[ids[m]] : 0 < p[1]
    <3>1. /\ b(k) \in 1 .. Len(s) /\ u[k] = s[b(k)] /\ First(s[b(k)], m)
          /\ Run(s, 1, b(k), m) => Run(u, 1, k, m)
      BY <1>2, <2>2
    <3> QED BY <1>5, <3>1 DEF DoneOK
  <2> QED BY <2>1, <2>2 DEF DoneOK
<1> QED BY <1>3, <1>4, <1>5

-----------------------------------------------------------------------------
(* The steps in which no data is sent first or received: what is new on    *)
(* its way, and how targets and queues change.                             *)

\* A packet that node q has sent node p in this step.
NewPacket(q, p, x) ==
  /\ p # q /\ x.from = Current(q, port)
  /\ x.type = "LEAVE" => port[q] < port'[q]
  /\ ~x.held
  /\ IsData(x) => /\ x.type = "DATA_RETRANSMISSION" /\ x.socket = "data_fd"
                  /\ \E i \in Ids : send_queue[q][i] # Free /\ send_queue[q][i].msg = x.msg
  /\ x.type = "ACK" /\ Kept => \A m \in Messages : SentAs(m, p, x.id, id_of) => delivered[m][q] > 0
CalmStreams ==
  /\ \A q, p \in Nodes : \A k \in 1 .. Len(net'[q][p]) :
       \/ \E j \in 1 .. Len(net[q][p]) : net'[q][p][k] = net[q][p][j]
       \/ NewPacket(q, p, net'[q][p][k])
  /\ Exact => \A q, p \in Nodes : \E e \in Nat : Trails(net[q][p], net'[q][p], e)
\* A target stays as it is, is new, or is forgotten: by a node that starts again, or
\* because its own has, where nothing is silent.
CalmTargets ==
  /\ \A n \in Nodes : \A a \in Knows(target', n) :
       \/ a \in Knows(target, n) /\ target'[n][a] = target[n][a]
       \/ target'[n][a] = NewTarget /\ a \notin Knows(target, n) /\ a[1] # n /\ a[2] <= port[a[1]]
  /\ \A n \in Nodes : \A a \in Knows(target, n) \ Knows(target', n) :
       /\ \A m \in Messages : Source(m) = a[1] => once'[m][n] = 0
       /\ Kept => port[n] < port'[n] \/ a[2] < port[a[1]]
  /\ \A m \in Messages, n \in Nodes : once'[m][n] \in {0, once[m][n]}
\* The queues lose messages, targets and bits, and gain the bits of an ACK.
CalmQueues ==
  \A n \in Nodes, i \in Ids : send_queue'[n][i] # Free =>
    /\ port'[n] = port[n] /\ send_queue[n][i] # Free /\ send_queue'[n][i].msg = send_queue[n][i].msg
    /\ \A a \in DOMAIN send_queue'[n][i].acked : send_queue'[n][i].acked[a] # Expired =>
         /\ a \in DOMAIN send_queue[n][i].acked /\ send_queue[n][i].acked[a] # Expired
         /\ \A f \in send_queue'[n][i].acked[a] :
              \/ f \in send_queue[n][i].acked[a]
              \/ \E j \in 1 .. Len(net[a[1]][n]) : LET x == net[a[1]][n][j] IN
                   x.type = "ACK" /\ x.id = i /\ x.from = a /\ f \in x.bits
CalmPorts ==
  /\ port' \in [Nodes -> Ports] /\ \A n \in Nodes : port[n] <= port'[n]
  /\ UNCHANGED <<scenario, packet_id_source, unsent, id_of, delivered>>
Calm == CalmStreams /\ CalmTargets /\ CalmQueues /\ CalmPorts

Promised ==
  /\ Sources(net', target', port') /\ Sendings(unsent', id_of', target', once')
  /\ Homes(net', target', send_queue', port', id_of', once')
  /\ Orderly(net', target', id_of', once')
  /\ Numbered(unsent', id_of', packet_id_source')
  /\ Safe(net', target', send_queue', port', delivered', id_of')

\* What Inv says, where it is used below.
LEMMA InvFacts ==
  ASSUME Inv
  PROVE  /\ scenario \in Scenarios /\ port \in [Nodes -> Ports] /\ Ports \subseteq Nat
         /\ id_of \in [Messages -> Ids \cup {Invalid}] /\ Invalid \notin Ids /\ \A m \in unsent : id_of[m] = Invalid
         /\ net \in [Nodes -> [Nodes -> Seq(Packets)]]
         /\ \A q, p \in Nodes : net[q][p] \in Seq(Packets) /\ Len(net[q][p]) \in Nat
         /\ \A q, p \in Nodes : \A k \in 1 .. Len(net[q][p]) : net[q][p][k] \in Packets /\ PacketOK(p, net[q][p][k], got, id_of)
         /\ \A n \in Nodes : \A a \in Knows(target, n) : a \in Addresses /\ TargetOK(n, a, target[n][a], got, id_of)
         /\ \A n \in Nodes, i \in Ids : QueueOK(n, i, send_queue[n][i], Knows(target, n), got, id_of)
         /\ delivered \in [Messages -> [Nodes -> 0 .. 2]] /\ once \in [Messages -> [Nodes -> 0 .. 2]]
<1>1. Types /\ Tables(target, send_queue, got, id_of)
      /\ Deliveries(delivered, once, corrupt, id_of) /\ Packeted(net, got, id_of)
  BY DEF Inv
<1>2. \A n : Knows(target, n) \subseteq Addresses
  BY DEF Knows
<1>3. scenario \in Scenarios /\ Invalid \notin Ids
  BY <1>1, Scenery DEF Types
<1>4. Ports \subseteq Nat
  BY NetworkAssumption DEF Ports
<1>5. net \in [Nodes -> [Nodes -> Seq(Packets)]] /\ \A q, p \in Nodes : StreamOK(p, net[q][p], got, id_of)
  BY <1>1 DEF Packeted
<1>6. \A q, p \in Nodes : net[q][p] \in Seq(Packets) /\ Len(net[q][p]) \in Nat
  BY <1>5
<1>7. \A q, p \in Nodes : \A k \in 1 .. Len(net[q][p]) : net[q][p][k] \in Packets /\ PacketOK(p, net[q][p][k], got, id_of)
  BY <1>5 DEF StreamOK, PacketOK
<1> QED BY <1>1, <1>2, <1>3, <1>4, <1>5, <1>6, <1>7 DEF Types, Tables, Deliveries

\* The steps that are Calm keep each of the promises.
LEMMA CalmSources ==
  ASSUME Inv, Promises, Calm
  PROVE  Sources(net', target', port')
<1>1. /\ port \in [Nodes -> Ports] /\ Ports \subseteq Nat /\ port' \in [Nodes -> Ports]
      /\ \A n \in Nodes : port[n] <= port'[n]
  BY InvFacts DEF Calm, CalmPorts
<1>2. Sources(net, target, port)
  BY DEF Promises
<1>3. ASSUME NEW q \in Nodes, NEW p \in Nodes, NEW k \in 1 .. Len(net'[q][p]), NEW x, x = net'[q][p][k]
      PROVE  /\ p # q /\ x.from[1] = q /\ x.from[2] <= port'[q]
             /\ x.type = "LEAVE" => x.from[2] < port'[q]
             /\ Placed(x)
  <2>1. CASE \E j \in 1 .. Len(net[q][p]) : x = net[q][p][j]
    <3>1. PICK j \in 1 .. Len(net[q][p]) : x = net[q][p][j]
      BY <2>1
    <3>2. /\ p # q /\ x.from[1] = q /\ x.from[2] <= port[q]
          /\ x.type = "LEAVE" => x.from[2] < port[q]
          /\ Placed(x)
      BY <1>2, <3>1 DEF Sources
    <3>3. x \in Packets
      BY <3>1, InvFacts
    <3>4. x.from \in Addresses
      BY <3>3, PacketFields
    <3>5. x.from[2] \in Nat /\ port[q] \in Nat /\ port'[q] \in Nat /\ port[q] <= port'[q]
      BY <1>1, <3>4 DEF Addresses
    <3> QED BY <3>2, <3>5
  <2>2. CASE NewPacket(q, p, x)
    <3>1. p # q /\ x.from = <<q, port[q]>> /\ (x.type = "LEAVE" => port[q] < port'[q])
      BY <2>2 DEF NewPacket, Current
    <3>2. port[q] \in Nat /\ port'[q] \in Nat /\ port[q] <= port'[q]
      BY <1>1
    <3>3. ASSUME x.type = "DATA_RETRANSMISSION" PROVE scenario.reliable[x.msg]
      <4>1. PICK i \in Ids : send_queue[q][i] # Free /\ send_queue[q][i].msg = x.msg
        BY <2>2, <3>3 DEF NewPacket, IsData
      <4>2. QueueOK(q, i, send_queue[q][i], Knows(target, q), got, id_of)
        BY InvFacts
      <4> QED BY <4>1, <4>2 DEF QueueOK
    <3>4. Placed(x)
      BY <2>2, <3>3 DEF NewPacket, Placed, DataSocket
    <3> QED BY <3>1, <3>2, <3>4
  <2> QED BY <1>3, <2>1, <2>2 DEF Calm, CalmStreams
<1>4. ASSUME NEW n \in Nodes, NEW a \in Knows(target', n) PROVE a[1] # n /\ a[2] <= port'[a[1]]
  <2>1. a[1] # n /\ a[2] <= port[a[1]]
    BY <1>2 DEF Calm, CalmTargets, Sources
  <2>2. a[1] \in Nodes /\ a[2] \in Nat
    BY <1>1 DEF Knows, Addresses
  <2>3. port[a[1]] \in Nat /\ port'[a[1]] \in Nat /\ port[a[1]] <= port'[a[1]]
    BY <1>1, <2>2
  <2> QED BY <2>1, <2>2, <2>3
<1> QED BY <1>3, <1>4 DEF Sources

LEMMA CalmSendings ==
  ASSUME Inv, Promises, Calm
  PROVE  Sendings(unsent', id_of', target', once')
<1>1. unsent' = unsent /\ id_of' = id_of
  BY DEF Calm, CalmPorts
<1>2. Sendings(unsent, id_of, target, once)
  BY DEF Promises
<1>3. ASSUME NEW m \in Messages, NEW n \in Nodes, once'[m][n] # 0
      PROVE  id_of[m] # Invalid /\ \E a \in Knows(target', n) : a[1] = Source(m)
  <2>1. once[m][n] # 0
    BY <1>3 DEF Calm, CalmTargets
  <2>2. PICK a \in Knows(target, n) : a[1] = Source(m)
    BY <1>2, <2>1 DEF Sendings
  <2>3. a \in Knows(target', n)
    BY <1>3, <2>2 DEF Calm, CalmTargets
  <2> QED BY <1>2, <2>1, <2>2, <2>3 DEF Sendings
<1> QED BY <1>1, <1>2, <1>3 DEF Sendings

LEMMA CalmHomes ==
  ASSUME Inv, Promises, Calm
  PROVE  Homes(net', target', send_queue', port', id_of', once')
<1> SUFFICES ASSUME NEW m \in Messages
             PROVE  \E a \in Addresses : HomeOK(m, a, net', target', send_queue', port', id_of', once')
  BY DEF Homes
<1>1. PICK a \in Addresses : HomeOK(m, a, net, target, send_queue, port, id_of, once)
  BY DEF Promises, Homes
<1>2. PICK n \in Nodes : n = Source(m)
  BY InvFacts, Scenery DEF Source
<1>3. /\ a[1] = n /\ id_of' = id_of
      /\ \A p \in Nodes : \A k \in 1 .. Len(net[n][p]) : Carries(net[n][p][k], m) => net[n][p][k].from = a
      /\ \A i \in Ids : send_queue[n][i] # Free /\ send_queue[n][i].msg = m => a = Current(n, port)
      /\ Exact => \A p \in Nodes : once[m][p] # 0 /\ scenario.reliable[m] =>
                    a \in Knows(target, p) /\ HasId(target[p][a], id_of[m])
  BY <1>1, <1>2 DEF HomeOK, Calm, CalmPorts
<1>4. ASSUME NEW p \in Nodes, NEW k \in 1 .. Len(net'[n][p]), NEW x, x = net'[n][p][k], Carries(x, m)
      PROVE  x.from = a
  <2>1. CASE \E j \in 1 .. Len(net[n][p]) : x = net[n][p][j]
    BY <1>3, <1>4, <2>1
  <2>2. CASE NewPacket(n, p, x)
    <3>1. x.from = Current(n, port) /\ \E i \in Ids : send_queue[n][i] # Free /\ send_queue[n][i].msg = m
      BY <1>4, <2>2 DEF NewPacket, Carries
    <3> QED BY <1>3, <3>1
  <2> QED BY <1>4, <2>1, <2>2 DEF Calm, CalmStreams
<1>5. \A i \in Ids : send_queue'[n][i] # Free /\ send_queue'[n][i].msg = m => a = Current(n, port')
  BY <1>3 DEF Calm, CalmQueues, Current
<1>6. ASSUME Exact, NEW p \in Nodes, once'[m][p] # 0, scenario.reliable[m]
      PROVE  a \in Knows(target', p) /\ HasId(target'[p][a], id_of[m])
  <2>1. once[m][p] # 0
    BY <1>6 DEF Calm, CalmTargets
  <2>2. a \in Knows(target, p) /\ HasId(target[p][a], id_of[m])
    BY <1>3, <1>6, <2>1
  <2>3. a \in Knows(target', p)
    BY <1>2, <1>3, <1>6, <2>2 DEF Calm, CalmTargets
  <2>4. target'[p][a] = target[p][a]
    BY <2>2, <2>3 DEF Calm, CalmTargets
  <2> QED BY <2>2, <2>3, <2>4
<1>7. HomeOK(m, a, net', target', send_queue', port', id_of', once')
  BY <1>2, <1>3, <1>4, <1>5, <1>6 DEF HomeOK
<1> QED BY <1>7

\* A target that is new has received and remembered nothing.
LEMMA NewTargetEmpty ==
  ASSUME scenario \in Scenarios
  PROVE  /\ NewTarget.index = 0 /\ NewTarget.assemblers \in [Ids -> Assemblies]
         /\ \A i \in Ids : NewTarget.assemblers[i] = {}
         /\ \A k \in 0 .. scenario.ring - 1 : NewTarget.recent[k] = Invalid
         /\ \A s : Earlier(s, NewTarget)
         /\ \A s, a, ids : Remembers(s, NewTarget, a, ids)
<1>1. /\ NewTarget.index = 0 /\ NewTarget.assemblers = [i \in Ids |-> {}]
      /\ NewTarget.recent = [k \in 0 .. scenario.ring - 1 |-> Invalid]
  BY DEF NewTarget
<1>2. \A s : Earlier(s, NewTarget)
  BY <1>1 DEF Earlier
<1>3. {} \in Assemblies
  BY FS_EmptySet DEF Assemblies
<1>4. ASSUME NEW s, NEW a, NEW ids PROVE Remembers(s, NewTarget, a, ids)
  <2>1. {} \in SUBSET scenario.messages /\ Cardinality({}) = NewTarget.index
    BY <1>1, FS_EmptySet
  <2> QED BY <2>1 DEF Remembers
<1> QED BY <1>1, <1>2, <1>3, <1>4

LEMMA CalmOrderly ==
  ASSUME Inv, Promises, Calm
  PROVE  Orderly(net', target', id_of', once')
<1> SUFFICES ASSUME Exact
             PROVE  /\ \A q, p \in Nodes : Ordered(net'[q][p])
                    /\ \A p \in Nodes : \A a \in Knows(target', p) :
                         /\ Earlier(net'[a[1]][p], target'[p][a])
                         /\ Remembers(net'[a[1]][p], target'[p][a], a, id_of')
                    /\ NotFirst(net', once')
  BY DEF Orderly
<1>1. /\ \A q, p \in Nodes : Ordered(net[q][p])
      /\ \A p \in Nodes : \A a \in Knows(target, p) :
           Earlier(net[a[1]][p], target[p][a]) /\ Remembers(net[a[1]][p], target[p][a], a, id_of)
      /\ NotFirst(net, once)
  BY DEF Promises, Orderly
<1>2. scenario \in Scenarios /\ id_of' = id_of
  BY InvFacts DEF Calm, CalmPorts
<1>3. \A q, p \in Nodes : \E e \in Nat : Trails(net[q][p], net'[q][p], e)
  BY DEF Calm, CalmStreams
<1>4. \A q, p \in Nodes : Len(net[q][p]) \in Nat /\ Len(net'[q][p]) \in Nat
  BY InvFacts DEF Calm, CalmStreams
<1>5. \A q, p \in Nodes : Ordered(net'[q][p])
  BY <1>1, <1>3, <1>4, TrailsKeep
<1>6. ASSUME NEW p \in Nodes, NEW a \in Knows(target', p)
      PROVE  /\ Earlier(net'[a[1]][p], target'[p][a])
             /\ Remembers(net'[a[1]][p], target'[p][a], a, id_of)
  <2>1. CASE a \in Knows(target, p) /\ target'[p][a] = target[p][a]
    <3>1. PICK t : t = target[p][a]
      OBVIOUS
    <3>2. PICK q \in Nodes : q = a[1]
      BY <2>1 DEF Knows, Addresses
    <3>3. t.assemblers \in [Ids -> Assemblies]
      BY <2>1, <3>1, InvFacts DEF TargetOK
    <3>4. Earlier(net[q][p], t) /\ Remembers(net[q][p], t, a, id_of)
      BY <1>1, <2>1, <3>1, <3>2
    <3>5. PICK e \in Nat : Trails(net[q][p], net'[q][p], e)
      BY <1>3
    <3>6. /\ Earlier(net'[q][p], t)
          /\ \A m \in Messages : DoneOK(m, net[q][p], t, a, id_of) => DoneOK(m, net'[q][p], t, a, id_of)
      BY <1>4, <3>3, <3>4, <3>5, TrailsKeep
    <3>7. scenario.messages \subseteq Messages
      BY <1>2, Scenery
    <3>8. Remembers(net'[q][p], t, a, id_of)
      BY <3>4, <3>6, <3>7 DEF Remembers
    <3> QED BY <2>1, <3>1, <3>2, <3>6, <3>8
  <2>2. CASE target'[p][a] = NewTarget
    BY <1>2, <2>2, NewTargetEmpty
  <2> QED BY <2>1, <2>2 DEF Calm, CalmTargets
<1>7. NotFirst(net', once')
  <2> SUFFICES ASSUME NEW m \in Messages, NEW p \in Nodes, once'[m][p] # 0,
                      NEW k \in 1 .. Len(net'[Source(m)][p]), First(net'[Source(m)][p][k], m)
               PROVE  FALSE
    BY DEF NotFirst
  <2>1. PICK q \in Nodes : q = Source(m)
    BY <1>2, Scenery DEF Source
  <2>2. once[m][p] # 0
    BY DEF Calm, CalmTargets
  <2>3. PICK e \in Nat : Trails(net[q][p], net'[q][p], e)
    BY <1>3
  <2>4. Behind(k, e) \in 1 .. Len(net[q][p]) /\ k \in 1 .. k /\ net'[q][p][k] = net[q][p][Behind(k, e)]
    BY <2>1, <2>3 DEF Trails
  <2> QED BY <1>1, <2>1, <2>2, <2>4 DEF NotFirst
<1> QED BY <1>2, <1>5, <1>6, <1>7

LEMMA CalmSafe ==
  ASSUME Inv, Promises, Calm
  PROVE  Safe(net', target', send_queue', port', delivered', id_of')
<1> SUFFICES ASSUME Kept
             PROVE  /\ IsFresh(id_of) /\ Remembered(target', delivered, id_of)
                    /\ Bounded(net', target', send_queue', port', delivered)
  BY DEF Safe, Calm, CalmPorts
<1>1. /\ IsFresh(id_of) /\ Remembered(target, delivered, id_of)
      /\ Bounded(net, target, send_queue, port, delivered) /\ Sources(net, target, port)
  BY DEF Promises, Safe
<1>2. /\ scenario \in Scenarios /\ port \in [Nodes -> Ports] /\ Ports \subseteq Nat
      /\ port' \in [Nodes -> Ports] /\ \A n \in Nodes : port[n] <= port'[n]
      /\ \A n \in Nodes, i \in Ids : QueueOK(n, i, send_queue[n][i], Knows(target, n), got, id_of)
  BY InvFacts DEF Calm, CalmPorts
<1>3. Remembered(target', delivered, id_of)
  <2> SUFFICES ASSUME NEW n \in Nodes, NEW a \in Knows(target', n), NEW m \in Messages,
                      Source(m) = a[1], id_of[m] # Invalid,
                      NEW k \in 0 .. scenario.ring - 1, target'[n][a].recent[k] = id_of[m]
               PROVE  delivered[m][n] > 0
    BY DEF Remembered
  <2>1. target'[n][a] # NewTarget
    BY <1>2, NewTargetEmpty
  <2>2. a \in Knows(target, n) /\ target'[n][a] = target[n][a]
    BY <2>1 DEF Calm, CalmTargets
  <2> QED BY <1>1, <2>2 DEF Remembered
<1>4. ASSUME NEW q \in Nodes, NEW i \in Ids, send_queue'[q][i] # Free, NEW a \in DOMAIN send_queue'[q][i].acked,
             send_queue'[q][i].acked[a] # Expired, NEW m, m = send_queue'[q][i].msg
      PROVE  \/ delivered[m][a[1]] > 0
             \/ \E H : Bound(q, i, m, a, H, send_queue'[q][i].acked[a], net', target', port')
  <2>1. /\ port'[q] = port[q] /\ send_queue[q][i] # Free /\ m = send_queue[q][i].msg
        /\ a \in DOMAIN send_queue[q][i].acked /\ send_queue[q][i].acked[a] # Expired
        /\ \A f \in send_queue'[q][i].acked[a] :
              \/ f \in send_queue[q][i].acked[a]
              \/ \E j \in 1 .. Len(net[a[1]][q]) : LET x == net[a[1]][q][j] IN
                   x.type = "ACK" /\ x.id = i /\ x.from = a /\ f \in x.bits
    BY <1>4 DEF Calm, CalmQueues
  <2>2. /\ m \in Messages /\ SentAs(m, q, i, id_of) /\ a \in Knows(target, q) /\ a \in Addresses
    BY <1>2, <2>1 DEF QueueOK, EntryOK
  <2>3. PICK p \in Nodes : p = a[1]
    BY <2>2 DEF Addresses
  <2> SUFFICES ASSUME ~(delivered[m][p] > 0)
               PROVE  \E H : Bound(q, i, m, a, H, send_queue'[q][i].acked[a], net', target', port')
    BY <2>3
  <2>4. PICK H : Bound(q, i, m, a, H, send_queue[q][i].acked[a], net, target, port)
    BY <1>1, <2>1, <2>3 DEF Bounded
  <2>5. /\ H \subseteq Fragments(m) /\ H # Fragments(m) /\ send_queue[q][i].acked[a] \cap Fragments(m) \subseteq H
        /\ \A k \in 1 .. Len(net[p][q]) :
             LET x == net[p][q][k] IN x.type = "ACK" /\ x.id = i /\ x.from = a => x.bits \subseteq H
        /\ a = Current(p, port) => \A f \in H :
             /\ Current(q, port) \in Knows(target, p)
             /\ <<f, m>> \in target[p][Current(q, port)].assemblers[i]
    BY <2>3, <2>4 DEF Bound
  <2>6. send_queue'[q][i].acked[a] \cap Fragments(m) \subseteq H
    BY <2>1, <2>3, <2>5
  <2>7. ASSUME NEW k \in 1 .. Len(net'[p][q]), NEW x, x = net'[p][q][k],
               x.type = "ACK", x.id = i, x.from = a
        PROVE  x.bits \subseteq H
    <3>1. CASE \E j \in 1 .. Len(net[p][q]) : x = net[p][q][j]
      BY <2>5, <2>7, <3>1
    <3>2. CASE NewPacket(p, q, x)
      BY <2>2, <2>7, <3>2 DEF NewPacket
    <3> QED BY <2>7, <3>1, <3>2 DEF Calm, CalmStreams
  <2>8. ASSUME a = Current(p, port'), NEW f \in H
        PROVE  /\ Current(q, port') \in Knows(target', p)
               /\ <<f, m>> \in target'[p][Current(q, port')].assemblers[i]
    <3>1. a[2] <= port[p] /\ a[2] = port'[p]
      BY <1>1, <2>2, <2>3, <2>8 DEF Sources, Current
    <3>0. port[p] \in Nat /\ port[q] \in Nat /\ port'[p] \in Nat /\ port[p] <= port'[p]
      BY <1>2
    <3>2. port'[p] = port[p]
      BY <3>0, <3>1
    <3>3. Current(q, port') = Current(q, port) /\ a = Current(p, port)
      BY <2>1, <2>8, <3>2 DEF Current
    <3>4. PICK b : b = Current(q, port)
      OBVIOUS
    <3>5. b \in Knows(target, p) /\ <<f, m>> \in target[p][b].assemblers[i]
      BY <2>5, <2>8, <3>3, <3>4
    <3>6. b[1] = q /\ b[2] = port[q]
      BY <3>4 DEF Current
    <3>7. ~(port[p] < port'[p]) /\ ~(b[2] < port[b[1]])
      BY <3>0, <3>2, <3>6
    <3>8. b \in Knows(target', p)
      BY <3>5, <3>7 DEF Calm, CalmTargets
    <3>9. target'[p][b] = target[p][b]
      BY <3>5, <3>8 DEF Calm, CalmTargets
    <3> QED BY <3>3, <3>4, <3>5, <3>8, <3>9
  <2>9. Bound(q, i, m, a, H, send_queue'[q][i].acked[a], net', target', port')
    BY <2>3, <2>5, <2>6, <2>7, <2>8 DEF Bound
  <2> QED BY <2>9
<1>5. Bounded(net', target', send_queue', port', delivered)
  BY <1>4 DEF Bounded
<1> QED BY <1>1, <1>3, <1>5

LEMMA CalmKeeps ==
  ASSUME Inv, Promises, Calm
  PROVE  Promised
<1>1. Numbered(unsent', id_of', packet_id_source')
  BY DEF Promises, Calm, CalmPorts
<1> QED BY <1>1, CalmSources, CalmSendings, CalmHomes, CalmOrderly, CalmSafe DEF Promised

-----------------------------------------------------------------------------
(* The steps that are calm.                                                *)

\* Targets, queues and ports that are as they were, are Calm.
LEMMA SameTargets ==
  ASSUME UNCHANGED <<target, once>>, once \in [Messages -> [Nodes -> 0 .. 2]]
  PROVE  CalmTargets
<1>1. \A n : Knows(target', n) = Knows(target, n)
  BY DEF Knows
<1> QED BY <1>1 DEF CalmTargets

LEMMA SameQueues ==
  ASSUME UNCHANGED <<send_queue, port>>
  PROVE  CalmQueues
  BY DEF CalmQueues

LEMMA SamePorts ==
  ASSUME Inv, UNCHANGED <<scenario, port, packet_id_source, unsent, id_of, delivered>>
  PROVE  CalmPorts
<1>1. port \in [Nodes -> Nat]
  BY InvFacts
<1> QED BY <1>1, InvFacts DEF CalmPorts

\* What is sent comes behind what is on its way.
LEMMA TransmitFlow ==
  ASSUME Inv, NEW n \in Nodes, NEW sent, \A p \in Nodes : sent[p] \in Seq(Packets), Transmit(n, sent)
  PROVE  \A q, p \in Nodes :
           /\ net'[q][p] \in Seq(Packets)
           /\ \A k \in 1 .. Len(net'[q][p]) :
                \/ k \in 1 .. Len(net[q][p]) /\ net'[q][p][k] = net[q][p][k]
                \/ /\ q = n /\ k > Len(net[q][p]) /\ k - Len(net[q][p]) \in 1 .. Len(sent[p])
                   /\ net'[q][p][k] = sent[p][k - Len(net[q][p])]
<1> SUFFICES ASSUME NEW q \in Nodes, NEW p \in Nodes
             PROVE  /\ net'[q][p] \in Seq(Packets)
                    /\ \A k \in 1 .. Len(net'[q][p]) :
                         \/ k \in 1 .. Len(net[q][p]) /\ net'[q][p][k] = net[q][p][k]
                         \/ /\ q = n /\ k > Len(net[q][p]) /\ k - Len(net[q][p]) \in 1 .. Len(sent[p])
                            /\ net'[q][p][k] = sent[p][k - Len(net[q][p])]
  OBVIOUS
<1>1. /\ scenario \in Scenarios /\ net \in [Nodes -> [Nodes -> Seq(Packets)]] /\ net[q][p] \in Seq(Packets)
  BY InvFacts
<1>2. net'[q][p] = IF q = n THEN Fit(net[n][p] \o sent[p]) ELSE net[q][p]
  BY <1>1 DEF Transmit
<1>3. CASE q = n
  BY <1>1, <1>2, <1>3, Cropped
<1>4. CASE q # n
  BY <1>1, <1>2, <1>4
<1> QED BY <1>3, <1>4

\* A stream that only what does not come first is added to.
LEMMA TrailsBehind ==
  ASSUME NEW s, Len(s) \in Nat, NEW u, NEW t,
         \A k \in 1 .. Len(u) : \/ k \in 1 .. Len(s) /\ u[k] = s[k]
                                \/ k > Len(s) /\ k - Len(s) \in 1 .. Len(t) /\ u[k] = t[k - Len(s)],
         \A j \in 1 .. Len(t) : t[j].type # "DATA"
  PROVE  Trails(s, u, Len(s) + 1)
<1> SUFFICES ASSUME NEW m \in Messages, NEW k \in 1 .. Len(u), First(u[k], m)
             PROVE  /\ Behind(k, Len(s) + 1) \in 1 .. Len(s)
                    /\ \A l \in 1 .. k : u[l] = s[Behind(l, Len(s) + 1)]
  BY DEF Trails
<1>1. k \in 1 .. Len(s)
  BY DEF First
<1>2. \A l \in 1 .. k : /\ l \in 1 .. Len(u) /\ l \in 1 .. Len(s) /\ ~(l > Len(s))
                       /\ Behind(l, Len(s) + 1) = l
  BY <1>1 DEF Behind
<1> QED BY <1>1, <1>2

\* A stream that is as it was.
LEMMA TrailsSame ==
  ASSUME NEW s, Len(s) \in Nat
  PROVE  Trails(s, s, Len(s) + 1)
<1>1. \A l \in 1 .. Len(s) : Behind(l, Len(s) + 1) = l
  BY DEF Behind
<1>2. \A k \in 1 .. Len(s) : \A l \in 1 .. k : l \in 1 .. Len(s)
  OBVIOUS
<1> QED BY <1>1, <1>2 DEF Trails

\* So are links to which only new packets that are no first transmissions are added.
LEMMA CalmTransmit ==
  ASSUME Inv, NEW n \in Nodes, NEW sent, Transmit(n, sent),
         \A p \in Nodes : sent[p] \in Seq(Packets) /\ \A j \in 1 .. Len(sent[p]) : NewPacket(n, p, sent[p][j])
  PROVE  CalmStreams
<1>1. \A q, p \in Nodes : \A k \in 1 .. Len(net'[q][p]) :
                \/ k \in 1 .. Len(net[q][p]) /\ net'[q][p][k] = net[q][p][k]
                \/ /\ q = n /\ k > Len(net[q][p]) /\ k - Len(net[q][p]) \in 1 .. Len(sent[p])
                   /\ net'[q][p][k] = sent[p][k - Len(net[q][p])]
  BY TransmitFlow
<1>2. \A q, p \in Nodes : \A k \in 1 .. Len(net'[q][p]) :
       \/ \E j \in 1 .. Len(net[q][p]) : net'[q][p][k] = net[q][p][j]
       \/ NewPacket(q, p, net'[q][p][k])
  BY <1>1
<1>3. ASSUME NEW q \in Nodes, NEW p \in Nodes PROVE \E e \in Nat : Trails(net[q][p], net'[q][p], e)
  <2>1. \A j \in 1 .. Len(sent[p]) : sent[p][j].type # "DATA"
    BY DEF NewPacket, IsData
  <2>2. Len(net[q][p]) \in Nat /\ Len(net[q][p]) + 1 \in Nat
    BY InvFacts
  <2>3. Trails(net[q][p], net'[q][p], Len(net[q][p]) + 1)
    BY <1>1, <2>1, <2>2, TrailsBehind
  <2> QED BY <2>2, <2>3
<1> QED BY <1>2, <1>3 DEF CalmStreams

LEMMA CalmNet ==
  ASSUME Inv, UNCHANGED net
  PROVE  CalmStreams
<1>1. ASSUME NEW q \in Nodes, NEW p \in Nodes PROVE \E e \in Nat : Trails(net[q][p], net'[q][p], e)
  <2>1. Len(net[q][p]) \in Nat /\ Len(net[q][p]) + 1 \in Nat
    BY InvFacts
  <2> QED BY <2>1, TrailsSame
<1> QED BY <1>1 DEF CalmStreams

LEMMA AnnounceNew ==
  ASSUME NEW n \in Nodes, NEW p \in Nodes, p # n
  PROVE  \A socket : NewPacket(n, p, Announce(n, socket))
  BY DEF NewPacket, Announce, Address, Current, IsData

\* Announcing, losing, timing out, retransmitting and resetting are Calm.
LEMMA AnnounceSelfCalm ==
  ASSUME Inv, NEW n \in Nodes, AnnounceSelf(n)
  PROVE  Calm
<1>1. PICK sent : sent = Multicast(n, <<Announce(n, "announce_fd")>>)
  OBVIOUS
<1>2. Transmit(n, sent) /\ UNCHANGED <<scenario, port, target, send_queue, packet_id_source, unsent, delivered, once, id_of>>
  BY <1>1 DEF AnnounceSelf, history
<1>3. ASSUME NEW p \in Nodes
      PROVE  sent[p] \in Seq(Packets) /\ \A j \in 1 .. Len(sent[p]) : NewPacket(n, p, sent[p][j])
  <2>1. Announce(n, "announce_fd") \in Packets
    BY AnnounceOK DEF PacketOK, Inv, Sockets
  <2>2. PICK x \in Packets : x = Announce(n, "announce_fd")
    BY <2>1
  <2>3. p = n \/ p \notin scenario.nodes => sent[p] = <<>>
    BY <1>1 DEF Multicast
  <2>4. ~(p = n \/ p \notin scenario.nodes) => sent[p] = <<x>>
    BY <1>1, <2>2 DEF Multicast
  <2>5. p # n => NewPacket(n, p, x)
    BY <2>2, AnnounceNew
  <2>6. CASE sent[p] = <<>>
    BY <2>6
  <2>7. CASE p # n /\ sent[p] = <<x>>
    <3>1. <<x>> \in Seq(Packets) /\ Len(<<x>>) = 1 /\ <<x>>[1] = x
      OBVIOUS
    <3> QED BY <2>5, <2>7, <3>1
  <2> QED BY <2>3, <2>4, <2>6, <2>7
<1> QED BY <1>2, <1>3, CalmTransmit, SameTargets, SameQueues, SamePorts, InvFacts DEF Calm

LEMMA LoseCalm ==
  ASSUME Inv, NEW n \in Nodes, NEW q \in Nodes, Lose(n, q)
  PROVE  Calm
<1>1. /\ net' = [net EXCEPT ![q][n] = Tail(@)] /\ net[q][n] # <<>>
      /\ UNCHANGED <<scenario, port, target, send_queue, packet_id_source, unsent, delivered, once, id_of>>
  BY DEF Lose, history
<1>2. net \in [Nodes -> [Nodes -> Seq(Packets)]] /\ \A r, p \in Nodes : net[r][p] \in Seq(Packets) /\ Len(net[r][p]) \in Nat
  BY InvFacts
<1>3. \A r, p \in Nodes : net'[r][p] = IF r = q /\ p = n THEN Tail(net[q][n]) ELSE net[r][p]
  BY <1>1, <1>2
<1>4. PICK s \in Seq(Packets) : s = net[q][n] /\ s # <<>>
  BY <1>1, <1>2
<1>5. Len(Tail(s)) = Len(s) - 1 /\ Len(s) \in Nat /\ \A k \in 1 .. Len(s) - 1 : k + 1 \in 1 .. Len(s) /\ Tail(s)[k] = s[k + 1]
  BY <1>4
<1>6. ASSUME NEW r \in Nodes, NEW p \in Nodes
      PROVE  /\ \A k \in 1 .. Len(net'[r][p]) : \E j \in 1 .. Len(net[r][p]) : net'[r][p][k] = net[r][p][j]
             /\ \E e \in Nat : Trails(net[r][p], net'[r][p], e)
  <2>1. CASE r = q /\ p = n
    <3>1. Trails(s, Tail(s), 1)
      <4> SUFFICES ASSUME NEW k \in 1 .. Len(Tail(s))
                   PROVE  Behind(k, 1) \in 1 .. Len(s) /\ \A l \in 1 .. k : Tail(s)[l] = s[Behind(l, 1)]
        BY DEF Trails
      <4>1. k \in 1 .. Len(s) - 1 /\ \A l \in 1 .. k : l \in 1 .. Len(s) - 1 /\ Behind(l, 1) = l + 1
        BY <1>5 DEF Behind
      <4> QED BY <1>5, <4>1
    <3>2. \A k \in 1 .. Len(Tail(s)) : \E j \in 1 .. Len(s) : Tail(s)[k] = s[j]
      BY <1>5
    <3>3. net[r][p] = s /\ net'[r][p] = Tail(s)
      BY <1>3, <1>4, <2>1
    <3>4. \E e \in Nat : Trails(s, Tail(s), e)
      BY <3>1
    <3> QED BY <3>2, <3>3, <3>4
  <2>2. CASE ~(r = q /\ p = n)
    <3>1. net'[r][p] = net[r][p]
      BY <1>3, <2>2
    <3>2. Trails(net[r][p], net[r][p], Len(net[r][p]) + 1) /\ Len(net[r][p]) + 1 \in Nat
      <4>1. Len(net[r][p]) \in Nat
        BY <1>2, <1>6
      <4> QED BY <4>1, TrailsSame
    <3>3. \E e \in Nat : Trails(net[r][p], net[r][p], e)
      BY <3>2
    <3>4. \A k \in 1 .. Len(net[r][p]) : \E j \in 1 .. Len(net[r][p]) : net[r][p][k] = net[r][p][j]
      OBVIOUS
    <3> QED BY <3>1, <3>3, <3>4
  <2> QED BY <2>1, <2>2
<1>7. CalmStreams
  BY <1>6 DEF CalmStreams
<1> QED BY <1>1, <1>7, SameTargets, SameQueues, SamePorts, InvFacts DEF Calm

\* Forgetting targets, of nodes that started again if nothing is silent.
LEMMA ForgetCalm ==
  ASSUME Inv, NEW n \in Nodes, NEW S, S \subseteq Known(n), Forget(n, S), UNCHANGED port,
         Kept => \A a \in S : a[2] < port[a[1]]
  PROVE  CalmTargets /\ CalmQueues
<1>1. /\ target = [m \in Nodes |-> [b \in Addresses |-> target[m][b]]]
      /\ send_queue = [m \in Nodes |-> [i \in Ids |-> send_queue[m][i]]]
      /\ once \in [Messages -> [Nodes -> 0 .. 2]]
      /\ \A m \in Nodes, i \in Ids : QueueOK(m, i, send_queue[m][i], Knows(target, m), got, id_of)
  BY InvFacts DEF Inv, Tables
<1>2. /\ target' = [target EXCEPT ![n] = [a \in Addresses |-> IF a \in S THEN Unknown ELSE target[n][a]]]
      /\ send_queue' = [send_queue EXCEPT ![n] = Expire(send_queue[n], S)]
      /\ once' = [m \in Messages |->
           [once[m] EXCEPT ![n] = IF scenario.source[m] \in {a[1] : a \in S} THEN 0 ELSE @]]
  BY DEF Forget
<1>3. \A m \in Nodes, b \in Addresses : target'[m][b] = IF m = n /\ b \in S THEN Unknown ELSE target[m][b]
  BY <1>1, <1>2
<1>4. \A m \in Nodes : Knows(target', m) = IF m = n THEN Knows(target, m) \ S ELSE Knows(target, m)
  BY <1>3 DEF Knows
<1>5. \A m \in Messages, p \in Nodes :
        once'[m][p] = IF p = n /\ Source(m) \in {a[1] : a \in S} THEN 0 ELSE once[m][p]
  BY <1>1, <1>2 DEF Source
<1>6. CalmTargets
  <2>1. ASSUME NEW m \in Nodes, NEW a \in Knows(target', m)
        PROVE  a \in Knows(target, m) /\ target'[m][a] = target[m][a]
    BY <1>3, <1>4 DEF Knows
  <2>2. ASSUME NEW m \in Nodes, NEW a \in Knows(target, m) \ Knows(target', m) PROVE m = n /\ a \in S
    BY <1>4
  <2> QED BY <1>5, <2>1, <2>2 DEF CalmTargets
<1>7. CalmQueues
  <2> SUFFICES ASSUME NEW m \in Nodes, NEW i \in Ids, send_queue'[m][i] # Free
               PROVE  /\ send_queue[m][i] # Free /\ send_queue'[m][i].msg = send_queue[m][i].msg
                      /\ \A a \in DOMAIN send_queue'[m][i].acked : send_queue'[m][i].acked[a] # Expired =>
                           /\ a \in DOMAIN send_queue[m][i].acked
                           /\ send_queue'[m][i].acked[a] = send_queue[m][i].acked[a]
    BY DEF CalmQueues
  <2>1. CASE m # n
    BY <1>1, <1>2, <2>1
  <2>2. CASE m = n
    <3>1. PICK q : q = send_queue[n][i]
      OBVIOUS
    <3>2. send_queue'[n][i] = IF q = Free THEN Free ELSE
            [q EXCEPT !.acked = [a \in DOMAIN q.acked |-> IF a \in S THEN Expired ELSE q.acked[a]]]
      BY <1>1, <1>2, <3>1 DEF Expire
    <3>3. q # Free
      BY <2>2, <3>2
    <3>4. q \in [msg : Messages, acked : {q.acked}]
      BY <1>1, <3>1, <3>3 DEF QueueOK
    <3>5. PICK r : r = send_queue'[n][i]
      OBVIOUS
    <3>6. r.msg = q.msg /\ r.acked = [a \in DOMAIN q.acked |-> IF a \in S THEN Expired ELSE q.acked[a]]
      BY <3>2, <3>3, <3>4, <3>5
    <3> QED BY <2>2, <3>1, <3>3, <3>5, <3>6
  <2> QED BY <2>1, <2>2
<1> QED BY <1>6, <1>7

LEMMA TimeOutCalm ==
  ASSUME Inv, NEW n \in Nodes, TimeOut(n)
  PROVE  Calm
<1>1. PICK S \in SUBSET Known(n) \ {{}} : Forget(n, S)
  BY DEF TimeOut
<1>2. UNCHANGED <<scenario, port, packet_id_source, net, unsent, delivered, id_of>> /\ ~Kept
  BY DEF TimeOut, Kept
<1> QED BY <1>1, <1>2, ForgetCalm, CalmNet, SamePorts DEF Calm

\* What is sent again is of a message in the queue.
LEMMA ResentNew ==
  ASSUME NEW n \in Nodes, NEW p \in Nodes, p # n, NEW W, IsFiniteSet(W), W \subseteq Nat \X Nat,
         \A d \in W : d[1] \in Used(n), NEW s, s = Cut(n, "DATA_RETRANSMISSION", Queued(n), W)
  PROVE  \A j \in 1 .. Len(s) : NewPacket(n, p, s[j])
<1> SUFFICES ASSUME NEW j \in 1 .. Len(s) PROVE NewPacket(n, p, s[j])
  OBVIOUS
<1>1. PICK d \in W : s[j] = Data(n, "DATA_RETRANSMISSION", Queued(n)[d[1]], d[1], d[2])
  BY CutOK
<1>2. PICK x : x = s[j]
  OBVIOUS
<1>3. /\ x.type = "DATA_RETRANSMISSION" /\ x.from = <<n, port[n]>> /\ x.msg = Queued(n)[d[1]]
      /\ ~x.held /\ x.socket = "data_fd"
  BY <1>1, <1>2 DEF Data, Address, DataSocket
<1>4. Queued(n)[d[1]] = send_queue[n][d[1]].msg /\ d[1] \in Ids /\ send_queue[n][d[1]] # Free
  BY DEF Queued, Used
<1> QED BY <1>2, <1>3, <1>4 DEF NewPacket, Current

LEMMA RetransmitCalm ==
  ASSUME Inv, Promises, NEW n \in Nodes, NEW due \in SUBSET Entries(n), Retransmit(n, due)
  PROVE  Calm
<1>1. /\ Types /\ scenario \in Scenarios
      /\ send_queue = [m \in Nodes |-> [i \in Ids |-> send_queue[m][i]]]
      /\ \A m \in Nodes, i \in Ids : QueueOK(m, i, send_queue[m][i], Knows(target, m), got, id_of)
  BY DEF Inv, Types, Tables
<1>2. UNCHANGED <<scenario, port, target, packet_id_source, unsent, delivered, once, id_of>>
  BY DEF Retransmit, history
<1>3. PICK sent : sent = [p \in Nodes |-> Cut(n, "DATA_RETRANSMISSION", Queued(n), Wanted(n, p, due))]
  OBVIOUS
<1>4. Transmit(n, sent)
  BY <1>3, Zenon DEF Retransmit
<1>5. ASSUME NEW p \in Nodes
      PROVE  sent[p] \in Seq(Packets) /\ \A j \in 1 .. Len(sent[p]) : NewPacket(n, p, sent[p][j])
  <2>1. PICK W : W = Wanted(n, p, due)
    OBVIOUS
  <2>2. IsFiniteSet(W) /\ \A d \in W : /\ d = <<d[1], d[2]>> /\ d[1] \in Used(n)
                                       /\ d[2] \in Fragments(send_queue[n][d[1]].msg)
    BY <2>1, WantedOK
  <2>3. PICK messages : messages = Queued(n)
    OBVIOUS
  <2>4. \A i \in Used(n) : /\ i \in Ids /\ messages[i] = send_queue[n][i].msg
                           /\ messages[i] \in Messages /\ SentAs(messages[i], n, i, id_of)
    BY <1>1, <2>3 DEF Used, Queued, QueueOK
  <2>5. W \subseteq Ids \X Nat /\ W \subseteq Nat \X Nat
    <3>1. (\A m \in Messages : Fragments(m) \subseteq Nat) /\ Ids \subseteq Nat
      BY <1>1, MessageParts, Scenery
    <3>2. \A d \in W : d = <<d[1], d[2]>> /\ d[1] \in Ids /\ d[2] \in Nat
      BY <2>2, <2>4, <3>1
    <3> QED BY <3>1, <3>2
  <2>6. \A d \in W : /\ messages[d[1]] \in Messages /\ SentAs(messages[d[1]], n, d[1], id_of)
                     /\ d[2] \in Fragments(messages[d[1]])
    BY <2>2, <2>4
  <2>7. StreamOK(p, Cut(n, "DATA_RETRANSMISSION", messages, W), got, id_of)
    BY <1>1, <2>2, <2>5, <2>6, CutStream
  <2>8. sent[p] = Cut(n, "DATA_RETRANSMISSION", messages, W) /\ sent[p] \in Seq(Packets)
    BY <1>3, <2>1, <2>3, <2>7 DEF StreamOK
  <2>9. ASSUME W # {} PROVE p # n
    <3>1. PICK e \in due : e[2] = Address(p)
      BY <2>1, <2>9 DEF Wanted
    <3>2. e[1] \in Ids /\ send_queue[n][e[1]] # Free /\ e[2] \in Live(n, e[1])
      BY DEF Entries, Used
    <3>3. e[2] \in Knows(target, n)
      BY <1>1, <3>2 DEF Live, QueueOK, EntryOK
    <3>4. e[2][1] # n
      BY <3>3 DEF Promises, Sources
    <3> QED BY <3>1, <3>4 DEF Address
  <2>10. CASE W = {}
    <3>1. Len(sent[p]) = 0
      BY <2>8, <2>10, FS_EmptySet DEF Cut
    <3> QED BY <2>8, <3>1
  <2>11. CASE W # {}
    <3>1. p # n /\ \A d \in W : d[1] \in Used(n)
      BY <2>2, <2>9, <2>11
    <3> QED BY <2>2, <2>3, <2>5, <2>8, <3>1, ResentNew
  <2> QED BY <2>10, <2>11
<1>6. CalmQueues
  <2> SUFFICES ASSUME NEW m \in Nodes, NEW i \in Ids, send_queue'[m][i] # Free
               PROVE  /\ send_queue[m][i] # Free /\ send_queue'[m][i].msg = send_queue[m][i].msg
                      /\ \A a \in DOMAIN send_queue'[m][i].acked : send_queue'[m][i].acked[a] # Expired =>
                           /\ a \in DOMAIN send_queue[m][i].acked
                           /\ send_queue'[m][i].acked[a] = send_queue[m][i].acked[a]
    BY <1>2 DEF CalmQueues
  <2>1. send_queue' = [send_queue EXCEPT ![n] =
         [j \in Ids |-> IF j \notin Used(n) \/ Live(n, j) = {} THEN Free
                        ELSE [send_queue[n][j] EXCEPT !.acked =
                                [a \in Live(n, j) |-> send_queue[n][j].acked[a]]]]]
    BY Zenon DEF Retransmit
  <2>2. CASE m # n
    BY <1>1, <2>1, <2>2
  <2>3. CASE m = n
    <3>1. PICK q : q = send_queue[n][i]
      OBVIOUS
    <3>2. send_queue'[n][i] = IF i \notin Used(n) \/ Live(n, i) = {} THEN Free
                              ELSE [q EXCEPT !.acked = [a \in Live(n, i) |-> q.acked[a]]]
      BY <1>1, <2>1, <3>1
    <3>3. q # Free
      BY <2>3, <3>1, <3>2 DEF Used
    <3>4. q \in [msg : Messages, acked : {q.acked}]
      BY <1>1, <3>1, <3>3 DEF QueueOK
    <3>5. PICK r : r = send_queue'[n][i]
      OBVIOUS
    <3>6. PICK live : live = Live(n, i)
      OBVIOUS
    <3>7. r = [q EXCEPT !.acked = [a \in live |-> q.acked[a]]]
      BY <2>3, <3>2, <3>5, <3>6
    <3>8. r.msg = q.msg /\ r.acked = [a \in live |-> q.acked[a]]
      BY <3>4, <3>7
    <3>9. live \subseteq DOMAIN q.acked
      BY <3>1, <3>6 DEF Live
    <3> QED BY <2>3, <3>1, <3>3, <3>5, <3>8, <3>9
  <2> QED BY <2>2, <2>3
<1>7. CalmStreams
  BY <1>4, <1>5, CalmTransmit
<1> QED BY <1>2, <1>6, <1>7, SameTargets, SamePorts, InvFacts DEF Calm

LEMMA ResetCalm ==
  ASSUME Inv, NEW n \in Nodes, Reset(n)
  PROVE  Calm
<1>1. /\ scenario \in Scenarios /\ port \in [Nodes -> Ports] /\ Ports \subseteq Nat
      /\ net \in [Nodes -> [Nodes -> Seq(Packets)]]
      /\ \A q, p \in Nodes : net[q][p] \in Seq(Packets) /\ Len(net[q][p]) \in Nat
      /\ once \in [Messages -> [Nodes -> 0 .. 2]]
      /\ target = [m \in Nodes |-> [b \in Addresses |-> target[m][b]]]
      /\ send_queue = [m \in Nodes |-> [i \in Ids |-> send_queue[m][i]]]
  BY InvFacts DEF Inv, Tables
<1>2. /\ port[n] < scenario.resets /\ port' = [port EXCEPT ![n] = port[n] + 1]
      /\ target' = [target EXCEPT ![n] = [a \in Addresses |-> Unknown]]
      /\ send_queue' = [send_queue EXCEPT ![n] = [i \in Ids |-> Free]]
      /\ net' = [q \in Nodes |-> [p \in Nodes |->
               IF p = n THEN <<>>
               ELSE IF q = n /\ Len(net[n][p]) < scenario.buffer THEN Append(net[n][p], LeavePacket(n))
               ELSE net[q][p]]]
      /\ once' = [m \in Messages |-> [once[m] EXCEPT ![n] = 0]]
      /\ UNCHANGED <<scenario, packet_id_source, unsent, delivered, id_of>>
  BY DEF Reset
<1>3. CalmPorts /\ port'[n] = port[n] + 1 /\ port[n] < port'[n] /\ \A m \in Nodes : m # n => port'[m] = port[m]
  <2>1. scenario.resets \in 0 .. MaxResets /\ MaxResets \in Nat
    BY <1>1, NetworkAssumption
  <2>2. port[n] \in Nat /\ port[n] + 1 \in Ports
    BY <1>1, <1>2, <2>1 DEF Ports
  <2>3. port' \in [Nodes -> Ports] /\ port'[n] = port[n] + 1 /\ \A m \in Nodes : m # n => port'[m] = port[m]
    BY <1>1, <1>2, <2>2
  <2>4. ASSUME NEW m \in Nodes PROVE port[m] <= port'[m]
    <3>1. port[m] \in Nat
      BY <1>1
    <3>2. CASE m = n
      BY <2>3, <3>1, <3>2
    <3>3. CASE m # n
      BY <2>3, <3>1, <3>3
    <3> QED BY <3>2, <3>3
  <2> QED BY <1>2, <2>2, <2>3, <2>4 DEF CalmPorts
<1>4. CalmTargets
  <2>1. \A m \in Nodes, a \in Addresses : target'[m][a] = IF m = n THEN Unknown ELSE target[m][a]
    BY <1>1, <1>2
  <2>2. \A m \in Nodes : Knows(target', m) = IF m = n THEN {} ELSE Knows(target, m)
    BY <2>1 DEF Knows
  <2>3. \A m \in Messages, p \in Nodes : once'[m][p] = IF p = n THEN 0 ELSE once[m][p]
    BY <1>1, <1>2
  <2>4. \A m \in Nodes : \A a \in Knows(target', m) : a \in Knows(target, m) /\ target'[m][a] = target[m][a]
    BY <2>1, <2>2 DEF Knows
  <2>5. \A m \in Nodes : \A a \in Knows(target, m) \ Knows(target', m) : m = n
    BY <2>2
  <2> QED BY <1>3, <2>3, <2>4, <2>5 DEF CalmTargets
<1>5. CalmQueues
  <2>1. \A m \in Nodes, i \in Ids : send_queue'[m][i] = IF m = n THEN Free ELSE send_queue[m][i]
    BY <1>1, <1>2
  <2> QED BY <1>3, <2>1 DEF CalmQueues
<1>6. PICK x \in Packets : x = LeavePacket(n)
  BY AnnounceOK DEF PacketOK, Inv
<1>7. \A p \in Nodes : p # n => NewPacket(n, p, x)
  <2>1. x.type = "LEAVE" /\ x.from = <<n, port[n]>> /\ ~x.held
    BY <1>6 DEF LeavePacket, Address
  <2> QED BY <1>3, <2>1 DEF NewPacket, IsData, Current
<1>8. ASSUME NEW q \in Nodes, NEW p \in Nodes
      PROVE  /\ \A k \in 1 .. Len(net'[q][p]) : \/ k \in 1 .. Len(net[q][p]) /\ net'[q][p][k] = net[q][p][k]
                                                \/ NewPacket(q, p, net'[q][p][k])
             /\ \E e \in Nat : Trails(net[q][p], net'[q][p], e)
  <2>1. PICK s \in Seq(Packets) : s = net[q][p] /\ Len(s) \in Nat
    BY <1>1
  <2>2. net'[q][p] = IF p = n THEN <<>>
                     ELSE IF q = n /\ Len(s) < scenario.buffer THEN Append(s, x) ELSE s
    BY <1>1, <1>2, <1>6, <2>1
  <2>0. PICK e \in Nat : e = Len(s) + 1
    BY <2>1
  <2>3. Trails(s, s, e) /\ Trails(s, <<>>, e)
    <3>1. Trails(s, <<>>, e)
      BY DEF Trails
    <3> QED BY <2>0, <2>1, <3>1, TrailsSame
  <2>4. CASE net'[q][p] = Append(s, x) /\ q = n /\ p # n
    <3>1. /\ Len(Append(s, x)) = Len(s) + 1 /\ Append(s, x)[Len(s) + 1] = x
          /\ \A k \in 1 .. Len(s) : Append(s, x)[k] = s[k]
      BY <2>1
    <3>2. \A k \in 1 .. Len(s) + 1 : k = Len(s) + 1 \/ k \in 1 .. Len(s)
      BY <2>1
    <3>3. Trails(s, Append(s, x), e)
      <4> SUFFICES ASSUME NEW m \in Messages, NEW k \in 1 .. Len(s) + 1, First(Append(s, x)[k], m)
                   PROVE  Behind(k, e) \in 1 .. Len(s) /\ \A l \in 1 .. k : Append(s, x)[l] = s[Behind(l, e)]
        BY <3>1 DEF Trails
      <4>1. k # Len(s) + 1
        BY <1>6, <3>1 DEF First, LeavePacket
      <4>2. k \in 1 .. Len(s) /\ Behind(k, e) = k /\ \A l \in 1 .. k : l \in 1 .. Len(s) /\ Behind(l, e) = l
        BY <2>0, <2>1, <3>2, <4>1 DEF Behind
      <4> QED BY <3>1, <4>2
    <3> QED BY <1>7, <2>1, <2>4, <3>1, <3>2, <3>3
  <2>5. CASE net'[q][p] = <<>>
    BY <2>1, <2>3, <2>5
  <2>6. CASE net'[q][p] = s
    BY <2>1, <2>3, <2>6
  <2> QED BY <2>2, <2>4, <2>5, <2>6
<1>9. CalmStreams
  BY <1>8 DEF CalmStreams
<1> QED BY <1>3, <1>4, <1>5, <1>9 DEF Calm

\* Node n has read packet k of what q has sent it, and has sent s to q.  With packets in
\* order, it was the first of its socket.
Foremost(s, k) == ~s[k].held /\ \A i \in 1 .. k - 1 : s[i].socket # s[k].socket
Flow(n, q, k, s) ==
  /\ q # n /\ s \in Seq(Packets) /\ k \in 1 .. Len(net[q][n]) /\ (Exact => Foremost(net[q][n], k))
  /\ \A r, p \in Nodes : Len(net'[r][p]) \in Nat
  /\ \A j \in 1 .. Len(net'[q][n]) :
       /\ \E i \in 1 .. Len(net[q][n]) : net'[q][n][j] = net[q][n][i]
       /\ Exact => Behind(j, k) \in 1 .. Len(net[q][n]) /\ net'[q][n][j] = net[q][n][Behind(j, k)]
  /\ \A r, p \in Nodes : ~(r = q /\ p = n) => \A j \in 1 .. Len(net'[r][p]) :
       \/ j \in 1 .. Len(net[r][p]) /\ net'[r][p][j] = net[r][p][j]
       \/ /\ r = n /\ p = q /\ j > Len(net[r][p]) /\ j - Len(net[r][p]) \in 1 .. Len(s)
          /\ net'[r][p][j] = s[j - Len(net[r][p])]

\* Taking a packet out of a link moves those behind it up.
LEMMA Removed ==
  ASSUME NEW s \in Seq(Packets), NEW k \in 1 .. Len(s)
  PROVE  /\ Len(RemoveAt(s, k)) = Len(s) - 1 /\ RemoveAt(s, k) \in Seq(Packets)
         /\ \A j \in 1 .. Len(s) - 1 :
              RemoveAt(s, k)[j] = IF j < k THEN s[j] ELSE s[j + 1]
<1>1. PICK u : u = SubSeq(s, 1, k - 1)
  OBVIOUS
<1>2. PICK v : v = SubSeq(s, k + 1, Len(s))
  OBVIOUS
<1>3. u \in Seq(Packets) /\ Len(u) = k - 1 /\ \A i \in 1 .. k - 1 : u[i] = s[i]
  BY <1>1
<1>4. v \in Seq(Packets) /\ Len(v) = Len(s) - k /\ \A i \in 1 .. Len(s) - k : v[i] = s[i + k]
  BY <1>2
<1>5. RemoveAt(s, k) = u \o v
  BY <1>1, <1>2 DEF RemoveAt
<1>6. /\ u \o v \in Seq(Packets) /\ Len(u \o v) = Len(s) - 1
      /\ \A i \in 1 .. Len(s) - 1 : (u \o v)[i] = IF i < k THEN u[i] ELSE v[i - (k - 1)]
  <2>1. /\ u \in Seq(Packets) /\ v \in Seq(Packets) /\ Len(u) = k - 1 /\ Len(v) = Len(s) - k
        /\ k \in Nat /\ Len(s) \in Nat
    BY <1>3, <1>4
  <2>2. u \o v \in Seq(Packets) /\ Len(u \o v) = Len(u) + Len(v)
    BY <2>1, SMTT(30)
  <2>3. \A i \in 1 .. Len(u) + Len(v) : (u \o v)[i] = IF i <= Len(u) THEN u[i] ELSE v[i - Len(u)]
    BY <2>1
  <2> QED BY <2>1, <2>2, <2>3
<1>7. ASSUME NEW j \in 1 .. Len(s) - 1
      PROVE  (u \o v)[j] = IF j < k THEN s[j] ELSE s[j + 1]
  <2>1. CASE j < k
    BY <1>3, <1>6, <2>1
  <2>2. CASE ~(j < k)
    <3>1. j - (k - 1) \in 1 .. Len(s) - k /\ (j - (k - 1)) + k = j + 1
      BY <2>2
    <3> QED BY <1>4, <1>6, <2>2, <3>1
  <2> QED BY <2>1, <2>2
<1> QED BY <1>5, <1>6, <1>7

\* Node n reads packet k of what q has sent it, and sends s in return.
Reads(n, q, k, packet, s) ==
  /\ packet = net[q][n][k] /\ packet \in Packets /\ Handles(n, packet) /\ Handle(n, packet)
  /\ packet.from[1] = q /\ s \in {<<>>, Reply(n, packet)} /\ Flow(n, q, k, s)
  /\ UNCHANGED <<scenario, port, packet_id_source, unsent, id_of>>

\* A packet received is handled, and its answer goes back to who sent it.
LEMMA ReceiveFlow ==
  ASSUME Inv, Promises, NEW n \in Nodes, NEW q \in Nodes, Receive(n, q)
  PROVE  \E k, packet, s : Reads(n, q, k, packet, s)
<1>1. /\ Types /\ scenario \in Scenarios /\ net \in [Nodes -> [Nodes -> Seq(Packets)]]
      /\ \A r, p \in Nodes : StreamOK(p, net[r][p], got, id_of)
  BY DEF Inv, Types, Packeted
<1>2. PICK again \in IF "duplicate" \in scenario.events THEN BOOLEAN ELSE {FALSE} : ReceiveOne(n, q, again)
  BY DEF Receive
<1>3. Len(net[q][n]) \in Nat
  BY <1>1
<1>4. PICK k \in Readable(net[q][n]) :
        LET packet == net[q][n][k]
            left == IF again THEN net[q] ELSE [net[q] EXCEPT ![n] = RemoveAt(@, k)]
            sent == SendTo(packet.from, Reply(n, packet))
        IN /\ Handle(n, packet)
           /\ net' = [net EXCEPT ![q] = left, ![n] = [p \in Nodes |-> Fit(net[n][p] \o sent[p])]]
  BY <1>2 DEF ReceiveOne
<1>5. UNCHANGED <<scenario, port, packet_id_source, unsent, id_of>>
  BY <1>2 DEF ReceiveOne
<1>6. k \in 1 .. Len(net[q][n]) /\ (Exact => Foremost(net[q][n], k) /\ ~again)
  <2>1. k \in 1 .. Len(net[q][n]) /\ q \in Nodes /\ \A j \in 1 .. k - 1 : j \in 1 .. Len(net[q][n])
    BY <1>3, <1>4 DEF Readable
  <2>2. \A j \in 1 .. Len(net[q][n]) : Placed(net[q][n][j])
    BY DEF Promises, Sources
  <2>3. ASSUME Exact PROVE Foremost(net[q][n], k) /\ ~again
    <3>1. \A j \in 1 .. Len(net[q][n]) : ~net[q][n][j].held
      BY <2>2, <2>3 DEF Exact, Placed
    <3>2. \A j \in 1 .. k - 1 : net[q][n][j].socket # net[q][n][k].socket
      BY <1>4, <2>1, <2>3, <3>1 DEF Exact, Readable
    <3> QED BY <1>2, <2>1, <2>3, <3>1, <3>2 DEF Exact, Foremost
  <2> QED BY <2>1, <2>3
<1>7. PICK packet : packet = net[q][n][k]
  OBVIOUS
<1>8. Handles(n, packet) /\ Handle(n, packet) /\ packet \in Packets
  <2>1. PacketOK(n, packet, got, id_of)
    BY <1>1, <1>6, <1>7 DEF StreamOK
  <2> QED BY <1>4, <1>7, <2>1 DEF Handles, PacketOK
<1>9. packet.from[1] = q /\ q # n
  BY <1>6, <1>7 DEF Promises, Sources
<1>10. PICK sent : sent = SendTo(packet.from, Reply(n, packet))
  OBVIOUS
<1>11. PICK left : left = IF again THEN net[q] ELSE [net[q] EXCEPT ![n] = RemoveAt(net[q][n], k)]
  OBVIOUS
<1>12. net' = [net EXCEPT ![q] = left, ![n] = [p \in Nodes |-> Fit(net[n][p] \o sent[p])]]
  BY <1>4, <1>7, <1>10, <1>11
<1>13. \A p \in Nodes : sent[p] \in {<<>>, Reply(n, packet)} /\ (p # q => sent[p] = <<>>)
  BY <1>9, <1>10 DEF SendTo
<1>14. Reply(n, packet) \in Seq(Packets)
  <2>1. Handled
    BY <1>8, HandleOK
  <2> QED BY <1>8, <2>1, ReplyOK DEF StreamOK
<1>15. \A p \in Nodes : sent[p] \in Seq(Packets)
  <2>1. <<>> \in Seq(Packets)
    OBVIOUS
  <2> QED BY <1>13, <1>14, <2>1, Zenon
<1>16. \A r, p \in Nodes : net'[r][p] = IF r = n THEN Fit(net[n][p] \o sent[p])
                                        ELSE IF r = q THEN left[p] ELSE net[r][p]
  BY <1>1, <1>9, <1>12
<1>17. PICK z \in Seq(Packets) : z = net[q][n]
  BY <1>1
<1>18. net'[q][n] = IF again THEN z ELSE RemoveAt(z, k)
  BY <1>1, <1>9, <1>11, <1>16, <1>17
<1>19. /\ Len(net'[q][n]) \in Nat
       /\ \A j \in 1 .. Len(net'[q][n]) :
            /\ \E i \in 1 .. Len(z) : net'[q][n][j] = z[i]
            /\ Exact => Behind(j, k) \in 1 .. Len(z) /\ net'[q][n][j] = z[Behind(j, k)]
  <2>1. CASE again
    BY <1>6, <1>18, <2>1
  <2>2. CASE ~again
    <3>1. /\ k \in 1 .. Len(z) /\ Len(RemoveAt(z, k)) = Len(z) - 1 /\ Len(z) \in Nat
          /\ \A j \in 1 .. Len(z) - 1 : RemoveAt(z, k)[j] = IF j < k THEN z[j] ELSE z[j + 1]
      <4>1. k \in 1 .. Len(z) /\ Len(z) \in Nat
        BY <1>6, <1>17
      <4> QED BY <4>1, Removed
    <3>2. \A j \in 1 .. Len(z) - 1 : /\ j \in 1 .. Len(z) /\ j + 1 \in 1 .. Len(z)
                                    /\ Behind(j, k) = IF j < k THEN j ELSE j + 1
      BY <3>1 DEF Behind
    <3>3. net'[q][n] = RemoveAt(z, k)
      BY <1>18, <2>2
    <3>4. Len(net'[q][n]) = Len(z) - 1 /\ Len(z) - 1 \in Nat
      BY <3>1, <3>3
    <3> SUFFICES ASSUME NEW j \in 1 .. Len(z) - 1
                 PROVE  /\ \E i \in 1 .. Len(z) : net'[q][n][j] = z[i]
                        /\ Behind(j, k) \in 1 .. Len(z) /\ net'[q][n][j] = z[Behind(j, k)]
      BY <3>4
    <3>5. net'[q][n][j] = IF j < k THEN z[j] ELSE z[j + 1]
      BY <3>1, <3>3
    <3>6. Behind(j, k) \in 1 .. Len(z) /\ net'[q][n][j] = z[Behind(j, k)]
      BY <3>2, <3>5
    <3> QED BY <3>6
  <2> QED BY <2>1, <2>2
<1>20. ASSUME NEW r \in Nodes, NEW p \in Nodes, ~(r = q /\ p = n)
       PROVE  /\ Len(net'[r][p]) \in Nat
              /\ \A j \in 1 .. Len(net'[r][p]) :
                   \/ j \in 1 .. Len(net[r][p]) /\ net'[r][p][j] = net[r][p][j]
                   \/ /\ r = n /\ p = q /\ j > Len(net[r][p]) /\ j - Len(net[r][p]) \in 1 .. Len(sent[q])
                      /\ net'[r][p][j] = sent[q][j - Len(net[r][p])]
  <2>1. CASE r = n
    <3>1. PICK u : u = Fit(net[n][p] \o sent[p])
      OBVIOUS
    <3>2. /\ u \in Seq(Packets)
          /\ \A j \in 1 .. Len(u) : \/ j \in 1 .. Len(net[n][p]) /\ u[j] = net[n][p][j]
                                    \/ /\ j > Len(net[n][p]) /\ j - Len(net[n][p]) \in 1 .. Len(sent[p])
                                       /\ u[j] = sent[p][j - Len(net[n][p])]
      <4>1. net[n][p] \in Seq(Packets) /\ sent[p] \in Seq(Packets) /\ scenario \in Scenarios
        BY <1>1, <1>15
      <4> QED BY <3>1, <4>1, Cropped
    <3>3. net'[r][p] = u /\ Len(u) \in Nat
      BY <1>16, <2>1, <3>1, <3>2
    <3>4. CASE p = q
      BY <2>1, <3>2, <3>3, <3>4
    <3>5. CASE p # q
      <4>1. Len(sent[p]) = 0
        BY <1>13, <3>5
      <4> QED BY <2>1, <3>2, <3>3, <4>1
    <3> QED BY <3>4, <3>5
  <2>2. CASE r # n
    <3>1. net'[r][p] = net[r][p]
      BY <1>1, <1>11, <1>16, <1>20, <2>2
    <3> QED BY <1>1, <3>1
  <2> QED BY <2>1, <2>2
<1>21. Flow(n, q, k, sent[q])
  <2>1. \A r, p \in Nodes : Len(net'[r][p]) \in Nat
    BY <1>19, <1>20
  <2> QED BY <1>6, <1>9, <1>15, <1>17, <1>19, <1>20, <2>1 DEF Flow
<1> QED BY <1>5, <1>7, <1>8, <1>9, <1>13, <1>21 DEF Reads

\* What a packet that is read says of its sender.
LEMMA ReadFrom ==
  ASSUME Inv, Promises, NEW n \in Nodes, NEW q \in Nodes, NEW k, NEW packet, NEW s, Reads(n, q, k, packet, s)
  PROVE  /\ q # n /\ packet.from \in Addresses /\ packet.from[1] = q /\ packet.from[2] <= port[q]
         /\ packet.type = "LEAVE" => packet.from[2] < port[q]
         /\ packet.type = "DATA_RETRANSMISSION" => scenario.reliable[packet.msg]
         /\ k \in 1 .. Len(net[q][n]) /\ packet = net[q][n][k] /\ packet \in Packets /\ scenario \in Scenarios
<1>1. k \in 1 .. Len(net[q][n]) /\ packet = net[q][n][k] /\ packet \in Packets
  BY DEF Reads, Flow
<1>2. packet.from \in Addresses
  BY <1>1, PacketFields
<1> QED BY <1>1, <1>2, InvFacts DEF Promises, Sources, Placed

\* With packets in order and once, the one received was the first, and no DATA is added.
LEMMA FlowTrails ==
  ASSUME Inv, NEW n \in Nodes, NEW q \in Nodes, NEW k, NEW s, Flow(n, q, k, s),
         \A j \in 1 .. Len(s) : s[j].type # "DATA", Exact
  PROVE  /\ Trails(net[q][n], net'[q][n], k)
         /\ \A r, p \in Nodes : \E e \in Nat : Trails(net[r][p], net'[r][p], e)
<1>1. Trails(net[q][n], net'[q][n], k) /\ k \in Nat
  <2>1. /\ Len(net'[q][n]) \in Nat /\ k \in 1 .. Len(net[q][n])
        /\ \A j \in 1 .. Len(net'[q][n]) : Behind(j, k) \in 1 .. Len(net[q][n]) /\ net'[q][n][j] = net[q][n][Behind(j, k)]
    BY DEF Flow
  <2>2. \A j \in 1 .. Len(net'[q][n]) : \A l \in 1 .. j : l \in 1 .. Len(net'[q][n])
    BY <2>1
  <2> QED BY <2>1, <2>2 DEF Trails
<1>2. ASSUME NEW r \in Nodes, NEW p \in Nodes, ~(r = q /\ p = n) PROVE \E e \in Nat : Trails(net[r][p], net'[r][p], e)
  <2>1. \A j \in 1 .. Len(net'[r][p]) :
       \/ j \in 1 .. Len(net[r][p]) /\ net'[r][p][j] = net[r][p][j]
       \/ /\ j > Len(net[r][p]) /\ j - Len(net[r][p]) \in 1 .. Len(s)
          /\ net'[r][p][j] = s[j - Len(net[r][p])]
    BY <1>2 DEF Flow
  <2>2. Len(net[r][p]) \in Nat /\ Len(net[r][p]) + 1 \in Nat
    BY InvFacts
  <2>3. Trails(net[r][p], net'[r][p], Len(net[r][p]) + 1)
    BY <2>1, <2>2, TrailsBehind
  <2> QED BY <2>2, <2>3
<1> QED BY <1>1, <1>2

LEMMA FlowCalm ==
  ASSUME Inv, NEW n \in Nodes, NEW q \in Nodes, NEW k, NEW s, Flow(n, q, k, s),
         \A j \in 1 .. Len(s) : NewPacket(n, q, s[j])
  PROVE  CalmStreams
<1>1. \A j \in 1 .. Len(s) : s[j].type # "DATA"
  BY DEF NewPacket, IsData
<1>2. ASSUME Exact, NEW r \in Nodes, NEW p \in Nodes
      PROVE  \E e \in Nat : Trails(net[r][p], net'[r][p], e)
  BY <1>1, <1>2, FlowTrails
<1>3. ASSUME NEW r \in Nodes, NEW p \in Nodes, NEW j \in 1 .. Len(net'[r][p])
      PROVE  \/ \E i \in 1 .. Len(net[r][p]) : net'[r][p][j] = net[r][p][i]
             \/ NewPacket(r, p, net'[r][p][j])
  <2>1. CASE r = q /\ p = n
    <3>1. \E i \in 1 .. Len(net[q][n]) : net'[q][n][j] = net[q][n][i]
      BY <1>3, <2>1 DEF Flow
    <3> QED BY <2>1, <3>1
  <2>2. CASE ~(r = q /\ p = n)
    <3>1. \/ j \in 1 .. Len(net[r][p]) /\ net'[r][p][j] = net[r][p][j]
          \/ /\ r = n /\ p = q /\ j - Len(net[r][p]) \in 1 .. Len(s)
             /\ net'[r][p][j] = s[j - Len(net[r][p])]
      BY <1>3, <2>2 DEF Flow
    <3> QED BY <3>1
  <2> QED BY <2>1, <2>2
<1> QED BY <1>2, <1>3 DEF CalmStreams

\* One packet in return, or none.
LEMMA OneReply ==
  ASSUME NEW n, NEW q, NEW x, NewPacket(n, q, x), NEW s, s \in {<<>>, <<x>>}
  PROVE  \A j \in 1 .. Len(s) : NewPacket(n, q, s[j])
<1>1. CASE s = <<>>
  BY <1>1
<1>2. CASE s = <<x>>
  <2>1. Len(s) = 1 /\ s[1] = x
    BY <1>2
  <2> QED BY <2>1
<1> QED BY <1>1, <1>2

\* Handling a packet that is not a fragment for this node is Calm.
LEMMA HearAnnounceCalm ==
  ASSUME Inv, Promises, NEW n \in Nodes, NEW q \in Nodes, NEW k, NEW packet, NEW s, Reads(n, q, k, packet, s),
         packet.type = "ANNOUNCE", HearAnnounce(n, packet)
  PROVE  Calm
<1>1. PICK a \in Addresses : a = packet.from /\ a[1] = q /\ a[1] # n /\ a[2] <= port[a[1]]
  BY ReadFrom
<1>2. UNCHANGED <<send_queue, delivered, once, scenario, port, packet_id_source, unsent, id_of>>
  BY DEF HearAnnounce, history, Reads
<1>3. CalmTargets
  <2>1. target = [m \in Nodes |-> [b \in Addresses |-> target[m][b]]]
    BY DEF Inv, Tables
  <2>2. CASE a \in Knows(target, n)
    <3>1. UNCHANGED target
      BY <1>1, <2>2, KnownKnows DEF HearAnnounce
    <3> QED BY <1>2, <3>1, SameTargets, InvFacts
  <2>3. CASE a \notin Knows(target, n)
    <3>1. target' = [target EXCEPT ![n][a] = NewTarget]
      BY <1>1, <2>3, KnownKnows DEF HearAnnounce
    <3>2. \A m \in Nodes, b \in Addresses : target'[m][b] = IF m = n /\ b = a THEN NewTarget ELSE target[m][b]
      BY <2>1, <3>1
    <3>3. \A m \in Nodes, b \in Addresses : b \in Knows(target, m) => target'[m][b] = target[m][b]
      BY <2>3, <3>2
    <3>4. \A m \in Nodes, b \in Addresses : b \in Knows(target, m) => b \in Knows(target', m)
      BY <3>3 DEF Knows
    <3>5. ASSUME NEW m \in Nodes, NEW b \in Knows(target', m)
          PROVE  \/ b \in Knows(target, m) /\ target'[m][b] = target[m][b]
                 \/ target'[m][b] = NewTarget /\ b \notin Knows(target, m) /\ b[1] # m /\ b[2] <= port[b[1]]
      <4>1. b \in Addresses /\ target'[m][b] # Unknown
        BY DEF Knows
      <4>2. CASE m = n /\ b = a
        BY <1>1, <2>3, <3>2, <4>2
      <4>3. CASE ~(m = n /\ b = a)
        BY <3>2, <4>1, <4>3 DEF Knows
      <4> QED BY <4>2, <4>3
    <3>6. \A m \in Nodes : Knows(target, m) \ Knows(target', m) = {}
      BY <3>4 DEF Knows
    <3> QED BY <1>2, <3>5, <3>6 DEF CalmTargets
  <2> QED BY <2>2, <2>3
<1>4. \A j \in 1 .. Len(s) : NewPacket(n, q, s[j])
  <2>1. s \in {<<>>, <<Announce(n, "data_fd")>>}
    <3>1. Reply(n, packet) \in {<<>>, <<Announce(n, "data_fd")>>}
      BY DEF Reply, IsData
    <3> QED BY <3>1 DEF Reads
  <2>2. NewPacket(n, q, Announce(n, "data_fd"))
    BY <1>1, AnnounceNew
  <2> QED BY <2>1, <2>2, OneReply
<1>5. CalmStreams
  BY <1>4, FlowCalm DEF Reads
<1> QED BY <1>2, <1>3, <1>5, SameQueues, SamePorts DEF Calm

\* What answers with nothing sends nothing.
LEMMA SilentStreams ==
  ASSUME Inv, NEW n \in Nodes, NEW q \in Nodes, NEW k, NEW packet, NEW s, Reads(n, q, k, packet, s),
         Reply(n, packet) = <<>>
  PROVE  CalmStreams
<1>1. s = <<>> /\ Flow(n, q, k, s)
  BY DEF Reads
<1>2. \A j \in 1 .. Len(s) : NewPacket(n, q, s[j])
  BY <1>1
<1> QED BY <1>1, <1>2, FlowCalm

LEMMA HearLeaveCalm ==
  ASSUME Inv, Promises, NEW n \in Nodes, NEW q \in Nodes, NEW k, NEW packet, NEW s, Reads(n, q, k, packet, s),
         packet.type = "LEAVE", HearLeave(n, packet)
  PROVE  Calm
<1>1. packet.from[2] < port[packet.from[1]]
  BY ReadFrom
<1>2. PICK S : S = {packet.from} \cap Known(n)
  OBVIOUS
<1>3. Forget(n, S) /\ S \subseteq Known(n) /\ \A a \in S : a[2] < port[a[1]]
  BY <1>1, <1>2 DEF HearLeave
<1>4. UNCHANGED <<delivered, scenario, port, packet_id_source, unsent, id_of>>
  BY DEF HearLeave, Reads
<1>5. Reply(n, packet) = <<>>
  BY DEF Reply, IsData
<1> QED BY <1>3, <1>4, <1>5, ForgetCalm, SilentStreams, SamePorts DEF Calm

LEMMA QuietCalm ==
  ASSUME Inv, NEW n, NEW q, NEW k, NEW packet, NEW s, Reads(n, q, k, packet, s),
         UNCHANGED <<target, send_queue, history>>, CalmStreams
  PROVE  Calm
<1>1. UNCHANGED <<target, send_queue, delivered, once, scenario, port, packet_id_source, unsent, id_of>>
  BY DEF history, Reads
<1> QED BY <1>1, SameTargets, SameQueues, SamePorts, InvFacts DEF Calm

LEMMA IrrelevantCalm ==
  ASSUME Inv, NEW n \in Nodes, NEW q \in Nodes, NEW k, NEW packet, NEW s, Reads(n, q, k, packet, s),
         Irrelevant(n, packet), UNCHANGED <<target, send_queue, history>>
  PROVE  Calm
<1>1. Reply(n, packet) = <<>>
  BY DEF Reply, Irrelevant, IsData
<1> QED BY <1>1, QuietCalm, SilentStreams

\* The message of a packet that is repeated has been delivered, unless some node forgot
\* another that has not forgotten it.
LEMMA HearAgainCalm ==
  ASSUME Inv, Promises, NEW n \in Nodes, NEW q \in Nodes, NEW k, NEW packet, NEW s, Reads(n, q, k, packet, s),
         IsData(packet), packet.from \in Known(n), HearAgain(n, packet)
  PROVE  Calm
<1>1. PICK a \in Addresses : a = packet.from /\ a[1] = q /\ q # n /\ a \in Knows(target, n)
  BY ReadFrom, KnownKnows
<1>2. packet \in Packets /\ packet.id \in Ids /\ scenario \in Scenarios
  BY ReadFrom, PacketFields
<1>3. PICK t : t = target[n][a]
  OBVIOUS
<1>4. Repeated(t, packet) /\ UNCHANGED <<target, send_queue, history>>
  BY <1>1, <1>3 DEF HearAgain
<1>5. PICK x : x = Ack(n, packet, 0 .. packet.count - 1)
  OBVIOUS
<1>6. s \in {<<>>, <<x>>}
  <2>1. Reply(n, packet) = Answer(n, packet)
    BY DEF Reply, IsData
  <2>2. Answer(n, packet) \in {<<>>, <<x>>}
    BY <1>1, <1>3, <1>4, <1>5 DEF Answer
  <2> QED BY <2>1, <2>2 DEF Reads
<1>7. NewPacket(n, q, x)
  <2>1. x.type = "ACK" /\ x.from = <<n, port[n]>> /\ x.id = packet.id /\ ~x.held
    BY <1>5 DEF Ack, Address
  <2>2. ASSUME Kept, NEW m \in Messages, SentAs(m, q, packet.id, id_of) PROVE delivered[m][n] > 0
    <3>1. PICK j \in DOMAIN t.recent : t.recent[j] = packet.id
      BY <1>4 DEF Repeated
    <3>2. DOMAIN t.recent = 0 .. scenario.ring - 1
      BY <1>1, <1>3, InvFacts DEF TargetOK
    <3>3. Source(m) = a[1] /\ id_of[m] = packet.id /\ id_of[m] # Invalid
      BY <1>1, <1>2, <2>2, Scenery DEF SentAs, Source
    <3>4. Remembered(target, delivered, id_of)
      BY <2>2 DEF Promises, Safe
    <3> QED BY <1>1, <1>3, <3>1, <3>2, <3>3, <3>4 DEF Remembered
  <2> QED BY <1>1, <2>1, <2>2 DEF NewPacket, IsData, Current
<1>8. CalmStreams
  BY <1>6, <1>7, OneReply, FlowCalm DEF Reads
<1> QED BY <1>4, <1>8, QuietCalm

\* Entry r is q with less, or with the bits of an ACK on its way to n.
Settling(n, i, q, r) ==
  /\ q # Free /\ r.msg = q.msg
  /\ \A a \in DOMAIN r.acked : r.acked[a] # Expired =>
       /\ a \in DOMAIN q.acked /\ q.acked[a] # Expired
       /\ \A f \in r.acked[a] :
            \/ f \in q.acked[a]
            \/ \E j \in 1 .. Len(net[a[1]][n]) : LET x == net[a[1]][n][j] IN
                 x.type = "ACK" /\ x.id = i /\ x.from = a /\ f \in x.bits

\* One entry loses targets or gains the bits of an ACK, or it is taken out.
LEMMA OneQueueCalm ==
  ASSUME Inv, NEW n \in Nodes, NEW i \in Ids, NEW r, send_queue' = [send_queue EXCEPT ![n][i] = r],
         UNCHANGED port, r # Free => Settling(n, i, send_queue[n][i], r)
  PROVE  CalmQueues
<1>1. send_queue = [m \in Nodes |-> [j \in Ids |-> send_queue[m][j]]]
  BY DEF Inv, Tables
<1>2. \A m \in Nodes, j \in Ids : send_queue'[m][j] = IF m = n /\ j = i THEN r ELSE send_queue[m][j]
  BY <1>1
<1>3. ASSUME NEW m \in Nodes, NEW j \in Ids, send_queue'[m][j] # Free
      PROVE  port'[m] = port[m] /\ Settling(m, j, send_queue[m][j], send_queue'[m][j])
  <2>1. CASE m = n /\ j = i
    <3>1. send_queue'[m][j] = r
      BY <1>2, <2>1
    <3> QED BY <1>3, <2>1, <3>1
  <2>2. CASE ~(m = n /\ j = i)
    <3>1. send_queue'[m][j] = send_queue[m][j]
      BY <1>2, <2>2
    <3> QED BY <1>3, <3>1 DEF Settling
  <2> QED BY <2>1, <2>2
<1> QED BY <1>3 DEF CalmQueues, Settling

LEMMA HearAckCalm ==
  ASSUME Inv, Promises, NEW n \in Nodes, NEW p \in Nodes, NEW k, NEW packet, NEW s, Reads(n, p, k, packet, s),
         packet.type = "ACK", HearAck(n, packet)
  PROVE  Calm
<1>1. PICK q : q = send_queue[n][packet.id]
  OBVIOUS
<1>2. /\ packet.id \in Ids /\ q # Free /\ QueueOK(n, packet.id, q, Known(n), got, id_of)
      /\ packet.from \in DOMAIN q.acked /\ q.acked[packet.from] # Expired
  BY <1>1, RelevantEntry DEF HearAck, Reads, Relevant
<1>3. PICK acked : acked = q.acked[packet.from] \cup packet.bits
  OBVIOUS
<1>4. PICK rest : rest = DOMAIN q.acked \ {packet.from}
  OBVIOUS
<1>5. PICK r : r = IF ~(Expected(packet.count) \subseteq acked)
                   THEN [q EXCEPT !.acked[packet.from] = acked]
                   ELSE IF rest = {} THEN Free
                   ELSE [q EXCEPT !.acked = [a \in rest |-> q.acked[a]]]
  OBVIOUS
<1>6. send_queue' = [send_queue EXCEPT ![n][packet.id] = r] /\ UNCHANGED <<target, history>>
  BY <1>1, <1>3, <1>4, <1>5 DEF HearAck
<1>7. /\ q \in [msg : Messages, acked : {q.acked}]
      /\ q.acked = [b \in DOMAIN q.acked |-> q.acked[b]]
  BY <1>2 DEF QueueOK
<1>8. /\ packet.from[1] = p /\ k \in 1 .. Len(net[p][n]) /\ packet = net[p][n][k]
  BY ReadFrom
<1>9. ASSUME r # Free PROVE Settling(n, packet.id, q, r)
  <2>1. CASE r = [q EXCEPT !.acked[packet.from] = acked]
    <3>1. r.msg = q.msg /\ r.acked = [q.acked EXCEPT ![packet.from] = acked]
      BY <1>7, <2>1
    <3>2. /\ DOMAIN r.acked = DOMAIN q.acked
          /\ \A b \in DOMAIN r.acked : r.acked[b] = IF b = packet.from THEN acked ELSE q.acked[b]
      BY <1>7, <3>1
    <3>3. ASSUME NEW a \in DOMAIN r.acked, r.acked[a] # Expired
          PROVE  /\ a \in DOMAIN q.acked /\ q.acked[a] # Expired
                 /\ \A f \in r.acked[a] :
                      \/ f \in q.acked[a]
                      \/ \E j \in 1 .. Len(net[a[1]][n]) : LET x == net[a[1]][n][j] IN
                           x.type = "ACK" /\ x.id = packet.id /\ x.from = a /\ f \in x.bits
      <4>1. CASE a = packet.from
        <5>1. a \in DOMAIN q.acked /\ q.acked[a] # Expired /\ r.acked[a] = q.acked[a] \cup packet.bits
          BY <1>2, <1>3, <3>2, <4>1
        <5>2. net[a[1]][n][k] = packet /\ k \in 1 .. Len(net[a[1]][n])
          BY <1>8, <4>1
        <5> QED BY <4>1, <5>1, <5>2
      <4>2. CASE a # packet.from
        BY <3>2, <3>3, <4>2
      <4> QED BY <4>1, <4>2
    <3> QED BY <1>2, <3>1, <3>3 DEF Settling
  <2>2. CASE r = [q EXCEPT !.acked = [a \in rest |-> q.acked[a]]]
    <3>1. r.msg = q.msg /\ r.acked = [a \in rest |-> q.acked[a]]
      BY <1>7, <2>2
    <3>2. \A a \in DOMAIN r.acked : a \in DOMAIN q.acked /\ r.acked[a] = q.acked[a]
      BY <1>4, <3>1
    <3> QED BY <1>2, <3>1, <3>2 DEF Settling
  <2> QED BY <1>5, <1>9, <2>1, <2>2
<1>10. UNCHANGED <<delivered, once, scenario, port, packet_id_source, unsent, id_of>>
  BY <1>6 DEF history, Reads
<1>11. CalmQueues
  BY <1>1, <1>2, <1>6, <1>9, <1>10, OneQueueCalm
<1>12. Reply(n, packet) = <<>>
  BY DEF Reply, IsData
<1> QED BY <1>6, <1>10, <1>11, <1>12, SilentStreams, SameTargets, SamePorts, InvFacts DEF Calm

LEMMA HearNackCalm ==
  ASSUME Inv, Promises, NEW n \in Nodes, NEW p \in Nodes, NEW k, NEW packet, NEW s, Reads(n, p, k, packet, s),
         packet.type = "NACK", HearNack(n, packet)
  PROVE  Calm
<1>1. PICK q : q = send_queue[n][packet.id]
  OBVIOUS
<1>2. /\ packet.id \in Ids /\ q # Free /\ QueueOK(n, packet.id, q, Known(n), got, id_of)
      /\ packet.from \in DOMAIN q.acked /\ q.acked[packet.from] # Expired
  BY <1>1, RelevantEntry DEF HearNack, Reads, Relevant
<1>3. PICK r : r = [q EXCEPT !.acked[packet.from] = q.acked[packet.from] \ packet.bits]
  OBVIOUS
<1>4. send_queue' = [send_queue EXCEPT ![n][packet.id] = r] /\ UNCHANGED <<target, history>>
  BY <1>1, <1>3 DEF HearNack
<1>5. /\ q \in [msg : Messages, acked : {q.acked}]
      /\ q.acked = [b \in DOMAIN q.acked |-> q.acked[b]]
  BY <1>2 DEF QueueOK
<1>6. r.msg = q.msg /\ r.acked = [q.acked EXCEPT ![packet.from] = q.acked[packet.from] \ packet.bits]
  BY <1>3, <1>5
<1>7. /\ DOMAIN r.acked = DOMAIN q.acked
      /\ \A b \in DOMAIN r.acked :
           r.acked[b] = IF b = packet.from THEN q.acked[b] \ packet.bits ELSE q.acked[b]
  BY <1>5, <1>6
<1>8. \A a \in DOMAIN r.acked : r.acked[a] # Expired =>
        a \in DOMAIN q.acked /\ q.acked[a] # Expired /\ \A f \in r.acked[a] : f \in q.acked[a]
  BY <1>2, <1>7
<1>9. UNCHANGED <<delivered, once, scenario, port, packet_id_source, unsent, id_of>>
  BY <1>4 DEF history, Reads
<1>10. CalmQueues
  <2>1. Settling(n, packet.id, q, r)
    BY <1>2, <1>6, <1>8 DEF Settling
  <2> QED BY <1>1, <1>2, <1>4, <1>9, <2>1, OneQueueCalm
<1>11. PICK S : S = {packet.id} \X Resent(packet)
  OBVIOUS
<1>12. IsFiniteSet(S) /\ S \subseteq Nat \X Nat /\ \A d \in S : d[1] \in Used(n)
  <2>1. packet.count \in Nat /\ Ids \subseteq Nat
    BY ReadFrom, PacketFields, Scenery
  <2>2. packet.count \div ByteBits \in Nat
    BY <2>1, NetworkAssumption
  <2>3. IsFiniteSet(0 .. packet.count \div ByteBits) /\ 0 .. packet.count \div ByteBits \subseteq Nat
    BY <2>2, FS_Interval
  <2>4. Resent(packet) \subseteq 0 .. packet.count \div ByteBits
    BY DEF Resent
  <2>5. IsFiniteSet(Resent(packet)) /\ IsFiniteSet({packet.id})
    BY <2>3, <2>4, FS_Subset, FS_Singleton
  <2>6. IsFiniteSet(S)
    BY <1>11, <2>5, FS_Product
  <2>7. packet.id \in Used(n)
    BY <1>1, <1>2 DEF Used
  <2> QED BY <1>2, <1>11, <2>1, <2>3, <2>4, <2>6, <2>7
<1>13. \A j \in 1 .. Len(s) : NewPacket(n, p, s[j])
  <2>1. Reply(n, packet) = Cut(n, "DATA_RETRANSMISSION", Queued(n), S)
    BY <1>11 DEF Reply, IsData, HearNack
  <2>2. s = <<>> \/ s = Cut(n, "DATA_RETRANSMISSION", Queued(n), S)
    BY <2>1 DEF Reads
  <2>3. CASE s = <<>>
    BY <2>3
  <2>4. CASE s = Cut(n, "DATA_RETRANSMISSION", Queued(n), S)
    BY <1>12, <2>4, ReadFrom, ResentNew
  <2> QED BY <2>2, <2>3, <2>4
<1>14. CalmStreams
  BY <1>13, FlowCalm DEF Reads
<1> QED BY <1>4, <1>9, <1>10, <1>14, SameTargets, SamePorts, InvFacts DEF Calm

-----------------------------------------------------------------------------
(* A fragment that is taken.                                               *)

AllOf(m) == {<<f, m>> : f \in Fragments(m)}
\* What is remembered of a packet in recent_packets: a message that is complete, once.
Recalled(t, u, packet) ==
  \/ ~packet.reliable /\ u.recent = t.recent /\ u.index = t.index
  \/ /\ packet.reliable /\ t.index < scenario.ring
     /\ u.recent = [t.recent EXCEPT ![t.index] = packet.id] /\ u.index = t.index + 1
  \/ packet.reliable /\ ~(t.index < scenario.ring) /\ u.recent = t.recent
Recalls(t, u, packet, parts) ==
  IF Complete(parts, packet) THEN Recalled(t, u, packet) ELSE u.recent = t.recent /\ u.index = t.index
\* Where no assembler goes and ids are fresh, what is assembled is of this message, and
\* what has been stays.
Assembles(t, u, packet, parts) ==
  /\ \A j \in Ids \ {packet.id} : u.assemblers[j] = t.assemblers[j]
  /\ Complete(parts, packet) => parts = AllOf(packet.msg)
  /\ ~Complete(parts, packet) =>
       /\ u.assemblers[packet.id] = parts
       /\ Numbers(parts) \subseteq Fragments(packet.msg) /\ Numbers(parts) # Fragments(packet.msg)
       /\ \A p \in parts : p = <<p[1], packet.msg>>
       /\ \A p \in t.assemblers[packet.id] : p[1] \in Numbers(parts)
Recents == [0 .. scenario.ring - 1 -> Ids \cup {Invalid}]
\* Target t becomes u, with these parts of the message in it, and the callback gets
\* them when they are complete.
Takes(n, packet, t, u, parts) ==
  /\ t = target[n][packet.from] /\ target' = [target EXCEPT ![n][packet.from] = u]
  /\ ~Repeated(t, packet) /\ UNCHANGED send_queue
  /\ Recalls(t, u, packet, parts)
  /\ u \in [recent : Recents, index : Nat, assemblers : [Ids -> Assemblies]]
  /\ \A j \in Ids : \A p \in u.assemblers[j] :
       p \in t.assemblers[j] \/ (j = packet.id /\ p = <<packet.no, packet.msg>>)
  /\ parts \subseteq t.assemblers[packet.id] \cup {<<packet.no, packet.msg>>}
  /\ <<packet.no, packet.msg>> \in parts
  /\ Complete(parts, packet) => /\ \E p \in parts : p[1] = 0
                                /\ u.assemblers[packet.id] = {} \/ packet.count = 1
  /\ IF Complete(parts, packet) THEN Deliver(n, packet, parts) ELSE UNCHANGED <<delivered, once>>
  /\ Kept /\ IsFresh(id_of) => Assembles(t, u, packet, parts)
  /\ \A s \in {<<>>, Answer(n, packet)} : \A j \in 1 .. Len(s) :
       /\ s[j].type \in {"ACK", "NACK"} /\ s[j].from = Address(n)
       /\ s[j].type = "ACK" => s[j].id = packet.id /\ s[j].bits = Numbers(parts) /\ packet.reliable

\* Nobody holds what answers a packet yet.
LEMMA AnswerUnheld ==
  ASSUME NEW n, NEW packet, NEW s \in {<<>>, Answer(n, packet)}
  PROVE  \A j \in 1 .. Len(s) : ~s[j].held
<1>1. \A bits : ~Ack(n, packet, bits).held /\ ~Nack(n, packet, bits).held
  BY DEF Ack, Nack
<1>2. PICK x : x = Ack(n, packet, 0 .. packet.count - 1)
  OBVIOUS
<1>3. PICK y : y = Ack(n, packet, Numbers(Assembled(target[n][packet.from], packet)))
  OBVIOUS
<1>4. PICK z : z = Nack(n, packet, Numbers(Held(target[n][packet.from], packet)) \ {packet.no})
  OBVIOUS
<1>5. s \in {<<>>, <<x>>, <<y>>, <<z, y>>}
  BY <1>2, <1>3, <1>4 DEF Answer
<1>6. ~x.held /\ ~y.held /\ ~z.held
  BY <1>1, <1>2, <1>3, <1>4
<1>7. /\ \A j \in 1 .. Len(<<>>) : FALSE
      /\ \A v : Len(<<v>>) = 1 /\ <<v>>[1] = v
      /\ Len(<<z, y>>) = 2 /\ <<z, y>>[1] = z /\ <<z, y>>[2] = y
  OBVIOUS
<1>8. CASE s = <<>>
  BY <1>8
<1>9. CASE s \in {<<x>>, <<y>>}
  BY <1>6, <1>7, <1>9
<1>10. CASE s = <<z, y>>
  BY <1>6, <1>7, <1>10
<1> QED BY <1>5, <1>8, <1>9, <1>10

\* Remembering a reliable message adds its id, if recent_packets has room, and takes none.
LEMMA RememberKeeps ==
  ASSUME scenario \in Scenarios, NEW A, NEW t \in [recent : Recents, index : Nat, assemblers : A],
         NEW packet, packet.id \in Ids, NEW v \in Remember(t, packet)
  PROVE  /\ v \in [recent : Recents, index : Nat, assemblers : A] /\ v.assemblers = t.assemblers
         /\ Recalled(t, v, packet)
<1>0. scenario.ring \in Nat \ {0}
  BY Scenery
<1>1. CASE ~packet.reliable
  BY <1>1 DEF Remember, Recalled
<1>2. CASE packet.reliable /\ t.index < scenario.ring
  <2>1. v = [t EXCEPT !.recent = [t.recent EXCEPT ![t.index] = packet.id], !.index = t.index + 1]
    BY <1>2 DEF Remember
  <2>2. PICK r : r = [t.recent EXCEPT ![t.index] = packet.id]
    OBVIOUS
  <2>3. r \in Recents
    BY <2>2 DEF Recents
  <2>4. PICK i \in Nat : i = t.index + 1
    OBVIOUS
  <2>5. v = [t EXCEPT !.recent = r, !.index = i]
    BY <2>1, <2>2, <2>4
  <2>6. /\ v \in [recent : Recents, index : Nat, assemblers : A]
        /\ v.recent = r /\ v.index = i /\ v.assemblers = t.assemblers
    BY <2>3, <2>5
  <2> QED BY <1>2, <2>2, <2>4, <2>6 DEF Recalled
<1>3. CASE packet.reliable /\ ~(t.index < scenario.ring)
  <2>1. PICK i \in 0 .. scenario.ring : v = [t EXCEPT !.index = i]
    BY <1>3 DEF Remember
  <2> QED BY <1>0, <1>3, <2>1 DEF Recalled
<1> QED BY <1>1, <1>2, <1>3

\* A range of numbers is finite and has as many members as it says.
LEMMA Counted ==
  ASSUME NEW a \in Nat, NEW c \in Nat
  PROVE  /\ IsFiniteSet(a .. c - 1) /\ Cardinality(0 .. c - 1) = c
         /\ c # 0 => Cardinality(1 .. c - 1) = c - 1
<1>1. \A x, y \in Int : IsFiniteSet(x .. y) /\ Cardinality(x .. y) = IF x > y THEN 0 ELSE y - x + 1
  BY FS_Interval
<1>2. a \in Int /\ 0 \in Int /\ 1 \in Int /\ c - 1 \in Int
  OBVIOUS
<1>3. Cardinality(0 .. c - 1) = IF 0 > c - 1 THEN 0 ELSE c - 1 - 0 + 1
  BY <1>1, <1>2
<1>4. Cardinality(1 .. c - 1) = IF 1 > c - 1 THEN 0 ELSE c - 1 - 1 + 1
  BY <1>1, <1>2
<1>5. IsFiniteSet(a .. c - 1)
  BY <1>1, <1>2
<1>6. Cardinality(0 .. c - 1) = c
  BY <1>3
<1>7. c # 0 => Cardinality(1 .. c - 1) = c - 1
  BY <1>4
<1> QED BY <1>5, <1>6, <1>7

\* Of as many parts as the message has one is the first.
LEMMA FullHasFirst ==
  ASSUME NEW S \in Assemblies, \A p, r \in S : p[1] = r[1] => p = r,
         NEW c \in Nat \ {0}, \A p \in S : p[1] < c, Cardinality(S) = c
  PROVE  \E p \in S : p[1] = 0
<1> SUFFICES ASSUME \A p \in S : p[1] # 0 PROVE FALSE
  OBVIOUS
<1>1. \A p \in S : p[1] \in Nat
  BY DEF Assemblies, Parts
<1>2. \A f \in Numbers(S) : f \in 1 .. c - 1
  BY <1>1 DEF Numbers
<1>3. IsFiniteSet(1 .. c - 1) /\ Cardinality(1 .. c - 1) = c - 1
  BY Counted
<1>4. Numbers(S) \subseteq 1 .. c - 1
  BY <1>2
<1>5. Cardinality(Numbers(S)) <= Cardinality(1 .. c - 1)
  BY <1>3, <1>4, FS_Subset
<1>6. Cardinality(Numbers(S)) = c
  BY NumberedOnce
<1> QED BY <1>3, <1>5, <1>6

\* What a packet of data that is taken says, and what is known of it.
LEMMA DataFacts ==
  ASSUME NEW n, NEW packet, Handles(n, packet), IsData(packet), packet.from \in Known(n),
         HearWhole(n, packet) \/ HearFragment(n, packet), NEW t, t = target[n][packet.from]
  PROVE  /\ n \in Nodes /\ scenario \in Scenarios /\ packet \in Packets /\ packet.from \in Addresses
         /\ packet.msg \in Messages /\ packet.id \in Ids /\ packet.no \in Nat
         /\ packet.no \in Fragments(packet.msg) /\ packet.count = scenario.count[packet.msg]
         /\ packet.count \in Nat \ {0} /\ Fragments(packet.msg) = 0 .. packet.count - 1
         /\ packet.reliable \in BOOLEAN /\ packet.reliable = scenario.reliable[packet.msg]
         /\ SentAs(packet.msg, packet.from[1], packet.id, id_of) /\ DataOK(packet, id_of)
         /\ <<packet.no, packet.msg>> \in got'[n] /\ TargetOK(n, packet.from, t, got', id_of)
         /\ TargetOK(n, packet.from, t, got, id_of)
         /\ id_of \in [Messages -> Ids \cup {Invalid}] /\ packet.from \in Knows(target, n)
<1>1. /\ Inv /\ scenario \in Scenarios /\ n \in Nodes /\ packet \in Packets
      /\ packet.from \in Addresses /\ packet.msg \in Messages /\ DataOK(packet, id_of)
      /\ packet.no \in Nat /\ packet.id \in Ids /\ packet.reliable \in BOOLEAN
      /\ id_of \in [Messages -> Ids \cup {Invalid}]
      /\ \A b \in Knows(target, n) : TargetOK(n, b, target[n][b], got, id_of)
  BY PacketFields DEF Handles, Inv, Types, Tables, PacketOK
<1>2. /\ packet.no \in Fragments(packet.msg) /\ packet.count = scenario.count[packet.msg]
      /\ packet.reliable = scenario.reliable[packet.msg]
      /\ SentAs(packet.msg, packet.from[1], packet.id, id_of)
  BY <1>1 DEF DataOK
<1>3. packet.count \in Nat \ {0} /\ Fragments(packet.msg) = 0 .. packet.count - 1
  BY <1>1, <1>2, Scenery DEF Fragments
<1>4. packet.from \in Knows(target, n) /\ TargetOK(n, packet.from, t, got, id_of)
  BY <1>1, KnownKnows
<1>5. Growth(got, got', id_of, id_of) /\ <<packet.no, packet.msg>> \in got'[n]
  <2>1. CASE HearWhole(n, packet)
    <3>1. packet.count = 1 /\ got' = [got EXCEPT ![n] = @ \cup {<<0, packet.msg>>}]
      BY <2>1 DEF HearWhole
    <3>2. packet.no = 0
      BY <1>2, <1>3, <3>1
    <3>3. Growth(got, got', id_of, id_of) /\ <<0, packet.msg>> \in got'[n]
      BY <3>1, ReceivedOK
    <3> QED BY <3>2, <3>3
  <2>2. CASE HearFragment(n, packet)
    <3>1. got' = [got EXCEPT ![n] = @ \cup {<<packet.no, packet.msg>>}]
      BY <2>2 DEF HearFragment
    <3> QED BY <1>1, <3>1, ReceivedOK
  <2> QED BY <2>1, <2>2
<1>6. TargetOK(n, packet.from, t, got', id_of)
  BY <1>1, <1>4, <1>5, TargetGrows
<1> QED BY <1>1, <1>2, <1>3, <1>4, <1>5, <1>6

\* A fragment taken, alone or as one of several, is assembled or completes its message.
LEMMA TakesWhole ==
  ASSUME NEW n, NEW packet, Handles(n, packet), IsData(packet), packet.from \in Known(n),
         HearWhole(n, packet), NEW t, t = target[n][packet.from]
  PROVE  \E u, parts : Takes(n, packet, t, u, parts)
<1>1. /\ scenario \in Scenarios /\ n \in Nodes /\ packet.msg \in Messages /\ packet.id \in Ids
      /\ packet.no \in Fragments(packet.msg) /\ Fragments(packet.msg) = 0 .. packet.count - 1
      /\ TargetOK(n, packet.from, t, got, id_of)
  BY DataFacts
<1>2. /\ ~Repeated(t, packet) /\ packet.count = 1 /\ Deliver(n, packet, {<<0, packet.msg>>}) /\ UNCHANGED send_queue
      /\ \E u \in Remember(t, packet) : target' = [target EXCEPT ![n][packet.from] = u]
  BY DEF HearWhole
<1>3. PICK u \in Remember(t, packet) : target' = [target EXCEPT ![n][packet.from] = u]
  BY <1>2
<1>4. PICK parts : parts = {<<packet.no, packet.msg>>}
  OBVIOUS
<1>5. packet.no = 0 /\ parts = {<<0, packet.msg>>} /\ parts = AllOf(packet.msg)
  <2>1. Fragments(packet.msg) = {0}
    BY <1>1, <1>2
  <2> QED BY <1>1, <1>4, <2>1 DEF AllOf
<1>6. Cardinality(parts) = 1
  BY <1>4, FS_Singleton
<1>7. Complete(parts, packet)
  BY <1>2, <1>6 DEF Complete
<1>8. t \in [recent : Recents, index : 0 .. scenario.ring, assemblers : [Ids -> Assemblies]]
  BY <1>1 DEF TargetOK, Recents
<1>9. t \in [recent : Recents, index : Nat, assemblers : [Ids -> Assemblies]]
  <2>1. 0 .. scenario.ring \subseteq Nat
    BY <1>1, Scenery
  <2> QED BY <1>8, <2>1
<1>11. /\ u \in [recent : Recents, index : Nat, assemblers : [Ids -> Assemblies]]
       /\ u.assemblers = t.assemblers /\ Recalled(t, u, packet)
  <2>1. u \in Remember(t, packet) /\ scenario \in Scenarios /\ packet.id \in Ids
    BY <1>1
  <2>2. PICK A : A = [Ids -> Assemblies]
    OBVIOUS
  <2>3. t \in [recent : Recents, index : Nat, assemblers : A]
    BY <1>9, <2>2
  <2>4. /\ u \in [recent : Recents, index : Nat, assemblers : A]
        /\ u.assemblers = t.assemblers /\ Recalled(t, u, packet)
    BY <2>1, <2>3, RememberKeeps
  <2> QED BY <2>2, <2>4
<1>10. Recalls(t, u, packet, parts)
  BY <1>7, <1>11 DEF Recalls
<1>12. Assembles(t, u, packet, parts)
  BY <1>5, <1>7, <1>11 DEF Assembles
<1>13. \A s \in {<<>>, Answer(n, packet)} : \A j \in 1 .. Len(s) :
         /\ s[j].type \in {"ACK", "NACK"} /\ s[j].from = Address(n)
         /\ s[j].type = "ACK" => s[j].id = packet.id /\ s[j].bits = Numbers(parts) /\ packet.reliable
  <2>1. PICK x : x = Ack(n, packet, 0 .. packet.count - 1)
    OBVIOUS
  <2>2. Answer(n, packet) = IF packet.reliable THEN <<x>> ELSE <<>>
    BY <1>2, <2>1 DEF Answer
  <2>3. Numbers(parts) = 0 .. packet.count - 1
    BY <1>2, <1>5 DEF Numbers
  <2>4. x.type = "ACK" /\ x.from = Address(n) /\ x.id = packet.id /\ x.bits = Numbers(parts)
    BY <2>1, <2>3 DEF Ack
  <2>5. ASSUME NEW s \in {<<>>, Answer(n, packet)}, NEW j \in 1 .. Len(s) PROVE s = <<x>> /\ j = 1 /\ packet.reliable
    <3>1. s = <<>> \/ (s = <<x>> /\ packet.reliable)
      BY <2>2
    <3>2. CASE s = <<>>
      <4>1. 1 .. Len(s) = {}
        BY <3>2
      <4> QED BY <4>1
    <3>3. CASE s = <<x>> /\ packet.reliable
      <4>1. 1 .. Len(s) = {1}
        BY <3>3
      <4> QED BY <3>3, <4>1
    <3> QED BY <3>1, <3>2, <3>3
  <2>6. ASSUME NEW s \in {<<>>, Answer(n, packet)}, NEW j \in 1 .. Len(s) PROVE s[j] = x /\ packet.reliable
    BY <2>5
  <2> QED BY <2>4, <2>6
<1>14. \A j \in Ids : \A p \in u.assemblers[j] :
         p \in t.assemblers[j] \/ (j = packet.id /\ p = <<packet.no, packet.msg>>)
  BY <1>11
<1>15. parts \subseteq t.assemblers[packet.id] \cup {<<packet.no, packet.msg>>} /\ <<packet.no, packet.msg>> \in parts
  BY <1>4
<1>16. \E p \in parts : p[1] = 0
  BY <1>4, <1>5
<1>17. Deliver(n, packet, parts)
  BY <1>2, <1>5
<1>18. Takes(n, packet, t, u, parts)
  BY <1>2, <1>3, <1>7, <1>10, <1>11, <1>12, <1>13, <1>14, <1>15, <1>16, <1>17 DEF Takes
<1> QED BY <1>18

LEMMA TakesFragment ==
  ASSUME NEW n, NEW packet, Handles(n, packet), IsData(packet), packet.from \in Known(n),
         HearFragment(n, packet), NEW t, t = target[n][packet.from]
  PROVE  \E u, parts : Takes(n, packet, t, u, parts)
<1>1. /\ scenario \in Scenarios /\ n \in Nodes /\ packet \in Packets /\ packet.msg \in Messages /\ packet.id \in Ids
      /\ packet.count = scenario.count[packet.msg] /\ packet.count \in Nat \ {0}
      /\ Fragments(packet.msg) = 0 .. packet.count - 1
      /\ TargetOK(n, packet.from, t, got', id_of) /\ DataOK(packet, id_of)
      /\ <<packet.no, packet.msg>> \in got'[n] /\ id_of \in [Messages -> Ids \cup {Invalid}]
      /\ SentAs(packet.msg, packet.from[1], packet.id, id_of)
  BY DataFacts
<1>2. PICK parts : parts = Assembled(t, packet)
  OBVIOUS
<1>3. /\ parts \in Assemblies
      /\ \A p \in parts : PartOK(n, packet.from[1], packet.id, p, got', id_of)
      /\ \A p, r \in parts : p[1] = r[1] => p = r
      /\ \A p \in parts : p[1] < packet.count
  BY <1>1, <1>2, AssembledOK
<1> DEFINE all == Complete(parts, packet)
<1>4. /\ ~Repeated(t, packet) /\ packet.count > 1 /\ UNCHANGED send_queue
      /\ IF all THEN Deliver(n, packet, parts) ELSE UNCHANGED <<delivered, once, corrupt>>
  BY <1>2, Zenon DEF HearFragment
<1>5. PICK w \in IF Complete(Assembled(target[n][packet.from], packet), packet)
               THEN Remember(target[n][packet.from], packet) ELSE {target[n][packet.from]},
           old \in IF "expire" \in scenario.events THEN SUBSET (Ids \ {packet.id}) ELSE {{}} :
       target' = [target EXCEPT ![n][packet.from] = [w EXCEPT !.assemblers = [i \in Ids |->
            IF i \in old THEN {} ELSE IF i # packet.id THEN target[n][packet.from].assemblers[i]
            ELSE IF Complete(Assembled(target[n][packet.from], packet), packet) THEN {}
            ELSE Assembled(target[n][packet.from], packet)]]]
  BY Zenon DEF HearFragment
<1>6. PICK u : u = [w EXCEPT !.assemblers = [i \in Ids |->
            IF i \in old THEN {} ELSE IF i # packet.id THEN target[n][packet.from].assemblers[i]
            ELSE IF Complete(Assembled(target[n][packet.from], packet), packet) THEN {}
            ELSE Assembled(target[n][packet.from], packet)]]
  OBVIOUS
<1>7. /\ w \in IF all THEN Remember(t, packet) ELSE {t}
      /\ u = [w EXCEPT !.assemblers = [i \in Ids |->
            IF i \in old THEN {} ELSE IF i # packet.id THEN t.assemblers[i] ELSE IF all THEN {} ELSE parts]]
  BY <1>2, <1>5, <1>6
<1> HIDE DEF all
<1>8. target' = [target EXCEPT ![n][packet.from] = u]
  BY <1>5, <1>6
<1>9. /\ t \in [recent : Recents, index : Nat, assemblers : [Ids -> Assemblies]]
      /\ \A i \in Ids : \A p \in t.assemblers[i] : PartOK(n, packet.from[1], i, p, got', id_of)
  <2>1. 0 .. scenario.ring \subseteq Nat
    BY <1>1, Scenery
  <2>2. /\ t \in [recent : Recents, index : 0 .. scenario.ring, assemblers : [Ids -> Assemblies]]
        /\ \A i \in Ids : \A p \in t.assemblers[i] : PartOK(n, packet.from[1], i, p, got', id_of)
    BY <1>1 DEF TargetOK, Recents
  <2> QED BY <2>1, <2>2
<1>10. /\ u.recent = w.recent /\ u.index = w.index
       /\ u.assemblers = [i \in Ids |->
            IF i \in old THEN {} ELSE IF i # packet.id THEN t.assemblers[i] ELSE IF all THEN {} ELSE parts]
  <2>1. w \in [recent : Recents, index : Nat, assemblers : [Ids -> Assemblies]]
    BY <1>1, <1>7, <1>9, RememberKeeps
  <2> QED BY <1>7, <2>1
<1>11. Recalls(t, u, packet, parts)
  <2>1. CASE all
    <3>1. w \in Remember(t, packet)
      BY <1>7, <2>1
    <3>2. Recalled(t, w, packet)
      BY <1>1, <1>9, <3>1, RememberKeeps
    <3> QED BY <1>10, <2>1, <3>2 DEF Recalls, Recalled, all
  <2>2. CASE ~all
    BY <1>7, <1>10, <2>2 DEF Recalls, all
  <2> QED BY <2>1, <2>2
<1>12. packet.id \notin old /\ (Kept => old = {})
  BY <1>5 DEF Kept
<1>13. parts \subseteq t.assemblers[packet.id] \cup {<<packet.no, packet.msg>>} /\ <<packet.no, packet.msg>> \in parts
  BY <1>2 DEF Assembled, Held
<1>14. /\ \A i \in Ids : u.assemblers[i] \in {{}, t.assemblers[i]} \/ (i = packet.id /\ u.assemblers[i] = parts)
       /\ u.assemblers[packet.id] = IF all THEN {} ELSE parts
  BY <1>1, <1>10, <1>12
<1>15. u \in [recent : Recents, index : Nat, assemblers : [Ids -> Assemblies]]
  <2>1. \A i \in Ids : u.assemblers[i] \in Assemblies
    <3>1. {} \in Assemblies
      BY FS_EmptySet DEF Assemblies
    <3> QED BY <1>3, <1>9, <1>14, <3>1
  <2>2. u.assemblers \in [Ids -> Assemblies]
    BY <1>10, <2>1
  <2>3. w \in [recent : Recents, index : Nat, assemblers : [Ids -> Assemblies]]
    BY <1>1, <1>7, <1>9, RememberKeeps
  <2>4. u = [w EXCEPT !.assemblers = u.assemblers]
    BY <1>7, <1>10
  <2> QED BY <2>2, <2>3, <2>4
<1>16. \A j \in Ids : \A p \in u.assemblers[j] :
         p \in t.assemblers[j] \/ (j = packet.id /\ p = <<packet.no, packet.msg>>)
  BY <1>13, <1>14
<1>17. all => /\ \E p \in parts : p[1] = 0
              /\ u.assemblers[packet.id] = {} \/ packet.count = 1
  BY <1>1, <1>3, <1>14, FullHasFirst DEF all, Complete
<1>18. ASSUME Kept, IsFresh(id_of) PROVE Assembles(t, u, packet, parts)
  <2>1. \A j \in Ids \ {packet.id} : u.assemblers[j] = t.assemblers[j]
    BY <1>10, <1>12, <1>18
  <2>2. all => parts = AllOf(packet.msg)
    BY <1>1, <1>2, <1>18, CompleteIsWhole DEF all, AllOf
  <2>3. \A m \in Messages : SentAs(m, packet.from[1], packet.id, id_of) => m = packet.msg
    BY <1>1, <1>18, Scenery DEF IsFresh, SentAs
  <2>4. \A p \in parts : p = <<p[1], packet.msg>> /\ p[1] \in Fragments(packet.msg)
    BY <1>3, <2>3 DEF Assemblies, Parts, PartOK
  <2>5. \A p \in t.assemblers[packet.id] : p[2] = packet.msg /\ p[1] \in Fragments(packet.msg)
    BY <1>1, <1>9, <2>3 DEF Assemblies, Parts, PartOK
  <2>6. ~Confused(t, packet)
    BY <1>1, <2>5 DEF Confused, Held
  <2>7. ASSUME NEW p \in t.assemblers[packet.id] PROVE p[1] \in Numbers(parts)
    <3>1. CASE p[1] = packet.no
      BY <1>13, <3>1 DEF Numbers
    <3>2. CASE p[1] # packet.no
      <4>1. p \in parts
        BY <1>2, <2>6, <3>2 DEF Assembled, Held
      <4> QED BY <4>1 DEF Numbers
    <3> QED BY <3>1, <3>2
  <2>8. Numbers(parts) \subseteq Fragments(packet.msg)
    BY <2>4 DEF Numbers
  <2>9. Numbers(parts) = Fragments(packet.msg) => all
    <3>1. Cardinality(Numbers(parts)) = Cardinality(parts)
      BY <1>3, NumberedOnce
    <3>2. Cardinality(0 .. packet.count - 1) = packet.count
      BY <1>1, Counted
    <3> QED BY <1>1, <3>1, <3>2 DEF all, Complete
  <2> QED BY <1>14, <2>1, <2>2, <2>4, <2>7, <2>8, <2>9 DEF Assembles, all
<1>19. \A s \in {<<>>, Answer(n, packet)} : \A j \in 1 .. Len(s) :
         /\ s[j].type \in {"ACK", "NACK"} /\ s[j].from = Address(n)
         /\ s[j].type = "ACK" => s[j].id = packet.id /\ s[j].bits = Numbers(parts) /\ packet.reliable
  <2>1. PICK x : x = Ack(n, packet, Numbers(parts))
    OBVIOUS
  <2>2. PICK y : y = Nack(n, packet, Numbers(Held(t, packet)) \ {packet.no})
    OBVIOUS
  <2>3. Answer(n, packet) = IF ~packet.reliable THEN <<>> ELSE IF Confused(t, packet) THEN <<y, x>> ELSE <<x>>
    BY <1>2, <1>4, <2>1, <2>2 DEF Answer
  <2>4. /\ x.type = "ACK" /\ x.from = Address(n) /\ x.id = packet.id /\ x.bits = Numbers(parts)
        /\ y.type = "NACK" /\ y.from = Address(n)
    BY <2>1, <2>2 DEF Ack, Nack
  <2>5. /\ Len(<<>>) = 0 /\ Len(<<x>>) = 1 /\ Len(<<y, x>>) = 2
        /\ <<x>>[1] = x /\ <<y, x>>[1] = y /\ <<y, x>>[2] = x
    OBVIOUS
  <2>6. ASSUME NEW s \in {<<>>, Answer(n, packet)}, NEW j \in 1 .. Len(s)
        PROVE  packet.reliable /\ (s[j] = x \/ s[j] = y)
    <3>1. s = <<>> \/ (packet.reliable /\ (s = <<y, x>> \/ s = <<x>>))
      BY <2>3
    <3> QED BY <2>5, <3>1
  <2> QED BY <2>4, <2>6
<1>20. Takes(n, packet, t, u, parts)
  <2>1. IF Complete(parts, packet) THEN Deliver(n, packet, parts) ELSE UNCHANGED <<delivered, once>>
    BY <1>4 DEF all
  <2> QED BY <1>4, <1>8, <1>11, <1>13, <1>15, <1>16, <1>17, <1>18, <1>19, <2>1 DEF Takes, all
<1> QED BY <1>20

-----------------------------------------------------------------------------
(* A fragment that is taken keeps the promises.                            *)

Taking(n, q, k, packet, s, t, u, parts) ==
  /\ n \in Nodes /\ q \in Nodes /\ Reads(n, q, k, packet, s)
  /\ IsData(packet) /\ packet.from \in Known(n) /\ (HearWhole(n, packet) \/ HearFragment(n, packet))
  /\ Takes(n, packet, t, u, parts)

\* What a fragment that is taken says of its message and its sender.
LEMMA TakingFacts ==
  ASSUME Inv, Promises, NEW n, NEW q, NEW k, NEW packet, NEW s, NEW t, NEW u, NEW parts,
         Taking(n, q, k, packet, s, t, u, parts)
  PROVE  /\ n \in Nodes /\ q \in Nodes /\ q # n /\ scenario \in Scenarios
         /\ packet.msg \in Messages /\ packet.id \in Ids /\ packet.no \in Nat
         /\ packet.no \in Fragments(packet.msg) /\ packet.count \in Nat \ {0}
         /\ Fragments(packet.msg) = 0 .. packet.count - 1
         /\ packet.reliable \in BOOLEAN /\ packet.reliable = scenario.reliable[packet.msg]
         /\ Source(packet.msg) = q /\ id_of[packet.msg] = packet.id /\ packet.id # Invalid
         /\ packet.from \in Addresses /\ packet.from[1] = q /\ packet.from \in Knows(target, n)
         /\ k \in 1 .. Len(net[q][n]) /\ packet = net[q][n][k] /\ Carries(packet, packet.msg)
         /\ packet.type \in {"DATA", "DATA_RETRANSMISSION"}
         /\ packet.type = "DATA_RETRANSMISSION" => packet.reliable
         /\ packet.msg \in scenario.messages
<1>1. /\ n \in Nodes /\ q \in Nodes /\ Reads(n, q, k, packet, s) /\ Handles(n, packet)
      /\ IsData(packet) /\ packet.from \in Known(n) /\ (HearWhole(n, packet) \/ HearFragment(n, packet))
  BY DEF Taking, Reads
<1>2. /\ q # n /\ packet.from \in Addresses /\ packet.from[1] = q
      /\ packet.type = "DATA_RETRANSMISSION" => scenario.reliable[packet.msg]
      /\ k \in 1 .. Len(net[q][n]) /\ packet = net[q][n][k]
  BY <1>1, ReadFrom
<1>3. PICK z : z = target[n][packet.from]
  OBVIOUS
<1>4. /\ scenario \in Scenarios /\ packet.msg \in Messages /\ packet.id \in Ids /\ packet.no \in Nat
      /\ packet.no \in Fragments(packet.msg) /\ packet.count \in Nat \ {0}
      /\ Fragments(packet.msg) = 0 .. packet.count - 1
      /\ packet.reliable \in BOOLEAN /\ packet.reliable = scenario.reliable[packet.msg]
      /\ SentAs(packet.msg, packet.from[1], packet.id, id_of) /\ packet.from \in Knows(target, n)
  BY <1>1, <1>3, DataFacts
<1>5. Source(packet.msg) = q /\ id_of[packet.msg] = packet.id /\ packet.id # Invalid
  BY <1>2, <1>4, Scenery DEF SentAs, Source
<1>6. Carries(packet, packet.msg) /\ packet.type \in {"DATA", "DATA_RETRANSMISSION"}
  BY <1>1 DEF Carries, IsData
<1>7. packet.msg \in scenario.messages
  BY <1>4, <1>5 DEF Promises, Sendings
<1> QED BY <1>1, <1>2, <1>4, <1>5, <1>6, <1>7

\* It changes the target of its sender and no other.
LEMMA TakingTargets ==
  ASSUME Inv, Promises, NEW n, NEW q, NEW k, NEW packet, NEW s, NEW t, NEW u, NEW parts,
         Taking(n, q, k, packet, s, t, u, parts)
  PROVE  /\ \A p \in Nodes : Knows(target', p) = Knows(target, p)
         /\ \A p \in Nodes, a \in Addresses :
              target'[p][a] = IF p = n /\ a = packet.from THEN u ELSE target[p][a]
         /\ t = target[n][packet.from] /\ TargetOK(n, packet.from, t, got, id_of)
         /\ UNCHANGED <<scenario, port, packet_id_source, unsent, id_of, send_queue>>
<1>1. /\ n \in Nodes /\ packet.from \in Addresses /\ packet.from \in Knows(target, n) /\ scenario \in Scenarios
  BY TakingFacts
<1>2. /\ t = target[n][packet.from] /\ target' = [target EXCEPT ![n][packet.from] = u]
      /\ u \in [recent : Recents, index : Nat, assemblers : [Ids -> Assemblies]]
      /\ UNCHANGED <<scenario, port, packet_id_source, unsent, id_of, send_queue>>
  BY DEF Taking, Takes, Reads
<1>3. target = [m \in Nodes |-> [b \in Addresses |-> target[m][b]]]
  BY DEF Inv, Tables
<1>4. \A p \in Nodes, a \in Addresses :
        target'[p][a] = IF p = n /\ a = packet.from THEN u ELSE target[p][a]
  BY <1>1, <1>2, <1>3
<1>5. u # Unknown
  <2>1. /\ u.recent \in [0 .. scenario.ring - 1 -> Int] /\ u.index \in Nat
        /\ u.assemblers \in [0 .. scenario.ids - 1 -> SUBSET (Nat \X Messages)]
    <3>1. Ids \cup {Invalid} \subseteq Int
      BY <1>1, Scenery DEF Invalid
    <3> QED BY <1>2, <3>1 DEF Ids, Assemblies, Parts, Recents
  <2>2. u \in [recent : [0 .. scenario.ring - 1 -> Int], index : Nat,
               assemblers : [0 .. scenario.ids - 1 -> SUBSET (Nat \X Messages)]]
    BY <1>2, <2>1
  <2> QED BY <1>1, <2>2, UnknownAssumption
<1>6. \A p \in Nodes : Knows(target', p) = Knows(target, p)
  BY <1>1, <1>4, <1>5 DEF Knows
<1>7. TargetOK(n, packet.from, t, got, id_of)
  BY <1>1, <1>2, InvFacts
<1> QED BY <1>2, <1>4, <1>6, <1>7

\* What does not make the whole message is not counted.
LEMMA TakingNothing ==
  ASSUME Inv, Promises, NEW n, NEW q, NEW k, NEW packet, NEW s, NEW t, NEW u, NEW parts,
         Taking(n, q, k, packet, s, t, u, parts), ~(Complete(parts, packet) /\ parts = AllOf(packet.msg))
  PROVE  UNCHANGED <<delivered, once>>
<1>1. n \in Nodes /\ packet.msg \in Messages
  BY TakingFacts
<1>2. delivered \in [Messages -> [Nodes -> 0 .. 2]] /\ once \in [Messages -> [Nodes -> 0 .. 2]]
  BY InvFacts
<1>3. IF Complete(parts, packet) THEN Deliver(n, packet, parts) ELSE UNCHANGED <<delivered, once>>
  BY DEF Taking, Takes
<1>4. CASE ~Complete(parts, packet)
  BY <1>3, <1>4
<1>5. CASE Complete(parts, packet) /\ parts # AllOf(packet.msg)
  <2>1. /\ delivered' = [delivered EXCEPT ![packet.msg][n] = @] /\ once' = [once EXCEPT ![packet.msg][n] = @]
    BY <1>3, <1>5 DEF Deliver, AllOf
  <2> QED BY <1>2, <2>1
<1> QED BY <1>4, <1>5

\* It delivers its own message to its own node, if that is complete, and nothing else.
LEMMA TakingCounts ==
  ASSUME Inv, Promises, NEW n, NEW q, NEW k, NEW packet, NEW s, NEW t, NEW u, NEW parts,
         Taking(n, q, k, packet, s, t, u, parts)
  PROVE  /\ \A o \in Messages, p \in Nodes :
              /\ delivered'[o][p] # delivered[o][p] \/ once'[o][p] # once[o][p] =>
                   o = packet.msg /\ p = n /\ Complete(parts, packet) /\ parts = AllOf(packet.msg)
              /\ delivered[o][p] > 0 => delivered'[o][p] > 0
         /\ Complete(parts, packet) /\ parts = AllOf(packet.msg) =>
              /\ delivered'[packet.msg][n] > 0
              /\ delivered' = [delivered EXCEPT ![packet.msg][n] = IF @ < 2 THEN @ + 1 ELSE @]
              /\ once' = [once EXCEPT ![packet.msg][n] = IF @ < 2 THEN @ + 1 ELSE @]
<1>1. n \in Nodes /\ packet.msg \in Messages
  BY TakingFacts
<1>2. delivered \in [Messages -> [Nodes -> 0 .. 2]] /\ once \in [Messages -> [Nodes -> 0 .. 2]]
  BY InvFacts
<1>3. IF Complete(parts, packet) THEN Deliver(n, packet, parts) ELSE UNCHANGED <<delivered, once>>
  BY DEF Taking, Takes
<1>4. PICK m \in Messages : m = packet.msg
  BY <1>1
<1>5. CASE Complete(parts, packet) /\ parts = AllOf(m)
  <2>1. /\ delivered' = [delivered EXCEPT ![m][n] = IF @ < 2 THEN @ + 1 ELSE @]
        /\ once' = [once EXCEPT ![m][n] = IF @ < 2 THEN @ + 1 ELSE @]
    BY <1>3, <1>4, <1>5 DEF Deliver, AllOf
  <2>2. delivered[m][n] \in 0 .. 2
    BY <1>1, <1>2
  <2>3. \A o \in Messages, p \in Nodes : ~(o = m /\ p = n) =>
          delivered'[o][p] = delivered[o][p] /\ once'[o][p] = once[o][p]
    BY <1>1, <1>2, <2>1
  <2>4. delivered'[m][n] = IF delivered[m][n] < 2 THEN delivered[m][n] + 1 ELSE delivered[m][n]
    BY <1>1, <1>2, <2>1
  <2>5. delivered'[m][n] > 0
    BY <2>2, <2>4
  <2> QED BY <1>4, <1>5, <2>1, <2>3, <2>5
<1>6. CASE ~(Complete(parts, packet) /\ parts = AllOf(m))
  <2>1. UNCHANGED <<delivered, once>>
    BY <1>4, <1>6, TakingNothing
  <2> QED BY <1>4, <1>6, <2>1
<1> QED BY <1>5, <1>6

LEMMA TakingDelivers ==
  ASSUME Inv, Promises, NEW n, NEW q, NEW k, NEW packet, NEW s, NEW t, NEW u, NEW parts,
         Taking(n, q, k, packet, s, t, u, parts)
  PROVE  /\ \A o \in Messages, p \in Nodes : once'[o][p] # once[o][p] =>
              o = packet.msg /\ p = n /\ Complete(parts, packet) /\ parts = AllOf(packet.msg)
         /\ \A o \in Messages, p \in Nodes : delivered[o][p] > 0 => delivered'[o][p] > 0
         /\ Complete(parts, packet) /\ parts = AllOf(packet.msg) => delivered'[packet.msg][n] > 0
<1>1. \A o \in Messages, p \in Nodes :
              /\ delivered'[o][p] # delivered[o][p] \/ once'[o][p] # once[o][p] =>
                   o = packet.msg /\ p = n /\ Complete(parts, packet) /\ parts = AllOf(packet.msg)
              /\ delivered[o][p] > 0 => delivered'[o][p] > 0
  BY TakingCounts
<1>2. Complete(parts, packet) /\ parts = AllOf(packet.msg) => delivered'[packet.msg][n] > 0
  BY TakingCounts
<1> QED BY <1>1, <1>2

\* It is answered by an ACK or a NACK and leaves its link.
LEMMA TakingStreams ==
  ASSUME Inv, Promises, NEW n, NEW q, NEW k, NEW packet, NEW s, NEW t, NEW u, NEW parts,
         Taking(n, q, k, packet, s, t, u, parts)
  PROVE  /\ \A j \in 1 .. Len(s) :
              /\ s[j].type \in {"ACK", "NACK"} /\ s[j].from = Current(n, port) /\ ~s[j].held
              /\ s[j].type = "ACK" => s[j].id = packet.id /\ s[j].bits = Numbers(parts) /\ packet.reliable
         /\ \A r, p \in Nodes : \A j \in 1 .. Len(net'[r][p]) :
              \/ \E i \in 1 .. Len(net[r][p]) : net'[r][p][j] = net[r][p][i]
              \/ r = n /\ p = q /\ \E i \in 1 .. Len(s) : net'[r][p][j] = s[i]
         /\ Exact => /\ Foremost(net[q][n], k) /\ Trails(net[q][n], net'[q][n], k)
                     /\ \A r, p \in Nodes : \E e \in Nat : Trails(net[r][p], net'[r][p], e)
<1>1. /\ n \in Nodes /\ q \in Nodes /\ Flow(n, q, k, s) /\ Takes(n, packet, t, u, parts)
      /\ s \in {<<>>, Reply(n, packet)} /\ IsData(packet) /\ packet.from \in Known(n)
  BY DEF Taking, Reads
<1>2. Reply(n, packet) = Answer(n, packet)
  BY <1>1 DEF Reply, IsData
<1>3. \A j \in 1 .. Len(s) :
        /\ s[j].type \in {"ACK", "NACK"} /\ s[j].from = Current(n, port) /\ ~s[j].held
        /\ s[j].type = "ACK" => s[j].id = packet.id /\ s[j].bits = Numbers(parts) /\ packet.reliable
  <2>1. s \in {<<>>, Answer(n, packet)}
    BY <1>1, <1>2
  <2>2. \A j \in 1 .. Len(s) : ~s[j].held
    BY <2>1, AnswerUnheld
  <2> QED BY <1>1, <2>1, <2>2, Zenon DEF Takes, Address, Current
<1>4. \A r, p \in Nodes : \A j \in 1 .. Len(net'[r][p]) :
        \/ \E i \in 1 .. Len(net[r][p]) : net'[r][p][j] = net[r][p][i]
        \/ r = n /\ p = q /\ \E i \in 1 .. Len(s) : net'[r][p][j] = s[i]
  <2> SUFFICES ASSUME NEW r \in Nodes, NEW p \in Nodes, NEW j \in 1 .. Len(net'[r][p])
               PROVE  \/ \E i \in 1 .. Len(net[r][p]) : net'[r][p][j] = net[r][p][i]
                      \/ r = n /\ p = q /\ \E i \in 1 .. Len(s) : net'[r][p][j] = s[i]
    OBVIOUS
  <2>1. CASE r = q /\ p = n
    BY <1>1, <2>1 DEF Flow
  <2>2. CASE ~(r = q /\ p = n)
    <3>1. \/ j \in 1 .. Len(net[r][p]) /\ net'[r][p][j] = net[r][p][j]
          \/ /\ r = n /\ p = q /\ j - Len(net[r][p]) \in 1 .. Len(s)
             /\ net'[r][p][j] = s[j - Len(net[r][p])]
      BY <1>1, <2>2, Zenon DEF Flow
    <3>2. CASE j \in 1 .. Len(net[r][p]) /\ net'[r][p][j] = net[r][p][j]
      BY <3>2, Zenon
    <3>3. CASE /\ r = n /\ p = q /\ j - Len(net[r][p]) \in 1 .. Len(s)
               /\ net'[r][p][j] = s[j - Len(net[r][p])]
      BY <3>3, Zenon
    <3> QED BY <3>1, <3>2, <3>3
  <2> QED BY <2>1, <2>2
<1>5. ASSUME Exact PROVE /\ Foremost(net[q][n], k) /\ Trails(net[q][n], net'[q][n], k)
                         /\ \A r, p \in Nodes : \E e \in Nat : Trails(net[r][p], net'[r][p], e)
  <2>1. \A j \in 1 .. Len(s) : s[j].type # "DATA"
    BY <1>3
  <2>2. Foremost(net[q][n], k)
    BY <1>1, <1>5 DEF Flow
  <2> QED BY <1>1, <1>5, <2>1, <2>2, FlowTrails
<1> QED BY <1>3, <1>4, <1>5

\* What is on a link after a step was there, or is an answer.
LEMMA TakingPackets ==
  ASSUME Inv, Promises, NEW n, NEW q, NEW k, NEW packet, NEW s, NEW t, NEW u, NEW parts,
         Taking(n, q, k, packet, s, t, u, parts)
  PROVE  \A r, p \in Nodes : \A j \in 1 .. Len(net'[r][p]) :
           \/ \E i \in 1 .. Len(net[r][p]) : net'[r][p][j] = net[r][p][i]
           \/ r = n /\ p = q /\ \E i \in 1 .. Len(s) : net'[r][p][j] = s[i]
  BY TakingStreams

\* Where packets are in order, data is on the data socket, and nobody holds it.
LEMMA OnDataSocket ==
  ASSUME Inv, Promises, Exact, NEW r \in Nodes, NEW p \in Nodes, NEW j \in 1 .. Len(net[r][p]),
         IsData(net[r][p][j])
  PROVE  net[r][p][j].socket = "data_fd" /\ ~net[r][p][j].held
<1>1. PICK x \in Packets : x = net[r][p][j] /\ PacketOK(p, x, got, id_of)
  BY InvFacts
<1>2. x.msg \in Messages /\ x.id \in Ids /\ id_of[x.msg] = x.id /\ Invalid \notin Ids
  BY <1>1, PacketFields, InvFacts DEF PacketOK, DataOK, SentAs
<1>3. x.msg \in scenario.messages
  BY <1>2 DEF Promises, Sendings
<1>4. Placed(x)
  BY <1>1 DEF Promises, Sources
<1> QED BY <1>1, <1>3, <1>4 DEF Placed, DataSocket, Exact

\* The packet taken is the first of the data socket: one that is there after it was
\* behind it.
LEMMA TakingFirst ==
  ASSUME Inv, Promises, NEW n, NEW q, NEW k, NEW packet, NEW s, NEW t, NEW u, NEW parts,
         Taking(n, q, k, packet, s, t, u, parts), Exact
  PROVE  /\ k \in 1 .. Len(net[q][n]) /\ packet = net[q][n][k] /\ packet.socket = "data_fd" /\ ~packet.held
         /\ \A j \in Nat : Behind(j, k) \in 1 .. Len(net[q][n]) /\ net[q][n][Behind(j, k)].socket = "data_fd" =>
              k < Behind(j, k)
<1>1. /\ n \in Nodes /\ q \in Nodes /\ k \in 1 .. Len(net[q][n]) /\ packet = net[q][n][k]
      /\ IsData(packet) /\ Foremost(net[q][n], k)
  BY TakingFacts, TakingStreams DEF Taking
<1>2. packet.socket = "data_fd" /\ ~packet.held
  BY <1>1, OnDataSocket
<1>3. ASSUME NEW j \in Nat, NEW b, b = Behind(j, k), b \in 1 .. Len(net[q][n]), net[q][n][b].socket = "data_fd"
      PROVE  k < b
  <2>1. b # k /\ k \in Nat /\ b \in Nat
    BY <1>1, <1>3, BehindOrder
  <2>2. b \notin 1 .. k - 1
    BY <1>1, <1>2, <1>3 DEF Foremost
  <2> QED BY <1>3, <2>1, <2>2
<1> QED BY <1>1, <1>2, <1>3

\* What is remembered is in the window of recent_packets that is compared.
LEMMA RepeatedId ==
  ASSUME NEW n, NEW a, NEW t, NEW g, NEW ids, TargetOK(n, a, t, g, ids), scenario \in Scenarios, NEW packet, HasId(t, packet.id),
         packet.type = "DATA_RETRANSMISSION", packet.reliable, ~packet.held
  PROVE  Repeated(t, packet)
<1>1. PICK j \in 0 .. t.index - 1 : t.recent[j] = packet.id
  BY DEF HasId
<1>2. t.index \in 0 .. scenario.ring /\ DOMAIN t.recent = 0 .. scenario.ring - 1
  BY DEF TargetOK
<1>3. scenario.ring \in Nat
  BY Scenery
<1>4. j \in DOMAIN t.recent
  BY <1>2, <1>3
<1> QED BY <1>1, <1>4 DEF Repeated

\* A message that is complete is not remembered yet, and there is room for it.
LEMMA TakingNew ==
  ASSUME Inv, Promises, NEW n, NEW q, NEW k, NEW packet, NEW s, NEW t, NEW u, NEW parts,
         Taking(n, q, k, packet, s, t, u, parts), Exact, Complete(parts, packet), packet.reliable
  PROVE  /\ ~DoneOK(packet.msg, net[q][n], t, packet.from, id_of)
         /\ t.index < scenario.ring
<1>1. /\ n \in Nodes /\ q \in Nodes /\ scenario \in Scenarios /\ packet.msg \in Messages
      /\ id_of[packet.msg] = packet.id /\ packet.id # Invalid /\ packet.from[1] = q /\ packet.from \in Knows(target, n)
      /\ k \in 1 .. Len(net[q][n]) /\ packet = net[q][n][k] /\ Carries(packet, packet.msg) /\ ~packet.held
      /\ packet.type \in {"DATA", "DATA_RETRANSMISSION"} /\ t = target[n][packet.from]
      /\ TargetOK(n, packet.from, t, got, id_of)
  BY TakingFacts, TakingTargets, TakingFirst
<1>2. /\ ~Repeated(t, packet) /\ \E p \in parts : p[1] = 0
      /\ parts \subseteq t.assemblers[packet.id] \cup {<<packet.no, packet.msg>>}
  BY DEF Taking, Takes
<1>3. ASSUME DoneOK(packet.msg, net[q][n], t, packet.from, id_of) PROVE FALSE
  <2>1. HasId(t, packet.id)
    BY <1>1, <1>3 DEF DoneOK
  <2>2. packet.type = "DATA"
    BY <1>1, <1>2, <2>1, RepeatedId
  <2>3. First(net[q][n][k], packet.msg)
    BY <1>1, <2>2 DEF First
  <2>4. 0 < packet.no /\ \A p \in t.assemblers[packet.id] : 0 < p[1]
    BY <1>1, <1>3, <2>3 DEF DoneOK
  <2>5. PICK p \in parts : p[1] = 0
    BY <1>2
  <2>6. p \in t.assemblers[packet.id] \/ p = <<packet.no, packet.msg>>
    BY <1>2
  <2> QED BY <2>4, <2>5, <2>6
<1>4. t.index < scenario.ring
  <2>1. Remembers(net[q][n], t, packet.from, id_of)
    BY <1>1 DEF Promises, Orderly
  <2>2. PICK done \in SUBSET scenario.messages :
          Cardinality(done) = t.index /\ \A m \in done : DoneOK(m, net[q][n], t, packet.from, id_of)
    BY <2>1 DEF Remembers
  <2>3. packet.msg \in scenario.messages \ done
    BY <1>1, <1>3, <2>2 DEF Promises, Sendings
  <2>4. IsFiniteSet(scenario.messages) /\ scenario.ring >= Cardinality(scenario.messages)
    BY DEF Exact
  <2>5. IsFiniteSet(done) /\ Cardinality(done) <= Cardinality(scenario.messages) /\ Cardinality(done) # Cardinality(scenario.messages)
    BY <2>2, <2>3, <2>4, FS_Subset
  <2>6. Cardinality(done) \in Nat /\ Cardinality(scenario.messages) \in Nat /\ scenario.ring \in Nat
    BY <1>1, <2>4, <2>5, FS_CardinalityType, Scenery
  <2> QED BY <2>2, <2>4, <2>5, <2>6
<1> QED BY <1>3, <1>4

\* Nothing that is remembered is forgotten, and a message that is complete is
\* remembered.
LEMMA TakingRecalls ==
  ASSUME Inv, Promises, NEW n, NEW q, NEW k, NEW packet, NEW s, NEW t, NEW u, NEW parts,
         Taking(n, q, k, packet, s, t, u, parts), Exact
  PROVE  /\ \A i : i # Invalid /\ HasId(t, i) => HasId(u, i)
         /\ Complete(parts, packet) /\ packet.reliable => HasId(u, packet.id) /\ u.index = t.index + 1
         /\ ~(Complete(parts, packet) /\ packet.reliable) => u.index = t.index
<1>1. Recalls(t, u, packet, parts)
  BY DEF Taking, Takes
<1>2. CASE ~(Complete(parts, packet) /\ packet.reliable)
  <2>1. u.recent = t.recent /\ u.index = t.index
    BY <1>1, <1>2 DEF Recalls, Recalled
  <2> QED BY <1>2, <2>1 DEF HasId
<1>3. CASE Complete(parts, packet) /\ packet.reliable
  <2>1. t.index < scenario.ring
    BY <1>3, TakingNew
  <2>2. u.recent = [t.recent EXCEPT ![t.index] = packet.id] /\ u.index = t.index + 1
    BY <1>1, <1>3, <2>1 DEF Recalls, Recalled
  <2>3. /\ t.index \in Nat /\ t.recent \in [0 .. scenario.ring - 1 -> Ids \cup {Invalid}]
    <3>1. TargetOK(n, packet.from, t, got, id_of)
      BY TakingTargets
    <3> QED BY <3>1 DEF TargetOK
  <2>4. scenario.ring \in Nat
    BY TakingFacts, Scenery
  <2>5. DOMAIN t.recent = 0 .. scenario.ring - 1 /\ t.index \in 0 .. scenario.ring - 1
    BY <2>1, <2>3, <2>4
  <2>6. u.recent[t.index] = packet.id /\ t.index \in 0 .. u.index - 1
    <3>1. u.recent[t.index] = packet.id
      BY <2>2, <2>3, <2>5
    <3>2. t.index \in 0 .. u.index - 1
      BY <2>2, <2>3
    <3> QED BY <3>1, <3>2
  <2>7. \A j \in 0 .. t.index - 1 : j \in 0 .. u.index - 1 /\ u.recent[j] = t.recent[j]
    BY <2>1, <2>2, <2>3, <2>4, <2>5
  <2>8. HasId(u, packet.id)
    BY <2>6 DEF HasId
  <2>9. \A i : HasId(t, i) => HasId(u, i)
    BY <2>7 DEF HasId
  <2> QED BY <1>3, <2>2, <2>8, <2>9
<1> QED BY <1>2, <1>3

\* What has been delivered is not delivered again.
LEMMA TakingOnce ==
  ASSUME Inv, Promises, NEW n, NEW q, NEW k, NEW packet, NEW s, NEW t, NEW u, NEW parts,
         Taking(n, q, k, packet, s, t, u, parts), Exact
  PROVE  once[packet.msg][n] = 0
<1> SUFFICES ASSUME once[packet.msg][n] # 0 PROVE FALSE
  OBVIOUS
<1>1. PICK m \in Messages : m = packet.msg
  BY TakingFacts
<1>2. /\ n \in Nodes /\ q \in Nodes /\ scenario \in Scenarios /\ Source(m) = q /\ id_of[m] = packet.id
      /\ k \in 1 .. Len(net[q][n]) /\ packet = net[q][n][k] /\ Carries(packet, m)
      /\ packet.type \in {"DATA", "DATA_RETRANSMISSION"} /\ t = target[n][packet.from]
      /\ TargetOK(n, packet.from, t, got, id_of) /\ packet.reliable = scenario.reliable[m]
      /\ packet.type = "DATA_RETRANSMISSION" => packet.reliable
  BY <1>1, TakingFacts, TakingTargets
<1>0. ~packet.held
  BY TakingFirst
<1>3. ~First(packet, m)
  BY <1>1, <1>2 DEF Promises, Orderly, NotFirst
<1>4. packet.type = "DATA_RETRANSMISSION" /\ packet.reliable
  BY <1>1, <1>2, <1>3 DEF First
<1>5. PICK a \in Addresses : HomeOK(m, a, net, target, send_queue, port, id_of, once)
  BY DEF Promises, Homes
<1>6. packet.from = a /\ HasId(t, packet.id)
  <2>1. /\ \A j \in 1 .. Len(net[q][n]) : Carries(net[q][n][j], m) => net[q][n][j].from = a
        /\ \A p \in Nodes : once[m][p] # 0 /\ scenario.reliable[m] => HasId(target[p][a], id_of[m])
    BY <1>2, <1>5 DEF HomeOK
  <2>2. packet.from = a
    BY <1>2, <2>1
  <2> QED BY <1>1, <1>2, <1>4, <2>1, <2>2
<1>7. Repeated(t, packet)
  BY <1>0, <1>2, <1>4, <1>6, RepeatedId
<1> QED BY <1>7 DEF Taking, Takes

\* Taking a fragment keeps the first three promises.
LEMMA TakingSources ==
  ASSUME Inv, Promises, NEW n, NEW q, NEW k, NEW packet, NEW s, NEW t, NEW u, NEW parts,
         Taking(n, q, k, packet, s, t, u, parts)
  PROVE  Sources(net', target', port')
<1>1. /\ n \in Nodes /\ q \in Nodes /\ q # n /\ UNCHANGED <<scenario, port>>
      /\ \A p \in Nodes : Knows(target', p) = Knows(target, p)
  BY TakingFacts, TakingTargets
<1>2. Sources(net, target, port)
  BY DEF Promises
<1>3. ASSUME NEW r \in Nodes, NEW p \in Nodes, NEW j \in 1 .. Len(net'[r][p]), NEW x, x = net'[r][p][j]
      PROVE  /\ p # r /\ x.from[1] = r /\ x.from[2] <= port[r]
             /\ x.type = "LEAVE" => x.from[2] < port[r]
             /\ Placed(x)
  <2>1. CASE \E i \in 1 .. Len(net[r][p]) : x = net[r][p][i]
    BY <1>2, <2>1 DEF Sources
  <2>2. CASE r = n /\ p = q /\ \E i \in 1 .. Len(s) : x = s[i]
    <3>1. x.type \in {"ACK", "NACK"} /\ x.from = <<n, port[n]>> /\ ~x.held
      BY <2>2, TakingStreams DEF Current
    <3>2. port[n] \in Nat /\ Placed(x)
      BY <1>1, <3>1, InvFacts DEF Placed, IsData
    <3> QED BY <1>1, <2>2, <3>1, <3>2
  <2> QED BY <1>3, <2>1, <2>2, TakingStreams
<1>4. \A p \in Nodes : \A a \in Knows(target', p) : a[1] # p /\ a[2] <= port[a[1]]
  BY <1>1, <1>2 DEF Sources
<1>5. \A r, p \in Nodes : \A j \in 1 .. Len(net'[r][p]) :
        LET x == net'[r][p][j] IN
        /\ p # r /\ x.from[1] = r /\ x.from[2] <= port[r]
        /\ x.type = "LEAVE" => x.from[2] < port[r]
        /\ Placed(x)
  BY <1>3
<1> QED BY <1>1, <1>4, <1>5 DEF Sources

LEMMA TakingSendings ==
  ASSUME Inv, Promises, NEW n, NEW q, NEW k, NEW packet, NEW s, NEW t, NEW u, NEW parts,
         Taking(n, q, k, packet, s, t, u, parts)
  PROVE  Sendings(unsent', id_of', target', once')
<1>1. /\ n \in Nodes /\ Source(packet.msg) = q /\ id_of[packet.msg] # Invalid /\ packet.from[1] = q
      /\ packet.from \in Knows(target, n) /\ UNCHANGED <<unsent, id_of, scenario>>
      /\ \A p \in Nodes : Knows(target', p) = Knows(target, p)
  BY TakingFacts, TakingTargets
<1>2. Sendings(unsent, id_of, target, once)
  BY DEF Promises
<1>3. ASSUME NEW m \in Messages, NEW p \in Nodes, once'[m][p] # 0
      PROVE  id_of[m] # Invalid /\ \E a \in Knows(target', p) : a[1] = Source(m)
  <2>1. CASE once[m][p] # 0
    BY <1>1, <1>2, <2>1 DEF Sendings
  <2>2. CASE once[m][p] = 0
    <3>1. m = packet.msg /\ p = n
      BY <1>3, <2>2, TakingDelivers
    <3> QED BY <1>1, <3>1
  <2> QED BY <2>1, <2>2
<1> QED BY <1>1, <1>2, <1>3 DEF Sendings

LEMMA TakingHomes ==
  ASSUME Inv, Promises, NEW n, NEW q, NEW k, NEW packet, NEW s, NEW t, NEW u, NEW parts,
         Taking(n, q, k, packet, s, t, u, parts)
  PROVE  Homes(net', target', send_queue', port', id_of', once')
<1> SUFFICES ASSUME NEW m \in Messages
             PROVE  \E a \in Addresses : HomeOK(m, a, net', target', send_queue', port', id_of', once')
  BY DEF Homes
<1>1. PICK a \in Addresses : HomeOK(m, a, net, target, send_queue, port, id_of, once)
  BY DEF Promises, Homes
<1>2. PICK r \in Nodes : r = Source(m)
  BY InvFacts, Scenery DEF Source
<1>3. /\ a[1] = r
      /\ \A p \in Nodes : \A j \in 1 .. Len(net[r][p]) : Carries(net[r][p][j], m) => net[r][p][j].from = a
      /\ \A i \in Ids : send_queue[r][i] # Free /\ send_queue[r][i].msg = m => a = Current(r, port)
      /\ Exact => \A p \in Nodes : once[m][p] # 0 /\ scenario.reliable[m] =>
                    a \in Knows(target, p) /\ HasId(target[p][a], id_of[m])
  BY <1>1, <1>2 DEF HomeOK
<1>4. ASSUME NEW p \in Nodes, NEW j \in 1 .. Len(net'[r][p]), NEW x, x = net'[r][p][j], Carries(x, m)
      PROVE  x.from = a
  <2>1. CASE \E i \in 1 .. Len(net[r][p]) : x = net[r][p][i]
    BY <1>3, <1>4, <2>1
  <2>2. CASE r = n /\ p = q /\ \E i \in 1 .. Len(s) : x = s[i]
    <3>1. x.type \in {"ACK", "NACK"}
      BY <2>2, TakingStreams
    <3> QED BY <1>4, <3>1 DEF Carries, IsData
  <2> QED BY <1>4, <2>1, <2>2, TakingPackets
<1>5. /\ UNCHANGED <<scenario, port, id_of, send_queue>> /\ t = target[n][packet.from]
      /\ \A p \in Nodes : Knows(target', p) = Knows(target, p)
      /\ \A p \in Nodes, b \in Addresses : target'[p][b] = IF p = n /\ b = packet.from THEN u ELSE target[p][b]
  BY TakingTargets
<1>6. ASSUME Exact, NEW p \in Nodes, once'[m][p] # 0, scenario.reliable[m]
      PROVE  a \in Knows(target, p) /\ HasId(target'[p][a], id_of[m])
  <2>1. CASE once[m][p] # 0
    <3>1. a \in Knows(target, p) /\ HasId(target[p][a], id_of[m])
      BY <1>3, <1>6, <2>1
    <3>2. id_of[m] # Invalid
      BY <2>1 DEF Promises, Sendings
    <3>3. CASE p = n /\ a = packet.from
      <4>1. HasId(t, id_of[m])
        BY <1>5, <3>1, <3>3
      <4>2. HasId(u, id_of[m])
        BY <1>6, <3>2, <4>1, TakingRecalls
      <4> QED BY <1>5, <3>1, <3>3, <4>2
    <3>4. CASE ~(p = n /\ a = packet.from)
      BY <1>5, <3>1, <3>4
    <3> QED BY <3>3, <3>4
  <2>2. CASE once[m][p] = 0
    <3>1. m = packet.msg /\ p = n /\ Complete(parts, packet)
      BY <1>6, <2>2, TakingDelivers
    <3>2. /\ q = r /\ q \in Nodes /\ k \in 1 .. Len(net[q][n]) /\ packet = net[q][n][k] /\ Carries(packet, m)
          /\ id_of[m] = packet.id /\ packet.reliable /\ packet.from \in Knows(target, n)
      BY <1>2, <1>6, <3>1, TakingFacts
    <3>3. packet.from = a
      BY <1>3, <3>1, <3>2
    <3>4. HasId(u, packet.id)
      BY <1>6, <3>1, <3>2, TakingRecalls
    <3> QED BY <1>5, <3>1, <3>2, <3>3, <3>4
  <2> QED BY <2>1, <2>2
<1>7. HomeOK(m, a, net', target', send_queue', port', id_of', once')
  BY <1>2, <1>3, <1>4, <1>5, <1>6 DEF HomeOK, Source
<1> QED BY <1>7

\* What comes for the first time after this fragment is a later one of its message.
LEMMA TakingLater ==
  ASSUME Inv, Promises, NEW n, NEW q, NEW k, NEW packet, NEW s, NEW t, NEW u, NEW parts,
         Taking(n, q, k, packet, s, t, u, parts), Exact,
         NEW j \in 1 .. Len(net'[q][n]), First(net'[q][n][j], packet.msg)
  PROVE  /\ packet.no < net'[q][n][j].no /\ 0 < net'[q][n][j].no
         /\ net'[q][n][j].no \in Fragments(packet.msg) /\ packet.count # 1
         /\ Run(net'[q][n], 1, j, packet.msg)
<1>1. PICK m \in Messages : m = packet.msg
  BY TakingFacts
<1>2. /\ n \in Nodes /\ q \in Nodes /\ k \in 1 .. Len(net[q][n]) /\ packet = net[q][n][k] /\ Carries(packet, m)
      /\ Trails(net[q][n], net'[q][n], k) /\ packet.no \in Nat /\ k \in Nat
  BY <1>1, TakingFacts, TakingStreams
<1>3. Behind(j, k) \in 1 .. Len(net[q][n]) /\ \A l \in 1 .. j : net'[q][n][l] = net[q][n][Behind(l, k)]
  BY <1>1, <1>2 DEF Trails
<1>4. PICK y : y = net'[q][n][j]
  OBVIOUS
<1>5. y = net[q][n][Behind(j, k)] /\ First(y, m) /\ IsData(y) /\ y.msg = m
  BY <1>1, <1>3, <1>4 DEF First, IsData
<1>6. Ordered(net[q][n])
  BY <1>2 DEF Promises, Orderly
<1>7. \A l \in 1 .. j : Behind(l, k) \in 1 .. Len(net[q][n]) /\ Behind(l, k) <= Behind(j, k) /\ l \in Nat
  <2> SUFFICES ASSUME NEW l \in 1 .. j
               PROVE  Behind(l, k) \in 1 .. Len(net[q][n]) /\ Behind(l, k) <= Behind(j, k) /\ l \in Nat
    OBVIOUS
  <2>1. l \in Nat /\ j \in Nat /\ l <= j
    OBVIOUS
  <2>2. Behind(l, k) \in Nat /\ l <= Behind(l, k) /\ Behind(l, k) <= Behind(j, k)
    BY <1>2, <2>1, BehindOrder
  <2> QED BY <1>3, <2>1, <2>2
<1>8. y \in Packets /\ PacketOK(n, y, got, id_of) /\ y.socket = "data_fd"
  BY <1>2, <1>3, <1>5, InvFacts, OnDataSocket
<1>9. y.no \in Fragments(m) /\ y.no \in Nat
  BY <1>5, <1>8, PacketFields DEF PacketOK, DataOK
<1>10. k < Behind(j, k)
  BY <1>3, <1>5, <1>8, TakingFirst
<1>11. packet.no < y.no /\ Run(net[q][n], k, Behind(j, k), m)
  BY <1>2, <1>3, <1>5, <1>6, <1>10 DEF Ordered
<1>12. 0 < y.no
  BY <1>2, <1>9, <1>11
<1>13. packet.count # 1
  <2>1. Fragments(m) = 0 .. packet.count - 1
    BY <1>1, TakingFacts
  <2> QED BY <1>9, <1>12, <2>1
<1>14. Run(net'[q][n], 1, j, m)
  <2> SUFFICES ASSUME NEW l \in 1 .. j, net'[q][n][l].socket = "data_fd" PROVE First(net'[q][n][l], m)
    BY DEF Run
  <2>1. PICK b \in 1 .. Len(net[q][n]) : b = Behind(l, k) /\ b <= Behind(j, k) /\ net'[q][n][l] = net[q][n][b]
    BY <1>3, <1>7
  <2>2. k < b
    BY <1>7, <2>1, TakingFirst
  <2>3. b \in k .. Behind(j, k)
    BY <1>2, <1>3, <2>1, <2>2
  <2> QED BY <1>11, <2>1, <2>3 DEF Run
<1> QED BY <1>1, <1>4, <1>9, <1>11, <1>12, <1>13, <1>14

\* What is assembled still came before what comes, as the fragment was the first.
LEMMA TakingEarlier ==
  ASSUME Inv, Promises, NEW n, NEW q, NEW k, NEW packet, NEW s, NEW t, NEW u, NEW parts,
         Taking(n, q, k, packet, s, t, u, parts), Exact
  PROVE  Earlier(net'[q][n], u)
<1>1. /\ n \in Nodes /\ q \in Nodes /\ packet.from \in Knows(target, n) /\ packet.from[1] = q
      /\ t = target[n][packet.from] /\ TargetOK(n, packet.from, t, got, id_of)
      /\ Trails(net[q][n], net'[q][n], k) /\ k \in Nat
  BY TakingFacts, TakingTargets, TakingStreams
<1>2. Earlier(net[q][n], t)
  BY <1>1 DEF Promises, Orderly
<1>3. Len(net[q][n]) \in Nat /\ Len(net'[q][n]) \in Nat
  BY <1>1, InvFacts DEF Taking, Reads, Flow
<1>4. t.assemblers \in [Ids -> Assemblies]
  BY <1>1 DEF TargetOK
<1>5. Earlier(net'[q][n], t)
  BY <1>1, <1>2, <1>3, <1>4, TrailsKeep
<1>6. \A i \in Ids : \A p \in u.assemblers[i] :
        p \in t.assemblers[i] \/ (i = packet.id /\ p = <<packet.no, packet.msg>>)
  BY DEF Taking, Takes
<1> SUFFICES ASSUME NEW i \in Ids, NEW p \in u.assemblers[i], NEW j \in 1 .. Len(net'[q][n]),
                    First(net'[q][n][j], p[2])
             PROVE  p[1] < net'[q][n][j].no
  BY DEF Earlier
<1>7. CASE p \in t.assemblers[i]
  BY <1>5, <1>7 DEF Earlier
<1>8. CASE p = <<packet.no, packet.msg>>
  BY <1>8, TakingLater
<1> QED BY <1>6, <1>7, <1>8

\* The message that is completed joins those that are done.
LEMMA TakingRemembers ==
  ASSUME Inv, Promises, NEW n, NEW q, NEW k, NEW packet, NEW s, NEW t, NEW u, NEW parts,
         Taking(n, q, k, packet, s, t, u, parts), Exact
  PROVE  Remembers(net'[q][n], u, packet.from, id_of)
<1>1. /\ n \in Nodes /\ q \in Nodes /\ packet.from \in Knows(target, n) /\ packet.from[1] = q
      /\ t = target[n][packet.from] /\ TargetOK(n, packet.from, t, got, id_of)
      /\ Trails(net[q][n], net'[q][n], k) /\ scenario \in Scenarios
      /\ k \in 1 .. Len(net[q][n]) /\ k \in Nat /\ packet = net[q][n][k] /\ packet.socket = "data_fd"
      /\ packet.msg \in Messages
      /\ Source(packet.msg) = q /\ id_of[packet.msg] = packet.id /\ packet.id # Invalid /\ packet.id \in Ids
      /\ id_of \in [Messages -> Ids \cup {Invalid}]
  BY TakingFacts, TakingTargets, TakingStreams, TakingFirst, InvFacts
<1>2. Remembers(net[q][n], t, packet.from, id_of)
  BY <1>1 DEF Promises, Orderly
<1>3. PICK done \in SUBSET scenario.messages :
        Cardinality(done) = t.index /\ \A m \in done : DoneOK(m, net[q][n], t, packet.from, id_of)
  BY <1>2 DEF Remembers
<1>4. Len(net[q][n]) \in Nat /\ Len(net'[q][n]) \in Nat
  BY <1>1, InvFacts DEF Taking, Reads, Flow
<1>5. \A i \in Ids : \A p \in u.assemblers[i] :
        p \in t.assemblers[i] \/ (i = packet.id /\ p = <<packet.no, packet.msg>>)
  BY DEF Taking, Takes
<1>6. ASSUME NEW m \in done PROVE DoneOK(m, net'[q][n], u, packet.from, id_of)
  <2>1. m \in Messages
    BY <1>1, Scenery
  <2>2. DoneOK(m, net[q][n], t, packet.from, id_of) /\ DoneOK(m, net'[q][n], t, packet.from, id_of)
    BY <1>1, <1>3, <1>4, <2>1, TrailsKeep
  <2>3. Source(m) = q /\ id_of[m] # Invalid /\ HasId(u, id_of[m]) /\ id_of[m] \in Ids
    <3>1. Source(m) = q /\ id_of[m] # Invalid /\ HasId(t, id_of[m])
      BY <1>1, <2>2 DEF DoneOK
    <3>2. HasId(u, id_of[m])
      BY <3>1, TakingRecalls
    <3>3. id_of[m] \in Ids
      BY <1>1, <2>1, <3>1
    <3> QED BY <3>1, <3>2, <3>3, Zenon
  <2>4. ASSUME NEW j \in 1 .. Len(net'[q][n]), First(net'[q][n][j], m)
        PROVE  /\ 0 < net'[q][n][j].no /\ Run(net'[q][n], 1, j, m)
               /\ \A p \in u.assemblers[id_of[m]] : 0 < p[1]
    <3>1. /\ 0 < net'[q][n][j].no /\ Run(net'[q][n], 1, j, m)
          /\ \A p \in t.assemblers[id_of[m]] : 0 < p[1]
      BY <2>2, <2>4 DEF DoneOK
    <3>2. PICK b \in 1 .. Len(net[q][n]) : b = Behind(j, k) /\ net'[q][n][j] = net[q][n][b] /\ First(net[q][n][b], m)
      <4>1. /\ Behind(j, k) \in 1 .. Len(net[q][n]) /\ j \in 1 .. j
            /\ \A l \in 1 .. j : net'[q][n][l] = net[q][n][Behind(l, k)]
        <5>1. j \in 1 .. j
          BY <1>4, <2>4
        <5>2. Trails(net[q][n], net'[q][n], k)
          BY <1>1, Zenon
        <5> QED BY <2>1, <2>4, <5>1, <5>2, Zenon DEF Trails
      <4> QED BY <2>4, <4>1
    <3>3. First(net[q][n][k], m)
      <4>1. Run(net[q][n], 1, b, m)
        BY <2>2, <3>2 DEF DoneOK
      <4>2. net[q][n][b].socket = "data_fd"
        BY <1>1, <3>2, OnDataSocket DEF First, IsData
      <4>3. k < b
        BY <3>2, <4>2, TakingFirst
      <4>4. k \in 1 .. b
        <5>1. k \in 1 .. Len(net[q][n]) /\ k \in Nat
          BY <1>1, Zenon
        <5> QED BY <1>4, <3>2, <4>3, <5>1
      <4> QED BY <1>1, <4>1, <4>4 DEF Run
    <3>4. 0 < packet.no
      BY <1>1, <2>2, <3>3 DEF DoneOK
    <3>5. \A p \in u.assemblers[id_of[m]] : 0 < p[1]
      BY <1>5, <2>3, <3>1, <3>4
    <3> QED BY <3>1, <3>5
  <2> QED BY <1>1, <2>3, <2>4 DEF DoneOK
<1>7. CASE ~(Complete(parts, packet) /\ packet.reliable)
  <2>1. Cardinality(done) = u.index
    BY <1>3, <1>7, TakingRecalls
  <2> QED BY <1>6, <2>1 DEF Remembers
<1>8. CASE Complete(parts, packet) /\ packet.reliable
  <2>1. HasId(u, packet.id) /\ u.index = t.index + 1
    BY <1>8, TakingRecalls
  <2>2. packet.msg \in scenario.messages \ done
    <3>1. packet.msg \notin done
      BY <1>3, <1>8, TakingNew
    <3> QED BY <1>1, <3>1 DEF Promises, Sendings
  <2>3. DoneOK(packet.msg, net'[q][n], u, packet.from, id_of)
    <3>1. ASSUME NEW j \in 1 .. Len(net'[q][n]), First(net'[q][n][j], packet.msg)
          PROVE  /\ 0 < net'[q][n][j].no /\ Run(net'[q][n], 1, j, packet.msg)
                 /\ \A p \in u.assemblers[packet.id] : 0 < p[1]
      <4>1. /\ 0 < net'[q][n][j].no /\ Run(net'[q][n], 1, j, packet.msg)
            /\ packet.count # 1
        BY <3>1, TakingLater
      <4>2. u.assemblers[packet.id] = {}
        BY <1>8, <4>1 DEF Taking, Takes
      <4> QED BY <4>1, <4>2
    <3> QED BY <1>1, <2>1, <3>1 DEF DoneOK
  <2>4. IsFiniteSet(done)
    BY <1>3, FS_Subset DEF Exact
  <2>5. Cardinality(done \cup {packet.msg}) = u.index
    BY <1>3, <2>1, <2>2, <2>4, FS_AddElement
  <2>6. done \cup {packet.msg} \in SUBSET scenario.messages
    BY <2>2
  <2>7. \A m \in done \cup {packet.msg} : DoneOK(m, net'[q][n], u, packet.from, id_of)
    BY <1>6, <2>3
  <2> QED BY <2>5, <2>6, <2>7 DEF Remembers
<1> QED BY <1>7, <1>8

\* A message that is delivered does not come for the first time again.
LEMMA TakingNotFirst ==
  ASSUME Inv, Promises, NEW n, NEW q, NEW k, NEW packet, NEW s, NEW t, NEW u, NEW parts,
         Taking(n, q, k, packet, s, t, u, parts), Exact
  PROVE  NotFirst(net', once')
<1> SUFFICES ASSUME NEW m \in Messages, NEW p \in Nodes, once'[m][p] # 0, NEW r \in Nodes, r = Source(m),
                    NEW j \in 1 .. Len(net'[r][p]), First(net'[r][p][j], m)
             PROVE  FALSE
  <2>1. scenario \in Scenarios /\ UNCHANGED scenario
    BY TakingFacts, TakingTargets
  <2>2. \A m \in Messages : Source(m) \in Nodes
    BY <2>1, Scenery DEF Source
  <2> QED BY <2>1, <2>2 DEF NotFirst, Source
<1>1. CASE once[m][p] # 0
  <2>1. PICK e \in Nat : Trails(net[r][p], net'[r][p], e)
    BY TakingStreams
  <2>2. Behind(j, e) \in 1 .. Len(net[r][p]) /\ j \in 1 .. j /\ net'[r][p][j] = net[r][p][Behind(j, e)]
    BY <2>1 DEF Trails
  <2> QED BY <1>1, <2>2 DEF Promises, Orderly, NotFirst
<1>2. CASE once[m][p] = 0
  <2>1. m = packet.msg /\ p = n /\ parts = AllOf(m)
    BY <1>2, TakingDelivers
  <2>2. r = q
    BY <2>1, TakingFacts
  <2>3. PICK f : f = net'[q][n][j].no
    OBVIOUS
  <2>4. packet.no < f /\ f \in Fragments(m)
    BY <2>1, <2>2, <2>3, TakingLater
  <2>5. <<f, m>> \in parts
    BY <2>1, <2>4 DEF AllOf
  <2>6. /\ packet.id \in Ids /\ packet.no \in Nat /\ f \in Nat /\ packet.from \in Knows(target, n) /\ packet.from[1] = q
        /\ n \in Nodes /\ t = target[n][packet.from] /\ TargetOK(n, packet.from, t, got, id_of)
        /\ Trails(net[q][n], net'[q][n], k) /\ q \in Nodes
    <3>1. f \in Nat
      BY <2>1, <2>4, TakingFacts
    <3>2. t = target[n][packet.from] /\ TargetOK(n, packet.from, t, got, id_of)
      BY TakingTargets
    <3>3. Trails(net[q][n], net'[q][n], k)
      BY TakingStreams
    <3> QED BY <3>1, <3>2, <3>3, TakingFacts
  <2>7. <<f, m>> \in t.assemblers[packet.id]
    <3>1. parts \subseteq t.assemblers[packet.id] \cup {<<packet.no, packet.msg>>}
      BY DEF Taking, Takes
    <3>2. <<f, m>> # <<packet.no, packet.msg>>
      BY <2>4, <2>6
    <3> QED BY <2>5, <3>1, <3>2
  <2>8. Earlier(net[q][n], t)
    BY <2>6 DEF Promises, Orderly
  <2>9. Behind(j, k) \in 1 .. Len(net[q][n]) /\ net[q][n][Behind(j, k)] = net'[q][n][j]
    BY <2>1, <2>2, <2>6 DEF Trails
  <2>10. f < net[q][n][Behind(j, k)].no
    <3>1. First(net[q][n][Behind(j, k)], <<f, m>>[2])
      BY <2>1, <2>2, <2>9
    <3> QED BY <2>6, <2>7, <2>8, <2>9, <3>1 DEF Earlier
  <2> QED BY <2>3, <2>6, <2>9, <2>10
<1> QED BY <1>1, <1>2

LEMMA TakingOrderly ==
  ASSUME Inv, Promises, NEW n, NEW q, NEW k, NEW packet, NEW s, NEW t, NEW u, NEW parts,
         Taking(n, q, k, packet, s, t, u, parts)
  PROVE  Orderly(net', target', id_of', once')
<1>1. /\ UNCHANGED <<scenario, id_of>> /\ n \in Nodes /\ q \in Nodes /\ scenario \in Scenarios
      /\ packet.from \in Addresses /\ packet.from[1] = q
      /\ \A p \in Nodes : Knows(target', p) = Knows(target, p)
      /\ \A p \in Nodes, a \in Addresses : target'[p][a] = IF p = n /\ a = packet.from THEN u ELSE target[p][a]
  BY TakingFacts, TakingTargets
<1> SUFFICES ASSUME Exact
             PROVE  /\ \A r, p \in Nodes : Ordered(net'[r][p])
                    /\ \A p \in Nodes : \A a \in Knows(target, p) :
                         /\ Earlier(net'[a[1]][p], target'[p][a])
                         /\ Remembers(net'[a[1]][p], target'[p][a], a, id_of)
                    /\ NotFirst(net', once')
  BY <1>1 DEF Orderly, Exact
<1>2. /\ \A r, p \in Nodes : Ordered(net[r][p])
      /\ \A p \in Nodes : \A a \in Knows(target, p) :
           Earlier(net[a[1]][p], target[p][a]) /\ Remembers(net[a[1]][p], target[p][a], a, id_of)
  BY DEF Promises, Orderly
<1>3. \A r, p \in Nodes : \E e \in Nat : Trails(net[r][p], net'[r][p], e)
  BY TakingStreams
<1>4. \A r, p \in Nodes : Len(net[r][p]) \in Nat /\ Len(net'[r][p]) \in Nat
  BY InvFacts DEF Taking, Reads, Flow
<1>5. \A r, p \in Nodes : Ordered(net'[r][p])
  BY <1>2, <1>3, <1>4, TrailsKeep
<1>6. ASSUME NEW p \in Nodes, NEW a \in Knows(target, p)
      PROVE  /\ Earlier(net'[a[1]][p], target'[p][a])
             /\ Remembers(net'[a[1]][p], target'[p][a], a, id_of)
  <2>1. CASE p = n /\ a = packet.from
    BY <1>1, <2>1, TakingEarlier, TakingRemembers
  <2>2. CASE ~(p = n /\ a = packet.from)
    <3>1. PICK r \in Nodes : r = a[1]
      BY DEF Knows, Addresses
    <3>2. PICK v : v = target[p][a]
      OBVIOUS
    <3>3. target'[p][a] = v
      BY <1>1, <2>2, <3>2 DEF Knows
    <3>4. v.assemblers \in [Ids -> Assemblies]
      BY <3>2, InvFacts DEF TargetOK
    <3>5. Earlier(net[r][p], v) /\ Remembers(net[r][p], v, a, id_of)
      BY <1>2, <3>1, <3>2
    <3>6. PICK e \in Nat : Trails(net[r][p], net'[r][p], e)
      BY <1>3
    <3>7. /\ Earlier(net'[r][p], v)
          /\ \A m \in Messages : DoneOK(m, net[r][p], v, a, id_of) => DoneOK(m, net'[r][p], v, a, id_of)
      BY <1>4, <3>4, <3>5, <3>6, TrailsKeep
    <3>8. scenario.messages \subseteq Messages
      BY <1>1, Scenery
    <3>9. Remembers(net'[r][p], v, a, id_of)
      BY <3>5, <3>7, <3>8 DEF Remembers
    <3> QED BY <3>1, <3>3, <3>7, <3>9
  <2> QED BY <2>1, <2>2
<1> QED BY <1>5, <1>6, TakingNotFirst

\* Where ids are fresh, the message of an id and its sender is this one.
LEMMA TakingFresh ==
  ASSUME Inv, Promises, NEW n, NEW q, NEW k, NEW packet, NEW s, NEW t, NEW u, NEW parts,
         Taking(n, q, k, packet, s, t, u, parts), Kept
  PROVE  /\ IsFresh(id_of) /\ Assembles(t, u, packet, parts)
         /\ \A m \in Messages : Source(m) = q /\ id_of[m] = packet.id => m = packet.msg
<1>1. IsFresh(id_of)
  BY DEF Promises, Safe
<1>2. Assembles(t, u, packet, parts)
  BY <1>1 DEF Taking, Takes
<1>3. packet.msg \in Messages /\ Source(packet.msg) = q /\ id_of[packet.msg] = packet.id /\ packet.id # Invalid
  BY TakingFacts
<1> QED BY <1>1, <1>2, <1>3 DEF IsFresh, Source

\* An id becomes recent in the step that delivers its message.
LEMMA TakingRemembered ==
  ASSUME Inv, Promises, NEW n, NEW q, NEW k, NEW packet, NEW s, NEW t, NEW u, NEW parts,
         Taking(n, q, k, packet, s, t, u, parts), Kept
  PROVE  Remembered(target', delivered', id_of)
<1>1. /\ n \in Nodes /\ packet.from[1] = q /\ packet.from \in Knows(target, n) /\ scenario \in Scenarios
      /\ \A p \in Nodes : Knows(target', p) = Knows(target, p) /\ Knows(target, p) \subseteq Addresses
      /\ \A p \in Nodes, a \in Addresses : target'[p][a] = IF p = n /\ a = packet.from THEN u ELSE target[p][a]
      /\ t = target[n][packet.from] /\ TargetOK(n, packet.from, t, got, id_of)
      /\ UNCHANGED scenario
  BY TakingFacts, TakingTargets DEF Knows
<1>2. Remembered(target, delivered, id_of)
  BY DEF Promises, Safe
<1>3. \A o \in Messages, p \in Nodes : delivered[o][p] > 0 => delivered'[o][p] > 0
  BY TakingDelivers
<1> SUFFICES ASSUME NEW p \in Nodes, NEW a \in Knows(target, p), NEW m \in Messages,
                    Source(m) = a[1], id_of[m] # Invalid,
                    NEW j \in 0 .. scenario.ring - 1, target'[p][a].recent[j] = id_of[m]
             PROVE  delivered'[m][p] > 0
  BY <1>1 DEF Remembered, Source
<1>4. CASE target[p][a].recent[j] = id_of[m]
  BY <1>2, <1>3, <1>4 DEF Remembered
<1>5. CASE target[p][a].recent[j] # id_of[m]
  <2>1. p = n /\ a = packet.from
    BY <1>1, <1>5
  <2>2. u.recent[j] = id_of[m] /\ t.recent[j] # id_of[m]
    BY <1>1, <1>5, <2>1
  <2>3. /\ Complete(parts, packet) /\ u.recent = [t.recent EXCEPT ![t.index] = packet.id]
    BY <2>2 DEF Taking, Takes, Recalls, Recalled
  <2>4. DOMAIN t.recent = 0 .. scenario.ring - 1
    BY <1>1 DEF TargetOK
  <2>5. id_of[m] = packet.id
    BY <2>2, <2>3, <2>4
  <2>6. m = packet.msg
    BY <1>1, <2>1, <2>5, TakingFresh
  <2>7. parts = AllOf(packet.msg)
    BY <2>3, TakingFresh DEF Assembles
  <2> QED BY <2>1, <2>3, <2>6, <2>7, TakingDelivers
<1> QED BY <1>4, <1>5

\* What is acknowledged now is what is assembled.
LEMMA TakingBound ==
  ASSUME Inv, Promises, NEW n, NEW q, NEW k, NEW packet, NEW s, NEW t, NEW u, NEW parts,
         Taking(n, q, k, packet, s, t, u, parts), Kept, ~Complete(parts, packet),
         send_queue[q][packet.id] # Free, send_queue[q][packet.id].msg = packet.msg,
         NEW acked, NEW H, Bound(q, packet.id, packet.msg, Current(n, port), H, acked, net, target, port)
  PROVE  Bound(q, packet.id, packet.msg, Current(n, port), Numbers(parts), acked, net', target', port)
<1>1. PICK m \in Messages : m = packet.msg
  BY TakingFacts
<1>2. PICK a : a = Current(n, port)
  OBVIOUS
<1>3. /\ n \in Nodes /\ q \in Nodes /\ packet.id \in Ids /\ Source(m) = q /\ id_of[m] = packet.id
      /\ k \in 1 .. Len(net[q][n]) /\ packet = net[q][n][k] /\ Carries(packet, m)
      /\ packet.from \in Knows(target, n) /\ packet.from \in Addresses
      /\ t = target[n][packet.from]
      /\ \A p \in Nodes : Knows(target', p) = Knows(target, p)
      /\ \A p \in Nodes, b \in Addresses : target'[p][b] = IF p = n /\ b = packet.from THEN u ELSE target[p][b]
      /\ UNCHANGED scenario
  BY <1>1, TakingFacts, TakingTargets
<1>4. packet.from = Current(q, port)
  <2>1. PICK h \in Addresses : HomeOK(m, h, net, target, send_queue, port, id_of, once)
    BY DEF Promises, Homes
  <2>2. \A j \in 1 .. Len(net[q][n]) : Carries(net[q][n][j], m) => net[q][n][j].from = h
    BY <1>3, <2>1 DEF HomeOK
  <2>3. packet.from = h
    BY <1>3, <2>2
  <2>4. h = Current(q, port)
    BY <1>1, <1>3, <2>1 DEF HomeOK
  <2> QED BY <2>3, <2>4
<1>5. a[1] = n
  BY <1>2 DEF Current
<1>6. /\ H \subseteq Fragments(m) /\ acked \cap Fragments(m) \subseteq H
      /\ \A j \in 1 .. Len(net[n][q]) :
           LET x == net[n][q][j] IN x.type = "ACK" /\ x.id = packet.id /\ x.from = a => x.bits \subseteq H
      /\ \A f \in H : <<f, m>> \in t.assemblers[packet.id]
  <2>1. Bound(q, packet.id, m, a, H, acked, net, target, port)
    BY <1>1, <1>2
  <2>2. /\ H \subseteq Fragments(m) /\ acked \cap Fragments(m) \subseteq H
        /\ \A j \in 1 .. Len(net[n][q]) :
             LET x == net[n][q][j] IN x.type = "ACK" /\ x.id = packet.id /\ x.from = a => x.bits \subseteq H
        /\ \A f \in H : <<f, m>> \in target[n][Current(q, port)].assemblers[packet.id]
    BY <1>2, <1>5, <2>1 DEF Bound
  <2> QED BY <1>3, <1>4, <2>2
<1>7. /\ u.assemblers[packet.id] = parts
      /\ Numbers(parts) \subseteq Fragments(m) /\ Numbers(parts) # Fragments(m)
      /\ \A p \in parts : p = <<p[1], m>>
      /\ \A p \in t.assemblers[packet.id] : p[1] \in Numbers(parts)
  BY <1>1, TakingFresh DEF Assembles
<1>8. H \subseteq Numbers(parts)
  <2> SUFFICES ASSUME NEW f \in H PROVE f \in Numbers(parts)
    OBVIOUS
  <2>1. PICK p \in t.assemblers[packet.id] : p = <<f, m>>
    BY <1>6
  <2>2. p[1] = f
    BY <2>1
  <2> QED BY <1>7, <2>2
<1>9. acked \cap Fragments(m) \subseteq Numbers(parts)
  BY <1>6, <1>8
<1>10. ASSUME NEW j \in 1 .. Len(net'[n][q]), NEW x, x = net'[n][q][j],
              x.type = "ACK", x.id = packet.id, x.from = a
       PROVE  x.bits \subseteq Numbers(parts)
  <2>1. CASE \E i \in 1 .. Len(net[n][q]) : x = net[n][q][i]
    <3>1. x.bits \subseteq H
      BY <1>6, <1>10, <2>1
    <3> QED BY <1>8, <3>1
  <2>2. CASE \E i \in 1 .. Len(s) : x = s[i]
    <3>1. x.bits = Numbers(parts)
      BY <1>10, <2>2, TakingStreams
    <3> QED BY <3>1
  <2>3. \/ \E i \in 1 .. Len(net[n][q]) : x = net[n][q][i]
        \/ \E i \in 1 .. Len(s) : x = s[i]
    <3>1. n \in Nodes /\ q \in Nodes
      BY <1>3
    <3> QED BY <1>10, <3>1, TakingPackets
  <2> QED BY <2>1, <2>2, <2>3
<1>11. ASSUME NEW f \in Numbers(parts)
       PROVE  /\ Current(q, port) \in Knows(target', n)
              /\ <<f, m>> \in target'[n][Current(q, port)].assemblers[packet.id]
  <2>1. PICK p \in parts : p[1] = f
    BY DEF Numbers
  <2>2. <<f, m>> \in parts
    BY <1>7, <2>1
  <2>3. target'[n][packet.from] = u
    BY <1>3
  <2> QED BY <1>3, <1>4, <1>7, <2>2, <2>3
<1>12. Bound(q, packet.id, m, a, Numbers(parts), acked, net', target', port)
  BY <1>2, <1>3, <1>5, <1>7, <1>9, <1>10, <1>11 DEF Bound, Fragments
<1> QED BY <1>1, <1>2, <1>12

\* What is acknowledged of other messages, and to other addresses, stays so.
LEMMA TakingOthers ==
  ASSUME Inv, Promises, NEW n, NEW q, NEW k, NEW packet, NEW s, NEW t, NEW u, NEW parts,
         Taking(n, q, k, packet, s, t, u, parts), Kept,
         NEW r \in Nodes, NEW i \in Ids, NEW m \in Messages, NEW a \in Addresses, NEW acked, NEW H,
         Bound(r, i, m, a, H, acked, net, target, port), ~(r = q /\ i = packet.id /\ a = Current(n, port))
  PROVE  Bound(r, i, m, a, H, acked, net', target', port)
<1>1. /\ n \in Nodes /\ q \in Nodes /\ packet.id \in Ids /\ packet.from[1] = q
      /\ t = target[n][packet.from] /\ port \in [Nodes -> Ports]
      /\ \A p \in Nodes : Knows(target', p) = Knows(target, p)
      /\ \A p \in Nodes, b \in Addresses : target'[p][b] = IF p = n /\ b = packet.from THEN u ELSE target[p][b]
      /\ UNCHANGED scenario
  BY TakingFacts, TakingTargets, InvFacts
<1>2. PICK p \in Nodes : p = a[1]
  BY DEF Addresses
<1>3. /\ H \subseteq Fragments(m) /\ H # Fragments(m) /\ acked \cap Fragments(m) \subseteq H
      /\ \A j \in 1 .. Len(net[p][r]) :
           LET x == net[p][r][j] IN x.type = "ACK" /\ x.id = i /\ x.from = a => x.bits \subseteq H
      /\ a = Current(p, port) => \A f \in H :
           /\ Current(r, port) \in Knows(target, p)
           /\ <<f, m>> \in target[p][Current(r, port)].assemblers[i]
  BY <1>2 DEF Bound
<1>4. ASSUME NEW j \in 1 .. Len(net'[p][r]), NEW x, x = net'[p][r][j],
             x.type = "ACK", x.id = i, x.from = a
      PROVE  x.bits \subseteq H
  <2>1. CASE \E l \in 1 .. Len(net[p][r]) : x = net[p][r][l]
    BY <1>3, <1>4, <2>1
  <2>2. CASE p = n /\ r = q /\ \E l \in 1 .. Len(s) : x = s[l]
    <3>1. x.id = packet.id /\ x.from = Current(n, port)
      BY <1>4, <2>2, TakingStreams
    <3> QED BY <1>4, <2>2, <3>1
  <2> QED BY <1>4, <2>1, <2>2, TakingPackets
<1>5. ASSUME a = Current(p, port), NEW f \in H
      PROVE  /\ Current(r, port) \in Knows(target', p)
             /\ <<f, m>> \in target'[p][Current(r, port)].assemblers[i]
  <2>1. PICK b : b = Current(r, port)
    OBVIOUS
  <2>2. b \in Knows(target, p) /\ <<f, m>> \in target[p][b].assemblers[i] /\ b \in Addresses /\ b[1] = r
    BY <1>3, <1>5, <2>1 DEF Knows, Current
  <2>3. CASE p = n /\ b = packet.from
    <3>1. r = q /\ i # packet.id
      BY <1>1, <1>5, <2>2, <2>3
    <3>2. u.assemblers[i] = t.assemblers[i]
      BY <3>1, TakingFresh DEF Assembles
    <3> QED BY <1>1, <2>1, <2>2, <2>3, <3>2
  <2>4. CASE ~(p = n /\ b = packet.from)
    BY <1>1, <2>1, <2>2, <2>4
  <2> QED BY <2>3, <2>4
<1> QED BY <1>1, <1>2, <1>3, <1>4, <1>5 DEF Bound, Fragments

LEMMA TakingSafe ==
  ASSUME Inv, Promises, NEW n, NEW q, NEW k, NEW packet, NEW s, NEW t, NEW u, NEW parts,
         Taking(n, q, k, packet, s, t, u, parts)
  PROVE  Safe(net', target', send_queue', port', delivered', id_of')
<1>1. /\ UNCHANGED <<scenario, port, id_of, send_queue>> /\ n \in Nodes /\ q \in Nodes /\ packet.id \in Ids
      /\ packet.msg \in Messages
  BY TakingFacts, TakingTargets
<1> SUFFICES ASSUME Kept
             PROVE  /\ IsFresh(id_of) /\ Remembered(target', delivered', id_of)
                    /\ Bounded(net', target', send_queue, port, delivered')
  BY <1>1 DEF Safe, Kept, IsFresh
<1>2. ASSUME NEW r \in Nodes, NEW i \in Ids, send_queue[r][i] # Free, NEW a \in DOMAIN send_queue[r][i].acked,
             send_queue[r][i].acked[a] # Expired, NEW m, m = send_queue[r][i].msg
      PROVE  \/ delivered'[m][a[1]] > 0
             \/ \E H : Bound(r, i, m, a, H, send_queue[r][i].acked[a], net', target', port)
  <2>1. m \in Messages /\ a \in Addresses /\ SentAs(m, r, i, id_of)
    <3>1. QueueOK(r, i, send_queue[r][i], Knows(target, r), got, id_of)
      BY InvFacts
    <3> QED BY <1>2, <3>1 DEF QueueOK
  <2>2. PICK p \in Nodes : p = a[1]
    BY <2>1 DEF Addresses
  <2>3. CASE delivered[m][p] > 0
    BY <2>1, <2>2, <2>3, TakingDelivers
  <2>4. CASE ~(delivered[m][p] > 0)
    <3>1. PICK H : Bound(r, i, m, a, H, send_queue[r][i].acked[a], net, target, port)
      BY <1>2, <2>2, <2>4 DEF Promises, Safe, Bounded
    <3>2. CASE r = q /\ i = packet.id /\ a = Current(n, port)
      <4>1. m = packet.msg
        BY <2>1, <3>2, TakingFresh DEF SentAs, Source
      <4>2. p = n
        BY <2>2, <3>2 DEF Current
      <4>3. CASE Complete(parts, packet)
        <5>1. parts = AllOf(packet.msg)
          BY <4>3, TakingFresh DEF Assembles
        <5> QED BY <2>2, <4>1, <4>2, <4>3, <5>1, TakingDelivers
      <4>4. CASE ~Complete(parts, packet)
        <5>1. Bound(r, i, m, a, Numbers(parts), send_queue[r][i].acked[a], net', target', port)
          BY <1>2, <3>1, <3>2, <4>1, <4>4, TakingBound
        <5> QED BY <5>1
      <4> QED BY <4>3, <4>4
    <3>3. CASE ~(r = q /\ i = packet.id /\ a = Current(n, port))
      <4>1. Bound(r, i, m, a, H, send_queue[r][i].acked[a], net', target', port)
        BY <2>1, <3>1, <3>3, TakingOthers
      <4> QED BY <4>1
    <3> QED BY <3>2, <3>3
  <2> QED BY <2>3, <2>4
<1>3. Bounded(net', target', send_queue, port, delivered')
  BY <1>2 DEF Bounded
<1> QED BY <1>3, TakingFresh, TakingRemembered

LEMMA TakingKeeps ==
  ASSUME Inv, Promises, NEW n, NEW q, NEW k, NEW packet, NEW s, NEW t, NEW u, NEW parts,
         Taking(n, q, k, packet, s, t, u, parts)
  PROVE  Promised
<1>1. Numbered(unsent, id_of, packet_id_source)
  BY DEF Promises
<1>2. UNCHANGED <<scenario, packet_id_source, unsent, id_of>>
  BY TakingTargets
<1>3. Numbered(unsent', id_of', packet_id_source')
  <2>1. \A x : SentBy(x, unsent') = SentBy(x, unsent)
    BY <1>2 DEF SentBy, Source
  <2> QED BY <1>1, <1>2, <2>1 DEF Numbered, Kept
<1>4. Sources(net', target', port') /\ Sendings(unsent', id_of', target', once')
  BY TakingSources, TakingSendings
<1>5. Homes(net', target', send_queue', port', id_of', once') /\ Orderly(net', target', id_of', once')
  BY TakingHomes, TakingOrderly
<1>6. Safe(net', target', send_queue', port', delivered', id_of')
  BY TakingSafe
<1> QED BY <1>3, <1>4, <1>5, <1>6 DEF Promised

-----------------------------------------------------------------------------
(* A message that is sent for the first time keeps the promises.           *)

\* Its fragments go out in the order of their numbers.
FirstOf(n, m, id) == Cut(n, "DATA", [i \in {id} |-> m], {id} \X Fragments(m))
LEMMA CutInOrder ==
  ASSUME Types, NEW n, NEW m \in Messages, NEW id \in Ids, NEW s, s = FirstOf(n, m, id)
  PROVE  \A k \in 1 .. Len(s) : s[k] = Data(n, "DATA", m, id, k - 1)
<1>1. PICK c \in Nat \ {0} : c = scenario.count[m]
  BY Scenery DEF Types
<1>2. PICK F : F = 0 .. c - 1
  OBVIOUS
<1>3. PICK S : S = {id} \X F
  OBVIOUS
<1>4. Fragments(m) = F /\ F \subseteq Nat /\ IsFiniteSet(F) /\ id \in Nat
  <2>1. id \in Nat
    BY Scenery DEF Types
  <2>2. IsFiniteSet(0 .. c - 1)
    BY <1>1, Counted
  <2>3. F \subseteq Nat /\ IsFiniteSet(F)
    BY <1>1, <1>2, <2>2
  <2> QED BY <1>1, <1>2, <2>1, <2>3 DEF Fragments
<1>5. IsFiniteSet({id})
  BY FS_Singleton
<1>6. IsFiniteSet(S) /\ S \subseteq Nat \X Nat
  BY <1>3, <1>4, <1>5, FS_Product
<1>7. Cardinality(S) \in Nat
  BY <1>6, FS_CardinalityType
<1>8. s = [k \in 1 .. Cardinality(S) |->
             Data(n, "DATA", [i \in {id} |-> m][Nth(S, k)[1]], Nth(S, k)[1], Nth(S, k)[2])]
  BY <1>3, <1>4 DEF Cut, FirstOf
<1>9. Len(s) = Cardinality(S)
  BY <1>7, <1>8
<1>10. ASSUME NEW k \in 1 .. Cardinality(S) PROVE Nth(S, k) = <<id, k - 1>>
  <2>1. Nth(S, k) \in S /\ Cardinality({e \in S : Before(e, Nth(S, k))}) = k - 1
    BY <1>6, NthIn
  <2>2. PICK f \in F : Nth(S, k) = <<id, f>>
    BY <1>3, <2>1
  <2>3. PICK B : B = {e \in S : Before(e, <<id, f>>)}
    OBVIOUS
  <2>4. Cardinality(B) = k - 1
    BY <2>1, <2>2, <2>3
  <2>5. f \in Nat /\ f < c
    BY <1>1, <1>2
  <2>6. B = {id} \X (0 .. f - 1)
    <3>1. ASSUME NEW e \in B PROVE e \in {id} \X (0 .. f - 1)
      <4>1. e \in S /\ Before(e, <<id, f>>)
        BY <2>3
      <4>2. PICK g \in F : e = <<id, g>>
        BY <1>3, <4>1
      <4>3. g < f /\ g \in Nat
        BY <1>2, <1>4, <4>1, <4>2 DEF Before
      <4> QED BY <2>5, <4>2, <4>3
    <3>2. ASSUME NEW g \in 0 .. f - 1 PROVE <<id, g>> \in B
      <4>1. g \in F /\ g < f
        BY <1>1, <1>2, <2>5
      <4>2. <<id, g>> \in S /\ Before(<<id, g>>, <<id, f>>)
        BY <1>3, <4>1 DEF Before
      <4> QED BY <2>3, <4>2
    <3>3. {id} \X (0 .. f - 1) \subseteq B
      BY <3>2
    <3> QED BY <3>1, <3>3
  <2>7. IsFiniteSet(0 .. f - 1) /\ Cardinality(0 .. f - 1) = f
    BY <2>5, Counted
  <2>8. Cardinality({id}) = 1
    BY FS_Singleton
  <2>9. Cardinality({id} \X (0 .. f - 1)) = Cardinality({id}) * Cardinality(0 .. f - 1)
    BY <1>5, <2>7, FS_Product, Zenon
  <2>10. f = k - 1
    <3>1. Cardinality(B) = 1 * f
      BY <2>6, <2>7, <2>8, <2>9, Zenon
    <3> QED BY <2>4, <2>5, <3>1
  <2> QED BY <2>2, <2>10
<1>11. ASSUME NEW k \in 1 .. Len(s) PROVE s[k] = Data(n, "DATA", m, id, k - 1)
  <2>1. Nth(S, k)[1] = id /\ Nth(S, k)[2] = k - 1 /\ [i \in {id} |-> m][id] = m
    BY <1>9, <1>10
  <2> QED BY <1>8, <1>9, <2>1
<1> QED BY <1>11

\* Node n has sent message m under this id: to some nodes these packets, in order, after
\* what it had sent them before.
Sent(n, m, id, s) ==
  /\ n \in Nodes /\ m \in Messages /\ n = Source(m) /\ id \in Ids /\ m \in unsent
  /\ \A j \in 1 .. Len(s) :
       /\ s[j].type = "DATA" /\ s[j].msg = m /\ s[j].from = Current(n, port) /\ s[j].no = j - 1
       /\ s[j].socket = DataSocket("DATA", m) /\ ~s[j].held
  /\ \A r, p \in Nodes : \A j \in 1 .. Len(net'[r][p]) :
       \/ j \in 1 .. Len(net[r][p]) /\ net'[r][p][j] = net[r][p][j]
       \/ /\ r = n /\ p # n /\ j > Len(net[r][p]) /\ j - Len(net[r][p]) \in 1 .. Len(s)
          /\ net'[r][p][j] = s[j - Len(net[r][p])]
  /\ \A r \in Nodes, i \in Ids :
       \/ send_queue'[r][i] = send_queue[r][i]
       \/ /\ r = n /\ i = id /\ scenario.reliable[m]
          /\ send_queue'[r][i] = [msg |-> m, acked |-> [a \in Interested(n, m) |-> {}]]
  /\ id_of' = [id_of EXCEPT ![m] = id] /\ unsent' = unsent \ {m}
  /\ packet_id_source' = [packet_id_source EXCEPT ![n] = id]
  /\ UNCHANGED <<scenario, port, target, got, delivered, once>>
  /\ send_queue' = Enqueue(n, m, id) /\ send_queue[n][id] = Free
  /\ \E k \in 1 .. scenario.ids :
       /\ id = (packet_id_source[n] + k) % scenario.ids
       /\ \A j \in 1 .. k - 1 : send_queue[n][(packet_id_source[n] + j) % scenario.ids] # Free

\* send puts a message under the next free id on its links and in the queue.
LEMMA SendSent ==
  ASSUME Inv, Promises, NEW m \in Messages, Send(m)
  PROVE  \E n, id, s : Sent(n, m, id, s)
<1>1. /\ Types /\ scenario \in Scenarios
      /\ send_queue = [n \in Nodes |-> [i \in Ids |-> send_queue[n][i]]]
  BY DEF Inv, Types, Tables
<1>2. PICK n \in Nodes : n = Source(m)
  BY <1>1, Scenery DEF Source
<1>3. PICK id : id = NextId(n)
  OBVIOUS
<1>4. /\ id \in Ids /\ send_queue[n][id] = Free
      /\ \E k \in 1 .. scenario.ids :
           /\ id = (packet_id_source[n] + k) % scenario.ids
           /\ \A j \in 1 .. k - 1 : send_queue[n][(packet_id_source[n] + j) % scenario.ids] # Free
  <2>1. PICK i \in Ids : send_queue[n][i] = Free
    BY <1>2 DEF Send, Source
  <2> QED BY <1>1, <1>3, <2>1, NextIdIn
<1>5. /\ m \in unsent /\ unsent' = unsent \ {m}
      /\ packet_id_source' = [packet_id_source EXCEPT ![n] = id]
      /\ send_queue' = Enqueue(n, m, id) /\ id_of' = [id_of EXCEPT ![m] = id]
      /\ UNCHANGED <<scenario, port, target, got, delivered, once>>
  BY <1>2, <1>3 DEF Send, history, Source
<1>6. PICK s : s = FirstOf(n, m, id)
  OBVIOUS
<1>7. PICK sent : /\ Transmit(n, sent)
                  /\ \A p \in Nodes : sent[p] \in {s, <<>>} /\ (p = n => sent[p] = <<>>)
  <2>1. CASE scenario.dest[m] = Everyone
    <3>1. Transmit(n, Multicast(n, s))
      BY <1>2, <1>3, <1>6, <2>1 DEF Send, Source, FirstOf
    <3>2. \A p \in Nodes : Multicast(n, s)[p] \in {s, <<>>} /\ (p = n => Multicast(n, s)[p] = <<>>)
      BY DEF Multicast
    <3> QED BY <3>1, <3>2
  <2>2. CASE scenario.dest[m] # Everyone
    <3> DEFINE one == [p \in Nodes |-> IF p = scenario.dest[m] /\ Address(p) \in Known(n) THEN s ELSE <<>>]
    <3>1. Transmit(n, one)
      BY <1>2, <1>3, <1>6, <2>2 DEF Send, Source, FirstOf
    <3>2. Address(n) \notin Known(n)
      BY KnownKnows DEF Promises, Sources, Address
    <3>3. \A p \in Nodes : one[p] \in {s, <<>>} /\ (p = n => one[p] = <<>>)
      BY <3>2
    <3> HIDE DEF one
    <3> QED BY <3>1, <3>3
  <2> QED BY <2>1, <2>2
<1>8. \A j \in 1 .. Len(s) : s[j] = Data(n, "DATA", m, id, j - 1)
  BY <1>1, <1>4, <1>6, CutInOrder
<1>9. ASSUME NEW j \in 1 .. Len(s)
      PROVE  /\ s[j].type = "DATA" /\ s[j].msg = m /\ s[j].from = Current(n, port) /\ s[j].no = j - 1
             /\ s[j].socket = DataSocket("DATA", m) /\ ~s[j].held
  <2>1. PICK x : x = Data(n, "DATA", m, id, j - 1)
    OBVIOUS
  <2>2. /\ x.type = "DATA" /\ x.msg = m /\ x.from = Current(n, port) /\ x.no = j - 1
        /\ x.socket = DataSocket("DATA", m) /\ ~x.held
    BY <2>1 DEF Data, Address, Current
  <2> QED BY <1>8, <2>1, <2>2
<1>10. s \in Seq(Packets)
  <2>1. PICK S : S = {id} \X Fragments(m)
    OBVIOUS
  <2>2. IsFiniteSet(Fragments(m)) /\ Fragments(m) \subseteq Nat
    BY <1>1, MessageParts
  <2>3. IsFiniteSet({id})
    BY FS_Singleton
  <2>4. IsFiniteSet(S) /\ S \subseteq Ids \X Nat
    BY <1>4, <2>1, <2>2, <2>3, FS_Product
  <2>5. PICK messages : messages = [i \in {id} |-> m]
    OBVIOUS
  <2>6. PICK ids : ids = [o \in Messages |-> id]
    OBVIOUS
  <2>7. \A d \in S : /\ messages[d[1]] \in Messages /\ SentAs(messages[d[1]], n, d[1], ids)
                     /\ d[2] \in Fragments(messages[d[1]])
    BY <1>2, <2>1, <2>5, <2>6 DEF SentAs, Source
  <2>8. \A p, g : StreamOK(p, Cut(n, "DATA", messages, S), g, ids)
    BY <1>1, <2>4, <2>7, CutStream
  <2> QED BY <1>6, <2>1, <2>5, <2>8 DEF StreamOK, FirstOf
<1>11. \A r, p \in Nodes : \A j \in 1 .. Len(net'[r][p]) :
       \/ j \in 1 .. Len(net[r][p]) /\ net'[r][p][j] = net[r][p][j]
       \/ /\ r = n /\ p # n /\ j > Len(net[r][p]) /\ j - Len(net[r][p]) \in 1 .. Len(s)
          /\ net'[r][p][j] = s[j - Len(net[r][p])]
  <2>1. \A p \in Nodes : sent[p] \in Seq(Packets)
    <3>1. <<>> \in Seq(Packets)
      OBVIOUS
    <3> QED BY <1>7, <1>10, <3>1, Zenon
  <2> SUFFICES ASSUME NEW r \in Nodes, NEW p \in Nodes, NEW j \in 1 .. Len(net'[r][p])
               PROVE  \/ j \in 1 .. Len(net[r][p]) /\ net'[r][p][j] = net[r][p][j]
                      \/ /\ r = n /\ p # n /\ j > Len(net[r][p]) /\ j - Len(net[r][p]) \in 1 .. Len(s)
                         /\ net'[r][p][j] = s[j - Len(net[r][p])]
    OBVIOUS
  <2>2. \/ j \in 1 .. Len(net[r][p]) /\ net'[r][p][j] = net[r][p][j]
        \/ /\ r = n /\ j > Len(net[r][p]) /\ j - Len(net[r][p]) \in 1 .. Len(sent[p])
           /\ net'[r][p][j] = sent[p][j - Len(net[r][p])]
    BY <1>7, <2>1, TransmitFlow
  <2>3. sent[p] # s => 1 .. Len(sent[p]) = {}
    BY <1>7
  <2>4. p = n => 1 .. Len(sent[p]) = {}
    BY <1>7
  <2> QED BY <2>2, <2>3, <2>4
<1>12. \A r \in Nodes, i \in Ids :
       \/ send_queue'[r][i] = send_queue[r][i]
       \/ /\ r = n /\ i = id /\ scenario.reliable[m]
          /\ send_queue'[r][i] = [msg |-> m, acked |-> [a \in Interested(n, m) |-> {}]]
  <2>1. CASE ~scenario.reliable[m]
    BY <1>5, <2>1 DEF Enqueue
  <2>2. CASE scenario.reliable[m]
    <3>1. PICK e : e = [msg |-> m, acked |-> [a \in Interested(n, m) |-> {}]]
      OBVIOUS
    <3>2. send_queue' = [send_queue EXCEPT ![n][id] = e]
      BY <1>5, <2>2, <3>1 DEF Enqueue
    <3>3. \A r \in Nodes, i \in Ids : send_queue'[r][i] = IF r = n /\ i = id THEN e ELSE send_queue[r][i]
      BY <1>1, <3>2
    <3> QED BY <2>2, <3>1, <3>3
  <2> QED BY <2>1, <2>2
<1>13. Sent(n, m, id, s)
  BY <1>2, <1>4, <1>5, <1>9, <1>11, <1>12 DEF Sent
<1> QED BY <1>13

\* Nothing is known of a message that has not been sent.
LEMMA SentIsNew ==
  ASSUME Inv, Promises, NEW n, NEW m, NEW id, NEW s, Sent(n, m, id, s)
  PROVE  /\ id_of[m] = Invalid /\ m \in scenario.messages /\ id # Invalid
         /\ \A r, p \in Nodes : \A j \in 1 .. Len(net[r][p]) : ~Carries(net[r][p][j], m)
         /\ \A r \in Nodes, i \in Ids : send_queue[r][i] # Free => send_queue[r][i].msg # m
         /\ \A p \in Nodes : \A a \in Knows(target, p), i \in Ids :
              \A x \in target[p][a].assemblers[i] : x[2] # m
         /\ \A p \in Nodes : once[m][p] = 0
         /\ \A o \in Messages : id_of'[o] = IF o = m THEN id ELSE id_of[o]
<1>1. m \in Messages /\ m \in unsent /\ id \in Ids /\ id_of' = [id_of EXCEPT ![m] = id]
  BY DEF Sent
<1>2. id_of \in [Messages -> Ids \cup {Invalid}] /\ id_of[m] = Invalid /\ Invalid \notin Ids
  BY <1>1, InvFacts
<1>3. ASSUME NEW r \in Nodes, NEW p \in Nodes, NEW j \in 1 .. Len(net[r][p]), NEW x, x = net[r][p][j], Carries(x, m)
      PROVE  FALSE
  <2>1. x \in Packets /\ PacketOK(p, x, got, id_of)
    BY <1>3, InvFacts
  <2>2. IsData(x) /\ x.msg = m
    BY <1>3 DEF Carries
  <2>3. id_of[m] = x.id /\ x.id \in Ids
    BY <2>1, <2>2, PacketFields DEF PacketOK, DataOK, SentAs
  <2> QED BY <1>2, <2>3
<1>4. \A r \in Nodes, i \in Ids : send_queue[r][i] # Free => send_queue[r][i].msg # m
  <2> SUFFICES ASSUME NEW r \in Nodes, NEW i \in Ids, send_queue[r][i] # Free, send_queue[r][i].msg = m
               PROVE  FALSE
    OBVIOUS
  <2>1. QueueOK(r, i, send_queue[r][i], Knows(target, r), got, id_of)
    BY InvFacts
  <2>2. id_of[m] = i
    BY <2>1 DEF QueueOK, SentAs
  <2> QED BY <1>2, <2>2
<1>5. ASSUME NEW p \in Nodes, NEW a \in Knows(target, p), NEW i \in Ids, NEW x \in target[p][a].assemblers[i]
      PROVE  x[2] # m
  <2>1. TargetOK(p, a, target[p][a], got, id_of)
    BY InvFacts
  <2>2. SentAs(x[2], a[1], i, id_of)
    BY <2>1 DEF TargetOK, PartOK
  <2> QED BY <1>2, <2>2 DEF SentAs
<1>6. \A p \in Nodes : once[m][p] = 0
  BY <1>1, <1>2 DEF Promises, Sendings
<1>7. m \in scenario.messages
  BY <1>1 DEF Promises, Sendings
<1> QED BY <1>1, <1>2, <1>3, <1>4, <1>5, <1>6, <1>7

\* Sending keeps each of the promises.
LEMMA SentSources ==
  ASSUME Inv, Promises, NEW n, NEW m, NEW id, NEW s, Sent(n, m, id, s)
  PROVE  Sources(net', target', port')
<1>1. n \in Nodes /\ UNCHANGED <<scenario, port, target>>
  BY DEF Sent
<1>2. Sources(net, target, port) /\ port[n] \in Nat
  BY <1>1, InvFacts DEF Promises
<1>3. ASSUME NEW r \in Nodes, NEW p \in Nodes, NEW j \in 1 .. Len(net'[r][p]), NEW x, x = net'[r][p][j]
      PROVE  /\ p # r /\ x.from[1] = r /\ x.from[2] <= port[r]
             /\ x.type = "LEAVE" => x.from[2] < port[r]
             /\ Placed(x)
  <2>1. CASE j \in 1 .. Len(net[r][p]) /\ x = net[r][p][j]
    BY <1>2, <2>1 DEF Sources
  <2>2. CASE r = n /\ p # n /\ \E i \in 1 .. Len(s) : x = s[i]
    <3>1. x.type = "DATA" /\ x.from = <<n, port[n]>> /\ Placed(x)
      BY <2>2 DEF Sent, Current, Placed
    <3> QED BY <1>2, <2>2, <3>1
  <2>3. \/ j \in 1 .. Len(net[r][p]) /\ net'[r][p][j] = net[r][p][j]
        \/ /\ r = n /\ p # n /\ j > Len(net[r][p]) /\ j - Len(net[r][p]) \in 1 .. Len(s)
           /\ net'[r][p][j] = s[j - Len(net[r][p])]
    BY DEF Sent
  <2> QED BY <1>3, <2>1, <2>2, <2>3
<1>4. \A r, p \in Nodes : \A j \in 1 .. Len(net'[r][p]) :
        LET x == net'[r][p][j] IN
        /\ p # r /\ x.from[1] = r /\ x.from[2] <= port[r]
        /\ x.type = "LEAVE" => x.from[2] < port[r]
        /\ Placed(x)
  BY <1>3
<1>5. \A p \in Nodes : \A a \in Knows(target, p) : a[1] # p /\ a[2] <= port[a[1]]
  BY <1>2 DEF Sources
<1> QED BY <1>1, <1>4, <1>5 DEF Sources, Knows

LEMMA SentSendings ==
  ASSUME Inv, Promises, NEW n, NEW m, NEW id, NEW s, Sent(n, m, id, s)
  PROVE  Sendings(unsent', id_of', target', once')
<1>1. /\ UNCHANGED <<scenario, target, once>> /\ unsent' = unsent \ {m} /\ m \in scenario.messages
      /\ id_of[m] = Invalid /\ id # Invalid
      /\ \A o \in Messages : id_of'[o] = IF o = m THEN id ELSE id_of[o]
  <2>1. UNCHANGED <<scenario, target, once>> /\ unsent' = unsent \ {m}
    BY DEF Sent
  <2> QED BY <2>1, SentIsNew
<1>2. Sendings(unsent, id_of, target, once)
  BY DEF Promises
<1>3. unsent' \subseteq scenario.messages
  BY <1>1, <1>2 DEF Sendings
<1>4. ASSUME NEW o \in Messages, id_of'[o] # Invalid PROVE o \in scenario.messages \ unsent'
  BY <1>1, <1>2, <1>4 DEF Sendings
<1>5. ASSUME NEW o \in Messages, NEW p \in Nodes, once'[o][p] # 0
      PROVE  id_of'[o] # Invalid /\ \E a \in Knows(target', p) : a[1] = Source(o)
  <2>1. once[o][p] # 0 /\ Knows(target', p) = Knows(target, p)
    BY <1>1, <1>5 DEF Knows
  <2>2. id_of[o] # Invalid /\ \E a \in Knows(target, p) : a[1] = Source(o)
    BY <1>2, <2>1 DEF Sendings
  <2> QED BY <1>1, <2>1, <2>2
<1> QED BY <1>3, <1>4, <1>5 DEF Sendings

LEMMA SentHomes ==
  ASSUME Inv, Promises, NEW n, NEW m, NEW id, NEW s, Sent(n, m, id, s)
  PROVE  Homes(net', target', send_queue', port', id_of', once')
<1>1. /\ UNCHANGED <<scenario, port, target, once>> /\ n \in Nodes /\ n = Source(m)
      /\ \A o \in Messages : id_of'[o] = IF o = m THEN id ELSE id_of[o]
      /\ \A r, p \in Nodes : \A j \in 1 .. Len(net[r][p]) : ~Carries(net[r][p][j], m)
      /\ \A r \in Nodes, i \in Ids : send_queue[r][i] # Free => send_queue[r][i].msg # m
      /\ \A p \in Nodes : once[m][p] = 0
  <2>1. UNCHANGED <<scenario, port, target, once>> /\ n \in Nodes /\ n = Source(m)
    BY DEF Sent
  <2> QED BY <2>1, SentIsNew
<1>2. ASSUME NEW r \in Nodes, NEW p \in Nodes, NEW j \in 1 .. Len(net'[r][p])
      PROVE  \/ \E i \in 1 .. Len(net[r][p]) : net'[r][p][j] = net[r][p][i]
             \/ net'[r][p][j].msg = m /\ net'[r][p][j].from = Current(n, port)
  <2>1. \/ j \in 1 .. Len(net[r][p]) /\ net'[r][p][j] = net[r][p][j]
        \/ /\ r = n /\ p # n /\ j > Len(net[r][p]) /\ j - Len(net[r][p]) \in 1 .. Len(s)
           /\ net'[r][p][j] = s[j - Len(net[r][p])]
    BY DEF Sent
  <2>2. \A i \in 1 .. Len(s) : s[i].msg = m /\ s[i].from = Current(n, port)
    BY DEF Sent
  <2> QED BY <2>1, <2>2
<1>3. \A r \in Nodes, i \in Ids : send_queue'[r][i] = send_queue[r][i] \/ send_queue'[r][i].msg = m
  BY DEF Sent
<1>4. Current(n, port) \in Addresses /\ Current(n, port)[1] = n
  BY <1>1, InvFacts DEF Current, Addresses
<1> SUFFICES ASSUME NEW o \in Messages
             PROVE  \E a \in Addresses : HomeOK(o, a, net', target', send_queue', port', id_of', once')
  BY DEF Homes
<1>5. CASE o = m
  <2>1. PICK a \in Addresses : a = Current(n, port)
    BY <1>4
  <2>2. \A p \in Nodes : \A j \in 1 .. Len(net'[n][p]) : Carries(net'[n][p][j], m) => net'[n][p][j].from = a
    BY <1>1, <1>2, <2>1
  <2>3. HomeOK(m, a, net', target', send_queue', port', id_of', once')
    BY <1>1, <1>4, <2>1, <2>2 DEF HomeOK, Source
  <2> QED BY <1>5, <2>3
<1>6. CASE o # m
  <2>1. PICK a \in Addresses : HomeOK(o, a, net, target, send_queue, port, id_of, once)
    BY DEF Promises, Homes
  <2>2. PICK r \in Nodes : r = Source(o)
    BY InvFacts, Scenery DEF Source
  <2>3. /\ a[1] = r
        /\ \A p \in Nodes : \A j \in 1 .. Len(net[r][p]) : Carries(net[r][p][j], o) => net[r][p][j].from = a
        /\ \A i \in Ids : send_queue[r][i] # Free /\ send_queue[r][i].msg = o => a = Current(r, port)
        /\ Exact => \A p \in Nodes : once[o][p] # 0 /\ scenario.reliable[o] =>
                      a \in Knows(target, p) /\ HasId(target[p][a], id_of[o])
    BY <2>1, <2>2 DEF HomeOK
  <2>4. ASSUME NEW p \in Nodes, NEW j \in 1 .. Len(net'[r][p]), Carries(net'[r][p][j], o)
        PROVE  net'[r][p][j].from = a
    <3>1. net'[r][p][j].msg # m
      BY <1>6, <2>4 DEF Carries
    <3>2. PICK i \in 1 .. Len(net[r][p]) : net'[r][p][j] = net[r][p][i]
      BY <1>2, <3>1
    <3> QED BY <2>3, <2>4, <3>2
  <2>5. \A i \in Ids : send_queue'[r][i] # Free /\ send_queue'[r][i].msg = o => a = Current(r, port)
    BY <1>3, <1>6, <2>3
  <2>6. HomeOK(o, a, net', target', send_queue', port', id_of', once')
    BY <1>1, <1>6, <2>2, <2>3, <2>4, <2>5 DEF HomeOK, Source, Exact, Knows
  <2> QED BY <2>6
<1> QED BY <1>5, <1>6

LEMMA SentOrderly ==
  ASSUME Inv, Promises, NEW n, NEW m, NEW id, NEW s, Sent(n, m, id, s)
  PROVE  Orderly(net', target', id_of', once')
<1>1. /\ UNCHANGED <<scenario, target, once>> /\ n \in Nodes /\ scenario \in Scenarios
      /\ \A o \in Messages : id_of'[o] = IF o = m THEN id ELSE id_of[o]
      /\ id_of[m] = Invalid
      /\ \A r, p \in Nodes : \A j \in 1 .. Len(net[r][p]) : ~Carries(net[r][p][j], m)
      /\ \A p \in Nodes : \A a \in Knows(target, p), i \in Ids : \A x \in target[p][a].assemblers[i] : x[2] # m
      /\ \A p \in Nodes : once[m][p] = 0
  <2>1. UNCHANGED <<scenario, target, once>> /\ n \in Nodes
    BY DEF Sent
  <2> QED BY <2>1, SentIsNew, InvFacts
<1> SUFFICES ASSUME Exact
             PROVE  /\ \A r, p \in Nodes : Ordered(net'[r][p])
                    /\ \A p \in Nodes : \A a \in Knows(target, p) :
                         /\ Earlier(net'[a[1]][p], target[p][a])
                         /\ Remembers(net'[a[1]][p], target[p][a], a, id_of')
                    /\ NotFirst(net', once)
  BY <1>1 DEF Orderly, Exact, Knows
<1>2. /\ \A r, p \in Nodes : Ordered(net[r][p])
      /\ \A p \in Nodes : \A a \in Knows(target, p) :
           Earlier(net[a[1]][p], target[p][a]) /\ Remembers(net[a[1]][p], target[p][a], a, id_of)
      /\ NotFirst(net, once)
  BY DEF Promises, Orderly
<1>3. \A r, p \in Nodes : \A j \in 1 .. Len(net'[r][p]) :
        \/ j \in 1 .. Len(net[r][p]) /\ net'[r][p][j] = net[r][p][j]
        \/ /\ j > Len(net[r][p]) /\ First(net'[r][p][j], m)
           /\ net'[r][p][j].no = j - Len(net[r][p]) - 1
  <2> SUFFICES ASSUME NEW r \in Nodes, NEW p \in Nodes, NEW j \in 1 .. Len(net'[r][p]), ~(j \in 1 .. Len(net[r][p]) /\ net'[r][p][j] = net[r][p][j])
               PROVE  /\ j > Len(net[r][p]) /\ First(net'[r][p][j], m)
                      /\ net'[r][p][j].no = j - Len(net[r][p]) - 1
    OBVIOUS
  <2> DEFINE kept == j \in 1 .. Len(net[r][p]) /\ net'[r][p][j] = net[r][p][j]
             new == /\ j > Len(net[r][p]) /\ j - Len(net[r][p]) \in 1 .. Len(s)
                    /\ net'[r][p][j] = s[j - Len(net[r][p])]
  <2>0. kept \/ new
    <3> HIDE DEF kept, new
    <3>1. \A x, y \in Nodes : \A k \in 1 .. Len(net'[x][y]) :
            \/ k \in 1 .. Len(net[x][y]) /\ net'[x][y][k] = net[x][y][k]
            \/ /\ x = n /\ y # n /\ k > Len(net[x][y]) /\ k - Len(net[x][y]) \in 1 .. Len(s)
               /\ net'[x][y][k] = s[k - Len(net[x][y])]
      BY Zenon DEF Sent
    <3> QED BY <3>1, Zenon DEF kept, new
  <2>1. new
    BY <2>0
  <2>2. PICK i \in 1 .. Len(s) : i = j - Len(net[r][p])
    BY <2>1
  <2>3. s[i].type = "DATA" /\ s[i].msg = m /\ s[i].no = i - 1
    BY DEF Sent
  <2> QED BY <2>1, <2>2, <2>3 DEF First
<1>4. \A r, p \in Nodes : Len(net[r][p]) \in Nat
  BY InvFacts
\* A stream that another message comes first in is one it has been in.
<1>5. ASSUME NEW r \in Nodes, NEW p \in Nodes, NEW o \in Messages, o # m,
             NEW j \in 1 .. Len(net'[r][p]), First(net'[r][p][j], o)
      PROVE  /\ j \in 1 .. Len(net[r][p]) /\ \A l \in 1 .. j : net'[r][p][l] = net[r][p][l]
  <2>1. j \in 1 .. Len(net[r][p])
    BY <1>3, <1>5 DEF First
  <2>2. ASSUME NEW l \in 1 .. j PROVE net'[r][p][l] = net[r][p][l]
    <3>1. l \in 1 .. Len(net'[r][p]) /\ ~(l > Len(net[r][p]))
      BY <1>4, <2>1
    <3> QED BY <1>3, <3>1
  <2> QED BY <2>1, <2>2
<1>6. ASSUME NEW r \in Nodes, NEW p \in Nodes PROVE Ordered(net'[r][p])
  <2> SUFFICES ASSUME NEW o \in Messages, NEW j \in 1 .. Len(net'[r][p]), NEW k \in 1 .. Len(net'[r][p]),
                      j < k, Carries(net'[r][p][j], o), First(net'[r][p][k], o)
               PROVE  net'[r][p][j].no < net'[r][p][k].no /\ Run(net'[r][p], j, k, o)
    BY DEF Ordered
  <2>1. CASE o # m
    <3>1. k \in 1 .. Len(net[r][p]) /\ \A l \in 1 .. k : net'[r][p][l] = net[r][p][l]
      BY <1>5, <2>1
    <3>2. j \in 1 .. k /\ k \in 1 .. k /\ j \in 1 .. Len(net[r][p]) /\ \A l \in j .. k : l \in 1 .. k
      BY <1>4, <3>1
    <3>3. Carries(net[r][p][j], o) /\ First(net[r][p][k], o)
      BY <3>1, <3>2
    <3>4. net[r][p][j].no < net[r][p][k].no /\ Run(net[r][p], j, k, o)
      BY <1>2, <3>1, <3>2, <3>3 DEF Ordered
    <3> QED BY <3>1, <3>2, <3>4 DEF Run
  <2>2. CASE o = m
    <3>1. /\ j > Len(net[r][p]) /\ net'[r][p][j].no = j - Len(net[r][p]) - 1
      BY <1>1, <1>3, <2>2
    <3>2. \A l \in j .. k : l \in 1 .. Len(net'[r][p]) /\ l > Len(net[r][p])
      BY <1>4, <3>1
    <3>3. \A l \in j .. k : First(net'[r][p][l], m) /\ net'[r][p][l].no = l - Len(net[r][p]) - 1
      BY <1>3, <1>4, <3>2
    <3>4. k \in j .. k
      OBVIOUS
    <3> QED BY <1>4, <2>2, <3>1, <3>3, <3>4 DEF Run
  <2> QED BY <2>1, <2>2
<1>7. ASSUME NEW p \in Nodes, NEW a \in Knows(target, p), NEW r \in Nodes, r = a[1], NEW v, v = target[p][a]
      PROVE  Earlier(net'[r][p], v) /\ Remembers(net'[r][p], v, a, id_of')
  <2>1. Earlier(net[r][p], v) /\ Remembers(net[r][p], v, a, id_of)
    BY <1>2, <1>7
  <2>2. v.assemblers \in [Ids -> Assemblies]
    BY <1>7, InvFacts DEF TargetOK
  <2>3. Earlier(net'[r][p], v)
    <3> SUFFICES ASSUME NEW i \in Ids, NEW x \in v.assemblers[i], NEW j \in 1 .. Len(net'[r][p]),
                        First(net'[r][p][j], x[2])
                 PROVE  x[1] < net'[r][p][j].no
      BY DEF Earlier
    <3>1. x[2] \in Messages /\ x[2] # m
      BY <1>1, <1>7, <2>2 DEF Assemblies, Parts
    <3>2. j \in 1 .. Len(net[r][p]) /\ net'[r][p][j] = net[r][p][j]
      BY <1>5, <3>1
    <3> QED BY <2>1, <3>2 DEF Earlier
  <2>4. PICK done \in SUBSET scenario.messages :
          Cardinality(done) = v.index /\ \A o \in done : DoneOK(o, net[r][p], v, a, id_of)
    BY <2>1 DEF Remembers
  <2>5. ASSUME NEW o \in done PROVE DoneOK(o, net'[r][p], v, a, id_of')
    <3>1. o \in Messages /\ DoneOK(o, net[r][p], v, a, id_of)
      BY <1>1, <2>4, Scenery
    <3>2. o # m
      BY <1>1, <3>1 DEF DoneOK
    <3>3. id_of'[o] = id_of[o]
      BY <1>1, <3>1, <3>2
    <3>4. ASSUME NEW j \in 1 .. Len(net'[r][p]), First(net'[r][p][j], o)
          PROVE  /\ 0 < net'[r][p][j].no /\ Run(net'[r][p], 1, j, o)
                 /\ \A x \in v.assemblers[id_of[o]] : 0 < x[1]
      <4>1. j \in 1 .. Len(net[r][p]) /\ \A l \in 1 .. j : net'[r][p][l] = net[r][p][l]
        BY <1>5, <3>1, <3>2, <3>4
      <4>2. First(net[r][p][j], o) /\ net'[r][p][j] = net[r][p][j]
        BY <3>4, <4>1
      <4>3. /\ 0 < net[r][p][j].no /\ Run(net[r][p], 1, j, o)
            /\ \A x \in v.assemblers[id_of[o]] : 0 < x[1]
        BY <3>1, <4>1, <4>2 DEF DoneOK
      <4> QED BY <4>1, <4>2, <4>3 DEF Run
    <3>5. Source(o) = a[1] /\ id_of[o] # Invalid /\ HasId(v, id_of[o])
      BY <3>1 DEF DoneOK
    <3> QED BY <3>3, <3>4, <3>5 DEF DoneOK
  <2>6. Remembers(net'[r][p], v, a, id_of')
    BY <1>1, <2>4, <2>5 DEF Remembers
  <2> QED BY <2>3, <2>6
<1>8. NotFirst(net', once)
  <2> SUFFICES ASSUME NEW o \in Messages, NEW p \in Nodes, once[o][p] # 0,
                      NEW j \in 1 .. Len(net'[Source(o)][p]), First(net'[Source(o)][p][j], o)
               PROVE  FALSE
    BY DEF NotFirst
  <2>1. PICK r \in Nodes : r = Source(o)
    BY <1>1, Scenery DEF Source
  <2>2. o # m
    BY <1>1
  <2>3. j \in 1 .. Len(net[r][p]) /\ net'[r][p][j] = net[r][p][j]
    BY <1>5, <2>1, <2>2
  <2> QED BY <1>2, <2>1, <2>3 DEF NotFirst
<1>9. \A p \in Nodes : \A a \in Knows(target, p) : a[1] \in Nodes
  BY DEF Knows, Addresses
<1> QED BY <1>6, <1>7, <1>8, <1>9

\* Numbers up to the number of ids do not come round.
LEMMA NoRound ==
  ASSUME NEW c \in Nat \ {0}, NEW j \in 1 .. c, NEW k \in 1 .. c, j % c = k % c
  PROVE  j = k
<1>1. \A x \in 1 .. c : x % c = IF x = c THEN 0 ELSE x
  <2>1. ASSUME NEW x \in 1 .. c, x # c PROVE x % c = x
    <3>1. x \in 0 .. c - 1
      BY <2>1
    <3> QED BY <3>1
  <2>2. c % c = 0
    OBVIOUS
  <2> QED BY <2>1, <2>2
<1> QED BY <1>1

\* The id of a message is the number of messages its node has sent, and no other
\* message has it.
LEMMA SentNumber ==
  ASSUME Inv, Promises, NEW n, NEW m, NEW id, NEW s, Sent(n, m, id, s), Kept
  PROVE  LET c == Cardinality(SentBy(n, unsent)) IN
         /\ c \in Nat /\ c + 1 <= scenario.ids /\ id = (c + 1) % scenario.ids
         /\ Cardinality(SentBy(n, unsent')) = c + 1
         /\ \A o \in Messages : Source(o) = n => id_of[o] # id
<1>1. /\ n \in Nodes /\ m \in Messages /\ n = Source(m) /\ id \in Ids /\ m \in unsent
      /\ unsent' = unsent \ {m} /\ scenario' = scenario
  BY DEF Sent
<1>2. m \in scenario.messages /\ id # Invalid /\ id_of[m] = Invalid
  BY SentIsNew
<1>3. /\ Sendings(unsent, id_of, target, once) /\ scenario \in Scenarios
      /\ packet_id_source[n] = Cardinality(SentBy(n, unsent)) % scenario.ids
      /\ \A o \in SentBy(n, unsent) : \E k \in 1 .. Cardinality(SentBy(n, unsent)) : id_of[o] = k % scenario.ids
  BY <1>1, InvFacts DEF Promises, Numbered
<1>4. IsFiniteSet(scenario.messages) /\ scenario.ids >= Cardinality(scenario.messages)
  BY DEF Kept
<1>5. PICK S : S = SentBy(n, unsent)
  OBVIOUS
<1>6. S \subseteq scenario.messages /\ m \notin S /\ S \cup {m} \subseteq scenario.messages
  BY <1>1, <1>2, <1>5 DEF SentBy
<1>7. IsFiniteSet(S) /\ Cardinality(S) \in Nat
  BY <1>4, <1>6, FS_Subset, FS_CardinalityType
<1>8. IsFiniteSet(S \cup {m}) /\ Cardinality(S \cup {m}) = Cardinality(S) + 1
  BY <1>6, <1>7, FS_AddElement
<1>9. PICK c \in Nat : c = Cardinality(S)
  BY <1>7
<1>10. PICK N \in Nat \ {0} : N = scenario.ids
  BY <1>3, Scenery
<1>11. Cardinality(scenario.messages) \in Nat
  BY <1>4, FS_CardinalityType
<1>12. c + 1 <= N
  <2>1. Cardinality(S \cup {m}) <= Cardinality(scenario.messages)
    BY <1>4, <1>6, FS_Subset
  <2> QED BY <1>4, <1>8, <1>9, <1>10, <1>11, <2>1
<1>13. SentBy(n, unsent') = S \cup {m}
  BY <1>1, <1>2, <1>5 DEF SentBy, Source
<1>14. ASSUME NEW o \in Messages, Source(o) = n PROVE id_of[o] # (c + 1) % N
  <2> SUFFICES ASSUME id_of[o] = (c + 1) % N PROVE FALSE
    OBVIOUS
  <2>1. (c + 1) % N \in Nat /\ Invalid \notin Nat
    BY <1>10 DEF Invalid
  <2>2. o \in S
    BY <1>3, <1>5, <1>14, <2>1 DEF Sendings, SentBy
  <2>3. PICK k \in 1 .. c : id_of[o] = k % N
    BY <1>3, <1>5, <1>9, <1>10, <2>2
  <2>4. k \in 1 .. N /\ c + 1 \in 1 .. N /\ k # c + 1
    BY <1>12
  <2> QED BY <2>3, <2>4, NoRound
<1>15. (c + 1) % N \in Ids
  BY <1>10 DEF Ids
<1>16. send_queue[n][(c + 1) % N] = Free
  <2> SUFFICES ASSUME NEW i \in Ids, i = (c + 1) % N, send_queue[n][i] # Free PROVE FALSE
    BY <1>15
  <2>1. QueueOK(n, i, send_queue[n][i], Knows(target, n), got, id_of)
    BY <1>1, InvFacts
  <2>2. send_queue[n][i].msg \in Messages /\ SentAs(send_queue[n][i].msg, n, i, id_of)
    BY <2>1 DEF QueueOK
  <2> QED BY <1>14, <2>2 DEF SentAs, Source
<1>17. PICK k \in 1 .. N : /\ id = (packet_id_source[n] + k) % N
                           /\ \A j \in 1 .. k - 1 : send_queue[n][(packet_id_source[n] + j) % N] # Free
  BY <1>10 DEF Sent
<1>18. packet_id_source[n] = c
  <2>1. c \in 0 .. N - 1
    BY <1>12
  <2>2. c % N = c
    BY <2>1
  <2> QED BY <1>3, <1>5, <1>9, <1>10, <2>2
<1>19. k = 1
  <2>1. k # 1 => 1 \in 1 .. k - 1
    OBVIOUS
  <2> QED BY <1>16, <1>17, <1>18, <2>1
<1>20. id = (c + 1) % N
  BY <1>17, <1>18, <1>19
<1>21. \A o \in Messages : Source(o) = n => id_of[o] # id
  BY <1>14, <1>20
<1> QED BY <1>5, <1>8, <1>9, <1>10, <1>12, <1>13, <1>20, <1>21

LEMMA SentNumbered ==
  ASSUME Inv, Promises, NEW n, NEW m, NEW id, NEW s, Sent(n, m, id, s)
  PROVE  Numbered(unsent', id_of', packet_id_source')
<1> SUFFICES ASSUME Kept, NEW r \in Nodes
             PROVE  LET c == Cardinality(SentBy(r, unsent')) IN
                    /\ packet_id_source'[r] = c % scenario.ids
                    /\ \A o \in SentBy(r, unsent') : \E k \in 1 .. c : id_of'[o] = k % scenario.ids
  BY DEF Numbered
<1>1. /\ n \in Nodes /\ m \in unsent /\ n = Source(m) /\ unsent' = unsent \ {m}
      /\ packet_id_source' = [packet_id_source EXCEPT ![n] = id]
  BY DEF Sent
<1>2. packet_id_source \in [Nodes -> Ids] /\ scenario \in Scenarios /\ scenario.messages \subseteq Messages
  BY Scenery DEF Inv, Types
<1>3. /\ packet_id_source[r] = Cardinality(SentBy(r, unsent)) % scenario.ids
      /\ \A o \in SentBy(r, unsent) : \E k \in 1 .. Cardinality(SentBy(r, unsent)) : id_of[o] = k % scenario.ids
  BY DEF Promises, Numbered
<1>4. \A o \in Messages : id_of'[o] = IF o = m THEN id ELSE id_of[o]
  BY SentIsNew
<1>5. CASE r # n
  <2>1. SentBy(r, unsent') = SentBy(r, unsent) /\ packet_id_source'[r] = packet_id_source[r]
    BY <1>1, <1>2, <1>5 DEF SentBy
  <2>2. \A o \in SentBy(r, unsent) : o \in Messages /\ o # m
    BY <1>1, <1>2 DEF SentBy
  <2> QED BY <1>3, <1>4, <2>1, <2>2
<1>6. CASE r = n
  <2>1. PICK c \in Nat : c = Cardinality(SentBy(n, unsent))
    BY SentNumber
  <2>2. id = (c + 1) % scenario.ids /\ Cardinality(SentBy(n, unsent')) = c + 1
    BY <2>1, SentNumber
  <2>3. packet_id_source'[n] = (c + 1) % scenario.ids
    BY <1>1, <1>2, <2>2
  <2>4. ASSUME NEW o \in SentBy(n, unsent') PROVE \E k \in 1 .. c + 1 : id_of'[o] = k % scenario.ids
    <3>1. o \in Messages /\ (o = m \/ o \in SentBy(n, unsent))
      BY <1>1, <1>2 DEF SentBy
    <3>2. CASE o = m
      <4>1. c + 1 \in 1 .. c + 1
        OBVIOUS
      <4> QED BY <1>4, <2>2, <3>1, <3>2, <4>1
    <3>3. CASE o # m
      <4>1. PICK k \in 1 .. c : id_of[o] = k % scenario.ids
        BY <1>3, <1>6, <2>1, <3>1, <3>3
      <4>2. k \in 1 .. c + 1
        OBVIOUS
      <4> QED BY <1>4, <3>1, <3>3, <4>1, <4>2
    <3> QED BY <3>2, <3>3
  <2> QED BY <1>6, <2>2, <2>3, <2>4
<1> QED BY <1>5, <1>6

\* The id of a message sent is that of no other while ids do not come round.
LEMMA SentFresh ==
  ASSUME Inv, Promises, NEW n, NEW m, NEW id, NEW s, Sent(n, m, id, s), Kept
  PROVE  IsFresh(id_of')
<1>1. IsFresh(id_of)
  BY DEF Promises, Safe
<1>2. /\ \A o \in Messages : Source(o) = n => id_of[o] # id
      /\ \A o \in Messages : id_of'[o] = IF o = m THEN id ELSE id_of[o]
      /\ n = Source(m)
  <2>1. n = Source(m)
    BY DEF Sent
  <2> QED BY <2>1, SentNumber, SentIsNew
<1> SUFFICES ASSUME NEW x \in Messages, NEW o \in Messages, x # o,
                    scenario.source[x] = scenario.source[o], id_of'[x] # Invalid
             PROVE  id_of'[x] # id_of'[o]
  BY DEF IsFresh
<1>3. Source(x) = Source(o)
  BY DEF Source
<1>4. CASE x = m
  BY <1>2, <1>3, <1>4
<1>5. CASE o = m
  BY <1>2, <1>3, <1>5
<1>6. CASE x # m /\ o # m
  BY <1>1, <1>2, <1>6 DEF IsFresh
<1> QED BY <1>4, <1>5, <1>6

LEMMA SentRemembered ==
  ASSUME Inv, Promises, NEW n, NEW m, NEW id, NEW s, Sent(n, m, id, s), Kept
  PROVE  Remembered(target', delivered', id_of')
<1>1. /\ UNCHANGED <<target, delivered, scenario>> /\ n = Source(m) /\ scenario \in Scenarios
  <2>1. UNCHANGED <<target, delivered, scenario>> /\ n = Source(m)
    BY DEF Sent
  <2> QED BY <2>1, InvFacts
<1>2. Remembered(target, delivered, id_of)
  BY DEF Promises, Safe
<1>3. /\ \A o \in Messages : Source(o) = n => id_of[o] # id
      /\ \A o \in Messages : id_of'[o] = IF o = m THEN id ELSE id_of[o]
      /\ id # Invalid
  BY SentNumber, SentIsNew
<1> SUFFICES ASSUME NEW p \in Nodes, NEW a \in Knows(target, p), NEW o \in Messages,
                    Source(o) = a[1], id_of'[o] # Invalid,
                    NEW k \in 0 .. scenario.ring - 1, target[p][a].recent[k] = id_of'[o]
             PROVE  delivered[o][p] > 0
  BY <1>1 DEF Remembered, Knows
<1>4. CASE o # m
  BY <1>2, <1>3, <1>4 DEF Remembered
<1>5. CASE o = m
  <2>1. target[p][a].recent[k] = id /\ a[1] = n
    BY <1>1, <1>3, <1>5
  <2>2. TargetOK(p, a, target[p][a], got, id_of)
    BY InvFacts
  <2>3. PICK x \in Messages : SentAs(x, a[1], id, id_of)
    BY <1>3, <2>1, <2>2 DEF TargetOK
  <2> QED BY <1>3, <2>1, <2>3 DEF SentAs, Source
<1> QED BY <1>4, <1>5

\* No acknowledgement is new.
LEMMA SentAcks ==
  ASSUME Inv, Promises, NEW n, NEW m, NEW id, NEW s, Sent(n, m, id, s),
         NEW r \in Nodes, NEW p \in Nodes, NEW j \in 1 .. Len(net'[r][p]), net'[r][p][j].type = "ACK"
  PROVE  j \in 1 .. Len(net[r][p]) /\ net'[r][p][j] = net[r][p][j]
<1>1. \/ j \in 1 .. Len(net[r][p]) /\ net'[r][p][j] = net[r][p][j]
      \/ /\ r = n /\ p # n /\ j > Len(net[r][p]) /\ j - Len(net[r][p]) \in 1 .. Len(s)
         /\ net'[r][p][j] = s[j - Len(net[r][p])]
  BY DEF Sent
<1>2. \A i \in 1 .. Len(s) : s[i].type = "DATA"
  BY DEF Sent
<1> QED BY <1>1, <1>2

\* Nothing of a message has been acknowledged when it is sent.
LEMMA SentBounded ==
  ASSUME Inv, Promises, NEW n, NEW m, NEW id, NEW s, Sent(n, m, id, s), Kept
  PROVE  Bounded(net', target', send_queue', port', delivered')
<1>1. /\ UNCHANGED <<target, delivered, scenario, port>> /\ n = Source(m) /\ n \in Nodes /\ m \in Messages
      /\ \A r \in Nodes, i \in Ids :
           \/ send_queue'[r][i] = send_queue[r][i]
           \/ /\ r = n /\ i = id /\ scenario.reliable[m]
              /\ send_queue'[r][i] = [msg |-> m, acked |-> [a \in Interested(n, m) |-> {}]]
  BY DEF Sent
<1>2. scenario \in Scenarios /\ Bounded(net, target, send_queue, port, delivered)
  BY InvFacts DEF Promises, Safe
<1> SUFFICES ASSUME NEW r \in Nodes, NEW i \in Ids, send_queue'[r][i] # Free,
                    NEW a \in DOMAIN send_queue'[r][i].acked, send_queue'[r][i].acked[a] # Expired,
                    NEW o, o = send_queue'[r][i].msg, NEW acked, acked = send_queue'[r][i].acked[a]
             PROVE  delivered'[o][a[1]] > 0 \/ \E H : Bound(r, i, o, a, H, acked, net', target', port')
  BY DEF Bounded
<1>3. CASE send_queue'[r][i] = send_queue[r][i]
  <2>1. a \in Addresses
    <3>1. QueueOK(r, i, send_queue[r][i], Knows(target, r), got, id_of)
      BY InvFacts
    <3> QED BY <1>3, <3>1 DEF QueueOK
  <2>2. CASE delivered[o][a[1]] > 0
    BY <1>1, <2>2
  <2>3. CASE ~(delivered[o][a[1]] > 0)
    <3>1. PICK H : Bound(r, i, o, a, H, acked, net, target, port)
      BY <1>2, <1>3, <2>3 DEF Bounded
    <3>2. PICK p \in Nodes : p = a[1]
      BY <2>1 DEF Addresses
    <3>3. ASSUME NEW j \in 1 .. Len(net'[p][r]), NEW x, x = net'[p][r][j],
                 x.type = "ACK", x.id = i, x.from = a
          PROVE  x.bits \subseteq H
      <4>1. j \in 1 .. Len(net[p][r]) /\ x = net[p][r][j]
        BY <3>3, SentAcks
      <4> QED BY <3>1, <3>2, <3>3, <4>1 DEF Bound
    <3>4. /\ H \subseteq Fragments(o) /\ H # Fragments(o) /\ acked \cap Fragments(o) \subseteq H
          /\ a = Current(p, port) => \A f \in H :
               /\ Current(r, port) \in Knows(target, p)
               /\ <<f, o>> \in target[p][Current(r, port)].assemblers[i]
      BY <3>1, <3>2 DEF Bound
    <3>5. Bound(r, i, o, a, H, acked, net', target', port')
      BY <1>1, <3>2, <3>3, <3>4 DEF Bound, Knows, Current
    <3> QED BY <3>5
  <2> QED BY <2>2, <2>3
<1>4. CASE send_queue'[r][i] # send_queue[r][i]
  <2>1. /\ r = n /\ i = id
        /\ send_queue'[r][i] = [msg |-> m, acked |-> [b \in Interested(n, m) |-> {}]]
    BY <1>1, <1>4
  <2>2. a \in Interested(n, m) /\ acked = {} /\ o = m
    BY <2>1
  <2>3. PICK p \in Nodes : p = a[1]
    BY <2>2 DEF Interested, Known, Addresses
  <2>4. ASSUME NEW j \in 1 .. Len(net'[p][n]), NEW x, x = net'[p][n][j], x.type = "ACK", x.id = id
        PROVE  FALSE
    <3>1. j \in 1 .. Len(net[p][n]) /\ x = net[p][n][j]
      BY <1>1, <2>4, SentAcks
    <3>2. PacketOK(n, x, got, id_of)
      BY <1>1, <3>1, InvFacts
    <3>3. PICK y \in Messages : SentAs(y, n, id, id_of)
      BY <2>4, <3>2 DEF PacketOK, AckOK
    <3> QED BY <3>3, SentNumber DEF SentAs, Source
  <2>5. 0 \in Fragments(m)
    BY <1>1, <1>2, MessageParts
  <2>6. Bound(n, id, m, a, {}, {}, net', target', port')
    BY <2>3, <2>4, <2>5 DEF Bound
  <2> QED BY <2>1, <2>2, <2>6
<1> QED BY <1>3, <1>4

LEMMA SentKeeps ==
  ASSUME Inv, Promises, NEW n, NEW m, NEW id, NEW s, Sent(n, m, id, s)
  PROVE  Promised
<1>1. Safe(net', target', send_queue', port', delivered', id_of')
  <2>1. ASSUME Kept
        PROVE  /\ IsFresh(id_of') /\ Remembered(target', delivered', id_of')
               /\ Bounded(net', target', send_queue', port', delivered')
    BY <2>1, SentFresh, SentRemembered, SentBounded
  <2> QED BY <2>1 DEF Safe
<1> QED BY <1>1, SentSources, SentSendings, SentHomes, SentOrderly, SentNumbered DEF Promised

-----------------------------------------------------------------------------
(* Every step keeps the promises.                                          *)

\* At first nothing is on its way, assembled or delivered.
LEMMA PromisesInit ==
  ASSUME Init
  PROVE  Promises
<1>1. /\ scenario \in Scenarios /\ port = [n \in Nodes |-> 0] /\ unsent = scenario.messages
      /\ target = [n \in Nodes |-> [a \in Addresses |->
           IF "announce" \notin scenario.events /\ {n, a[1]} \subseteq scenario.nodes /\ a[1] # n /\ a[2] = 0
           THEN NewTarget ELSE Unknown]]
      /\ send_queue = [n \in Nodes |-> [i \in Ids |-> Free]]
      /\ packet_id_source = [n \in Nodes |-> 0]
      /\ net = [n \in Nodes |-> [p \in Nodes |-> <<>>]]
      /\ delivered = [m \in Messages |-> [n \in Nodes |-> 0]] /\ once = delivered
      /\ id_of = [m \in Messages |-> Invalid]
  BY DEF Init
<1>2. scenario.messages \subseteq Messages /\ scenario.source \in [Messages -> Nodes] /\ scenario.ids \in Nat \ {0}
  BY <1>1, Scenery
<1>3. /\ \A q, p \in Nodes : net[q][p] = <<>>
      /\ \A q \in Nodes, i \in Ids : send_queue[q][i] = Free
      /\ \A m \in Messages : id_of[m] = Invalid
      /\ \A m \in Messages, n \in Nodes : once[m][n] = 0
  BY <1>1
<1>4. \A n \in Nodes : \A a \in Knows(target, n) :
        target[n][a] = NewTarget /\ a \in Addresses /\ a[1] # n /\ a[2] = 0
  BY <1>1 DEF Knows
<1>5. \A q, p \in Nodes : \A k : ~(k \in 1 .. Len(net[q][p]))
  BY <1>3
<1>6. Sources(net, target, port)
  <2>1. ASSUME NEW n \in Nodes, NEW a \in Knows(target, n) PROVE a[1] # n /\ a[2] <= port[a[1]]
    <3>1. a[1] \in Nodes /\ a[1] # n /\ a[2] = 0
      BY <1>4 DEF Addresses
    <3> QED BY <1>1, <3>1
  <2> QED BY <1>5, <2>1 DEF Sources
<1>7. Sendings(unsent, id_of, target, once)
  BY <1>1, <1>2, <1>3 DEF Sendings
<1>8. Homes(net, target, send_queue, port, id_of, once)
  <2> SUFFICES ASSUME NEW m \in Messages
               PROVE  \E a \in Addresses : HomeOK(m, a, net, target, send_queue, port, id_of, once)
    BY DEF Homes
  <2>1. PICK n \in Nodes : n = Source(m)
    BY <1>2 DEF Source
  <2>2. PICK a \in Addresses : a = <<n, 0>>
    <3>1. 0 \in Ports
      BY NetworkAssumption DEF Ports
    <3> QED BY <3>1 DEF Addresses
  <2>3. HomeOK(m, a, net, target, send_queue, port, id_of, once)
    BY <1>3, <1>5, <2>1, <2>2 DEF HomeOK
  <2> QED BY <2>3
<1>9. Orderly(net, target, id_of, once)
  <2>1. \A q, p \in Nodes : Ordered(net[q][p])
    BY <1>5 DEF Ordered
  <2>2. \A s : Earlier(s, NewTarget) /\ \A a, ids : Remembers(s, NewTarget, a, ids)
    BY <1>1, NewTargetEmpty
  <2>3. NotFirst(net, once)
    BY <1>3 DEF NotFirst
  <2> QED BY <1>4, <2>1, <2>2, <2>3 DEF Orderly
<1>10. Numbered(unsent, id_of, packet_id_source)
  <2>1. \A n \in Nodes : SentBy(n, unsent) = {}
    BY <1>1 DEF SentBy
  <2>2. Cardinality({}) = 0 /\ 0 % scenario.ids = 0
    BY <1>2, FS_EmptySet
  <2>3. \A n \in Nodes : packet_id_source[n] = 0
    BY <1>1
  <2>4. ASSUME NEW n \in Nodes
        PROVE  packet_id_source[n] = Cardinality(SentBy(n, unsent)) % scenario.ids /\ SentBy(n, unsent) = {}
    BY <2>1, <2>2, <2>3
  <2> QED BY <2>4 DEF Numbered
<1>11. Safe(net, target, send_queue, port, delivered, id_of)
  BY <1>3 DEF Safe, IsFresh, Remembered, Bounded
<1> QED BY <1>6, <1>7, <1>8, <1>9, <1>10, <1>11 DEF Promises

\* The promises of the state after a step are said in it.
LEMMA PromisesNext ==
  ASSUME Promised, UNCHANGED scenario
  PROVE  Promises'
<1>1. Ids' = Ids /\ Exact' = Exact /\ Kept' = Kept /\ \A m : Fragments(m)' = Fragments(m)
  BY DEF Ids, Exact, Kept, Fragments
<1>2. Sources(net, target, port)'
  BY DEF Promised, Sources, Knows, Placed, DataSocket, IsData
<1>3. Sendings(unsent, id_of, target, once)'
  BY DEF Promised, Sendings, Knows, Source
<1>4. Homes(net, target, send_queue, port, id_of, once)'
  BY <1>1 DEF Promised, Homes, HomeOK, Knows, Source, HasId, Carries, Current
<1>5. Orderly(net, target, id_of, once)'
  <2>1. (\A q, p \in Nodes : Ordered(net[q][p]))' <=> \A q, p \in Nodes : Ordered(net'[q][p])
    BY DEF Ordered
  <2>2. \A p \in Nodes : Knows(target, p)' = Knows(target', p)
    BY DEF Knows
  <2>3. \A p \in Nodes : \A a \in Knows(target', p) :
          /\ Earlier(net[a[1]][p], target[p][a])' <=> Earlier(net'[a[1]][p], target'[p][a])
          /\ Remembers(net[a[1]][p], target[p][a], a, id_of)' <=> Remembers(net'[a[1]][p], target'[p][a], a, id_of')
    BY <1>1 DEF Earlier, Remembers, DoneOK, Source
  <2>4. NotFirst(net, once)' <=> NotFirst(net', once')
    BY DEF NotFirst, Source
  <2> QED BY <1>1, <2>1, <2>2, <2>3, <2>4 DEF Promised, Orderly
<1>6. Numbered(unsent, id_of, packet_id_source)'
  BY <1>1 DEF Promised, Numbered, SentBy, Source
<1>7. Safe(net, target, send_queue, port, delivered, id_of)'
  <2> SUFFICES ASSUME Kept'
               PROVE  /\ IsFresh(id_of)' /\ Remembered(target, delivered, id_of)'
                      /\ Bounded(net, target, send_queue, port, delivered)'
    BY DEF Safe
  <2>1. /\ IsFresh(id_of') /\ Remembered(target', delivered', id_of')
        /\ Bounded(net', target', send_queue', port', delivered')
    BY <1>1 DEF Promised, Safe
  <2>2. IsFresh(id_of)'
    BY <2>1 DEF IsFresh
  <2>3. Remembered(target, delivered, id_of)'
    BY <2>1 DEF Remembered, Knows, Source
  <2>4. \A q, i, m, a, H, acked :
          Bound(q, i, m, a, H, acked, net', target', port') => Bound(q, i, m, a, H, acked, net, target, port)'
    BY <1>1 DEF Bound, Knows, Current
  <2>5. Bounded(net, target, send_queue, port, delivered)'
    BY <1>1, <2>1, <2>4 DEF Bounded
  <2> QED BY <2>2, <2>3, <2>5
<1> QED BY <1>2, <1>3, <1>4, <1>5, <1>6, <1>7 DEF Promises

\* What a node does with a packet it reads: it takes a fragment in, or is calm.
LEMMA ReceiveTakes ==
  ASSUME Inv, Promises, NEW n \in Nodes, NEW q \in Nodes, NEW k, NEW packet, NEW s, Reads(n, q, k, packet, s)
  PROVE  \/ Calm
         \/ \E t, u, parts : Taking(n, q, k, packet, s, t, u, parts)
<1>1. Handles(n, packet) /\ Handle(n, packet)
  BY DEF Reads
<1>2. CASE packet.type = "ANNOUNCE" /\ HearAnnounce(n, packet)
  BY <1>2, HearAnnounceCalm
<1>3. CASE packet.type = "LEAVE" /\ HearLeave(n, packet)
  BY <1>3, HearLeaveCalm
<1>4. CASE IsData(packet) /\ packet.from \in Known(n) /\ HearAgain(n, packet)
  BY <1>4, HearAgainCalm
<1>5. CASE IsData(packet) /\ packet.from \in Known(n) /\ (HearWhole(n, packet) \/ HearFragment(n, packet))
  <2>1. PICK t : t = target[n][packet.from]
    OBVIOUS
  <2>2. PICK u, parts : Takes(n, packet, t, u, parts)
    BY <1>1, <1>5, <2>1, TakesWhole, TakesFragment
  <2>3. Taking(n, q, k, packet, s, t, u, parts)
    BY <1>5, <2>2 DEF Taking
  <2> QED BY <2>3
<1>6. CASE packet.type = "ACK" /\ HearAck(n, packet)
  BY <1>6, HearAckCalm
<1>7. CASE packet.type = "NACK" /\ HearNack(n, packet)
  BY <1>7, HearNackCalm
<1>8. CASE Irrelevant(n, packet) /\ UNCHANGED <<target, send_queue, history>>
  BY <1>8, IrrelevantCalm
<1> QED BY <1>1, <1>2, <1>3, <1>4, <1>5, <1>6, <1>7, <1>8 DEF Handle

\* A packet that a thread takes in hand says what it said on its way.
LEMMA LookSame ==
  ASSUME Inv, NEW n \in Nodes, NEW q \in Nodes, Look(n, q)
  PROVE  /\ "threads" \in scenario.events
         /\ UNCHANGED <<scenario, port, target, send_queue, packet_id_source, unsent, delivered, once, id_of>>
         /\ \A r, p \in Nodes : \A k \in 1 .. Len(net'[r][p]) :
              LET x == net[r][p][k]
                  y == net'[r][p][k]
              IN /\ k \in 1 .. Len(net[r][p])
                 /\ y.type = x.type /\ y.from = x.from /\ y.socket = x.socket
                 /\ IsData(x) => y.msg = x.msg
                 /\ x.type = "ACK" => y.id = x.id /\ y.bits = x.bits
<1>1. /\ "threads" \in scenario.events
      /\ UNCHANGED <<scenario, port, target, send_queue, packet_id_source, unsent, delivered, once, id_of>>
  BY DEF Look, history
<1>2. PICK k \in 1 .. Len(net[q][n]) : net' = [net EXCEPT ![q][n][k].held = TRUE]
  BY DEF Look, Readable
<1>3. net \in [Nodes -> [Nodes -> Seq(Packets)]]
  BY InvFacts
<1>4. PICK z \in Seq(Packets) : z = net[q][n]
  BY <1>3
<1>5. PICK x \in Packets : x = z[k]
  BY <1>2, <1>4
<1>6. PICK y : y = [x EXCEPT !.held = TRUE]
  OBVIOUS
<1>7. /\ y.type = x.type /\ y.from = x.from /\ y.socket = x.socket
      /\ IsData(x) => y.msg = x.msg
      /\ x.type = "ACK" => y.id = x.id /\ y.bits = x.bits
  <2>1. CASE x \in [type : {"ANNOUNCE", "LEAVE"}, from : Addresses, socket : Sockets, held : BOOLEAN]
    BY <1>6, <2>1 DEF IsData
  <2>2. CASE x \in [type : {"DATA", "DATA_RETRANSMISSION"}, from : Addresses, socket : Sockets, held : BOOLEAN,
                    id : Ids, no : Nat, msg : Messages, count : Nat, reliable : BOOLEAN]
    BY <1>6, <2>2 DEF IsData
  <2>3. CASE x \in [type : {"ACK", "NACK"}, from : Addresses, socket : Sockets, held : BOOLEAN,
                    id : Ids, count : Nat, bits : SUBSET Nat]
    BY <1>6, <2>3 DEF IsData
  <2> QED BY <2>1, <2>2, <2>3 DEF Packets
<1>8. net'[q][n] = [z EXCEPT ![k] = y]
  BY <1>2, <1>3, <1>4, <1>5, <1>6
<1>9. \A r, p \in Nodes : ~(r = q /\ p = n) => net'[r][p] = net[r][p]
  BY <1>2, <1>3
<1>10. ASSUME NEW r \in Nodes, NEW p \in Nodes, NEW j \in 1 .. Len(net'[r][p])
       PROVE  \/ j \in 1 .. Len(net[r][p]) /\ net'[r][p][j] = net[r][p][j]
              \/ r = q /\ p = n /\ j = k /\ net'[r][p][j] = y
  <2>1. CASE r = q /\ p = n
    <3>1. j \in 1 .. Len(z) /\ net'[q][n][j] = IF j = k THEN y ELSE z[j]
      <4>1. PICK v : v = [z EXCEPT ![k] = y]
        OBVIOUS
      <4>2. Len(v) = Len(z) /\ \A i \in 1 .. Len(z) : v[i] = IF i = k THEN y ELSE z[i]
        BY <4>1
      <4>3. net'[q][n] = v
        BY <1>8, <4>1
      <4> QED BY <2>1, <4>2, <4>3
    <3> QED BY <1>4, <2>1, <3>1
  <2>2. CASE ~(r = q /\ p = n)
    BY <1>9, <2>2
  <2> QED BY <2>1, <2>2
<1>11. ASSUME NEW r \in Nodes, NEW p \in Nodes, NEW j \in 1 .. Len(net'[r][p])
       PROVE  LET v == net[r][p][j]
                  w == net'[r][p][j]
              IN /\ j \in 1 .. Len(net[r][p])
                 /\ w.type = v.type /\ w.from = v.from /\ w.socket = v.socket
                 /\ IsData(v) => w.msg = v.msg
                 /\ v.type = "ACK" => w.id = v.id /\ w.bits = v.bits
  <2>1. CASE j \in 1 .. Len(net[r][p]) /\ net'[r][p][j] = net[r][p][j]
    BY <2>1
  <2>2. CASE r = q /\ p = n /\ j = k /\ net'[r][p][j] = y
    BY <1>2, <1>4, <1>5, <1>7, <2>2
  <2> QED BY <1>10, <2>1, <2>2
<1> QED BY <1>1, <1>11

\* Where threads overtake one another nothing is promised of the order; the rest does
\* not depend on who has a packet in hand.
LEMMA LookKeeps ==
  ASSUME Inv, Promises, NEW n \in Nodes, NEW q \in Nodes, Look(n, q)
  PROVE  Promised
<1>1. /\ "threads" \in scenario.events
      /\ UNCHANGED <<scenario, port, target, send_queue, packet_id_source, unsent, delivered, once, id_of>>
      /\ \A r, p \in Nodes : \A k \in 1 .. Len(net'[r][p]) :
           /\ k \in 1 .. Len(net[r][p])
           /\ net'[r][p][k].type = net[r][p][k].type /\ net'[r][p][k].from = net[r][p][k].from
           /\ net'[r][p][k].socket = net[r][p][k].socket
           /\ IsData(net[r][p][k]) => net'[r][p][k].msg = net[r][p][k].msg
           /\ net[r][p][k].type = "ACK" => /\ net'[r][p][k].id = net[r][p][k].id
                                           /\ net'[r][p][k].bits = net[r][p][k].bits
  BY LookSame
<1>2. ~Exact
  BY <1>1 DEF Exact
<1>3. Sources(net', target', port')
  <2>1. ASSUME NEW r \in Nodes, NEW p \in Nodes, NEW k \in 1 .. Len(net'[r][p])
        PROVE  LET y == net'[r][p][k] IN
               /\ p # r /\ y.from[1] = r /\ y.from[2] <= port[r]
               /\ y.type = "LEAVE" => y.from[2] < port[r]
               /\ Placed(y)
    <3>1. k \in 1 .. Len(net[r][p])
      BY <1>1
    <3>2. /\ p # r /\ net[r][p][k].from[1] = r /\ net[r][p][k].from[2] <= port[r]
          /\ net[r][p][k].type = "LEAVE" => net[r][p][k].from[2] < port[r]
          /\ Placed(net[r][p][k])
      BY <3>1 DEF Promises, Sources
    <3>3. Placed(net'[r][p][k])
      <4>1. /\ net'[r][p][k].type = net[r][p][k].type /\ net'[r][p][k].socket = net[r][p][k].socket
            /\ IsData(net[r][p][k]) => net'[r][p][k].msg = net[r][p][k].msg
        BY <1>1, Zenon
      <4>2. "threads" \in scenario.events
        BY <1>1, Zenon
      <4>3. IsData(net'[r][p][k]) = IsData(net[r][p][k])
        BY <4>1, Zenon DEF IsData
      <4>4. CASE IsData(net[r][p][k])
        <5>1. net'[r][p][k].msg = net[r][p][k].msg
          BY <4>1, <4>4, Zenon
        <5> QED BY <3>2, <4>1, <4>2, <4>3, <4>4, <5>1, Zenon DEF Placed
      <4>5. CASE ~IsData(net[r][p][k])
        <5>1. net'[r][p][k].type # "DATA_RETRANSMISSION"
          BY <4>3, <4>5, Zenon DEF IsData
        <5> QED BY <4>2, <4>3, <4>5, <5>1, Zenon DEF Placed
      <4> QED BY <4>4, <4>5, Zenon
    <3> QED BY <1>1, <3>2, <3>3
  <2>2. port' = port /\ target' = target
    BY <1>1
  <2> QED BY <2>1, <2>2 DEF Promises, Sources
<1>4. Sendings(unsent', id_of', target', once')
  BY <1>1 DEF Promises
<1>5. Homes(net', target', send_queue', port', id_of', once')
  <2> SUFFICES ASSUME NEW m \in Messages
               PROVE  \E a \in Addresses : HomeOK(m, a, net', target', send_queue', port', id_of', once')
    BY DEF Homes
  <2>1. PICK a \in Addresses : HomeOK(m, a, net, target, send_queue, port, id_of, once)
    BY DEF Promises, Homes
  <2>2. Source(m) \in Nodes
    BY InvFacts, Scenery DEF Source
  <2>3. ASSUME NEW p \in Nodes, NEW k \in 1 .. Len(net'[Source(m)][p]), Carries(net'[Source(m)][p][k], m)
        PROVE  net'[Source(m)][p][k].from = a
    <3>1. k \in 1 .. Len(net[Source(m)][p]) /\ Carries(net[Source(m)][p][k], m)
      BY <1>1, <2>2, <2>3 DEF Carries, IsData
    <3>2. net[Source(m)][p][k].from = a
      BY <2>1, <3>1 DEF HomeOK
    <3> QED BY <1>1, <2>2, <3>2
  <2>4. HomeOK(m, a, net', target', send_queue', port', id_of', once')
    BY <1>1, <1>2, <2>1, <2>3 DEF HomeOK
  <2> QED BY <2>4
<1>6. Orderly(net', target', id_of', once')
  BY <1>2 DEF Orderly
<1>7. Numbered(unsent', id_of', packet_id_source')
  BY <1>1 DEF Promises
<1>8. Safe(net', target', send_queue', port', delivered', id_of')
  <2>1. \A r \in Nodes : \A i, m, a, H, acked :
          a[1] \in Nodes /\ Bound(r, i, m, a, H, acked, net, target, port) =>
            Bound(r, i, m, a, H, acked, net', target', port')
    <3> SUFFICES ASSUME NEW r \in Nodes, NEW i, NEW m, NEW a, NEW H, NEW acked, a[1] \in Nodes,
                        Bound(r, i, m, a, H, acked, net, target, port)
                 PROVE  Bound(r, i, m, a, H, acked, net', target', port')
      OBVIOUS
    <3>1. ASSUME NEW k \in 1 .. Len(net'[a[1]][r]), net'[a[1]][r][k].type = "ACK",
                 net'[a[1]][r][k].id = i, net'[a[1]][r][k].from = a
          PROVE  net'[a[1]][r][k].bits \subseteq H
      <4>1. /\ k \in 1 .. Len(net[a[1]][r]) /\ net[a[1]][r][k].type = "ACK"
            /\ net[a[1]][r][k].id = i /\ net[a[1]][r][k].from = a
            /\ net'[a[1]][r][k].bits = net[a[1]][r][k].bits
        <5>1. /\ k \in 1 .. Len(net[a[1]][r])
              /\ net'[a[1]][r][k].type = net[a[1]][r][k].type /\ net'[a[1]][r][k].from = net[a[1]][r][k].from
              /\ net[a[1]][r][k].type = "ACK" => /\ net'[a[1]][r][k].id = net[a[1]][r][k].id
                                                 /\ net'[a[1]][r][k].bits = net[a[1]][r][k].bits
          BY <1>1, <3>1
        <5> QED BY <3>1, <5>1
      <4> QED BY <4>1 DEF Bound
    <3> QED BY <1>1, <3>1 DEF Bound
  <2>2. \A r \in Nodes, i \in Ids : QueueOK(r, i, send_queue[r][i], Knows(target, r), got, id_of)
    BY InvFacts
  <2>3. \A r \in Nodes, i \in Ids : send_queue[r][i] # Free =>
          \A a \in DOMAIN send_queue[r][i].acked : send_queue[r][i].acked[a] # Expired => a[1] \in Nodes
    BY <2>2, ZenonT(40) DEF QueueOK, Addresses
  <2>4. Kept /\ Bounded(net, target, send_queue, port, delivered) =>
          Bounded(net', target', send_queue', port', delivered')
    BY <1>1, <2>1, <2>3 DEF Bounded
  <2> QED BY <1>1, <2>4 DEF Promises, Safe
<1> QED BY <1>3, <1>4, <1>5, <1>6, <1>7, <1>8 DEF Promised

LEMMA PromisesKept ==
  ASSUME Inv, Promises, [Next]_vars
  PROVE  Promises'
<1>1. scenario.nodes \subseteq Nodes /\ scenario \in Scenarios
  BY Scenery, InvFacts
<1>2. ASSUME Calm PROVE Promises'
  <2>1. UNCHANGED scenario
    BY <1>2 DEF Calm, CalmPorts
  <2> QED BY <1>2, <2>1, CalmKeeps, PromisesNext
<1>3. ASSUME NEW m \in Messages, Send(m) PROVE Promises'
  <2>1. PICK n, id, s : Sent(n, m, id, s)
    BY <1>3, SendSent
  <2>2. UNCHANGED scenario
    BY <2>1 DEF Sent
  <2> QED BY <2>1, <2>2, SentKeeps, PromisesNext
<1>4. ASSUME NEW n \in Nodes, NEW q \in Nodes, Receive(n, q) PROVE Promises'
  <2>1. PICK k, packet, s : Reads(n, q, k, packet, s)
    BY <1>4, ReceiveFlow
  <2>2. CASE \E t, u, parts : Taking(n, q, k, packet, s, t, u, parts)
    <3>1. PICK t, u, parts : Taking(n, q, k, packet, s, t, u, parts)
      BY <2>2
    <3>2. UNCHANGED scenario
      BY <2>1 DEF Reads
    <3> QED BY <3>1, <3>2, TakingKeeps, PromisesNext
  <2> QED BY <1>2, <2>1, <2>2, ReceiveTakes
<1>5. ASSUME NEW n \in Nodes, AnnounceSelf(n) PROVE Promises'
  BY <1>2, <1>5, AnnounceSelfCalm
<1>6. ASSUME NEW n \in Nodes, TimeOut(n) PROVE Promises'
  BY <1>2, <1>6, TimeOutCalm
<1>7. ASSUME NEW n \in Nodes, Reset(n) PROVE Promises'
  BY <1>2, <1>7, ResetCalm
<1>8. ASSUME NEW n \in Nodes, NEW due \in SUBSET Entries(n), Retransmit(n, due) PROVE Promises'
  BY <1>2, <1>8, RetransmitCalm
<1>9. ASSUME NEW n \in Nodes, NEW q \in Nodes, Lose(n, q) PROVE Promises'
  BY <1>2, <1>9, LoseCalm
<1>10. ASSUME UNCHANGED vars PROVE Promises'
  <2>1. UNCHANGED <<scenario, port, target, send_queue, packet_id_source, net, unsent,
                    got, delivered, once, corrupt, id_of>>
    BY <1>10 DEF vars
  <2>2. Promised
    BY <2>1 DEF Promises, Promised
  <2> QED BY <2>1, <2>2, PromisesNext
<1>11. ASSUME NEW n \in Nodes, NEW q \in Nodes, Look(n, q) PROVE Promises'
  <2>1. UNCHANGED scenario
    BY <1>11, LookSame
  <2> QED BY <1>11, <2>1, LookKeeps, PromisesNext
<1>12. CASE Next
  BY <1>1, <1>3, <1>4, <1>5, <1>6, <1>7, <1>8, <1>9, <1>10, <1>11, <1>12 DEF Next, Rest
<1> QED BY <1>10, <1>12

\* The promises hold for any nodes, messages and scenarios: whatever the network loses,
\* repeats or reorders, what NUClearNetwork keeps in its queues, assemblers and rings of
\* recent packets is enough to deliver a message at most once and to settle it only
\* after its delivery, in the scenarios where the code can.
THEOREM PromisesHold == Spec => [](Inv /\ Promises)
<1>1. Init => Inv /\ Promises
  BY InitOK, PromisesInit
<1>2. Inv /\ Promises /\ [Next]_vars => (Inv /\ Promises)'
  BY NextOK, PromisesKept
<1> QED BY <1>1, <1>2, PTL DEF Spec

-----------------------------------------------------------------------------
(* Every step is one of Delivery, or none.                                 *)

\* What an entry of send_queue says.
Entry(n, i, q) ==
  /\ q.msg \in Messages /\ Source(q.msg) = n /\ id_of[q.msg] = i /\ scenario.reliable[q.msg]
  /\ q = [msg |-> q.msg, acked |-> q.acked] /\ q.acked = [a \in DOMAIN q.acked |-> q.acked[a]]
  /\ DOMAIN q.acked \subseteq Addresses
  /\ \A a \in DOMAIN q.acked :
       /\ q.acked[a] \in (SUBSET Nat) \cup {Expired}
       /\ q.acked[a] # Expired => a \in Known(n) /\ q.acked[a] \subseteq Bits(scenario.count[q.msg])
\* An entry of the queue is of a reliable message this node sent.
LEMMA EntryFacts ==
  ASSUME Inv, NEW n \in Nodes, NEW i \in Ids, send_queue[n][i] # Free
  PROVE  Entry(n, i, send_queue[n][i])
<1>0. PICK q : q = send_queue[n][i]
  OBVIOUS
<1>1. QueueOK(n, i, q, Known(n), got, id_of)
  BY <1>0, InvFacts, KnownKnows
<1>2. /\ q.msg \in Messages /\ SentAs(q.msg, n, i, id_of) /\ scenario.reliable[q.msg]
      /\ q.acked = [a \in DOMAIN q.acked |-> q.acked[a]] /\ DOMAIN q.acked \subseteq Addresses
      /\ q \in [msg : Messages, acked : {q.acked}]
      /\ \A a \in DOMAIN q.acked : q.acked[a] # Expired =>
           a \in Known(n) /\ q.acked[a] \subseteq Bits(scenario.count[q.msg])
  BY <1>0, <1>1 DEF QueueOK, EntryOK
<1>3. \A count : Bits(count) \subseteq Nat
  BY DEF Bits
<1>4. q = [msg |-> q.msg, acked |-> q.acked]
  BY <1>2
<1>5. Entry(n, i, q)
  BY <1>2, <1>3, <1>4 DEF Entry, SentAs, Source
<1> QED BY <1>0, <1>5

\* An entry is not a free one, and what it owes is what has not expired in it.
LEMMA EntryOwes ==
  ASSUME NEW q, NEW m \in Messages, NEW S \in SUBSET Addresses, NEW f \in [S -> (SUBSET Nat) \cup {Expired}],
         q.msg = m, q.acked = f, q = [msg |-> m, acked |-> f]
  PROVE  q # Free /\ \A o, a : Owes(q, o, a) <=> o = m /\ a \in S /\ f[a] # Expired
<1>1. q # Free
  <2>1. f \in UNION {[T -> (SUBSET Nat) \cup {Expired}] : T \in SUBSET (Nodes \X Ports)}
    BY DEF Addresses
  <2>2. q \in [msg : Messages,
               acked : UNION {[T -> (SUBSET Nat) \cup {Expired}] : T \in SUBSET (Nodes \X Ports)}]
    BY <2>1
  <2> QED BY <2>2, EntriesAssumption
<1>2. DOMAIN f = S
  OBVIOUS
<1> QED BY <1>1, <1>2 DEF Owes

\* Bits are not the mark of a target that is gone.
LEMMA BitsCount ==
  ASSUME scenario \in Scenarios, NEW m \in Messages, NEW bits \in SUBSET Bits(scenario.count[m])
  PROVE  bits # Expired
  BY EntriesAssumption

\* What Delivery sees is as it was when the entries owe what they did.
LEMMA OwedSame ==
  ASSUME UNCHANGED scenario,
         \A n \in Nodes, i \in Ids, m \in Messages, a \in Addresses :
           Owes(send_queue'[n][i], m, a) <=> Owes(send_queue[n][i], m, a)
  PROVE  Owed' = Owed
<1>1. Ids' = Ids
  BY DEF Ids
<1>2. \A q, m, a : Owes(q, m, a)' = Owes(q', m', a')
  BY DEF Owes
<1>3. Owed' = {o \in Messages \X Addresses : \E n \in Nodes, i \in Ids : Owes(send_queue'[n][i], o[1], o[2])}
  BY <1>1 DEF Owed, Owes
<1>4. ASSUME NEW o \in Messages \X Addresses
      PROVE  (\E n \in Nodes, i \in Ids : Owes(send_queue'[n][i], o[1], o[2]))
               <=> (\E n \in Nodes, i \in Ids : Owes(send_queue[n][i], o[1], o[2]))
  <2>1. o[1] \in Messages /\ o[2] \in Addresses
    OBVIOUS
  <2> QED BY <2>1
<1> QED BY <1>3, <1>4 DEF Owed

LEMMA PlanSame ==
  ASSUME UNCHANGED scenario
  PROVE  UNCHANGED Plan
  BY DEF Plan, Exact, Kept, Alone

\* A step that changes nothing of what Delivery sees.
LEMMA Unseen ==
  ASSUME Inv, UNCHANGED <<scenario, unsent, delivered, once>>, UNCHANGED target,
         \A n \in Nodes, i \in Ids, m \in Messages, a \in Addresses :
           Owes(send_queue'[n][i], m, a) <=> Owes(send_queue[n][i], m, a)
  PROVE  UNCHANGED D!vars
<1>1. UNCHANGED Plan /\ UNCHANGED Owed
  BY PlanSame, OwedSame
<1>2. \A n : Known(n)' = Known(n)
  BY DEF Known
<1> QED BY <1>1, <1>2 DEF D!vars

\* Packets alone are not seen by Delivery.
LEMMA QueueUnseen ==
  ASSUME Inv, UNCHANGED <<scenario, unsent, delivered, once, target, send_queue>>
  PROVE  UNCHANGED D!vars
  BY Unseen

\* Targets that are forgotten leave.
LEMMA ForgetLeaves ==
  ASSUME Inv, NEW n \in Nodes, NEW S \in SUBSET Known(n), UNCHANGED <<scenario, unsent, delivered>>,
         \A p \in Nodes : Known(p)' = IF p = n THEN Known(n) \ S ELSE Known(p),
         \A p \in Nodes, i \in Ids, m \in Messages, a \in Addresses :
           Owes(send_queue'[p][i], m, a) <=> Owes(send_queue[p][i], m, a) /\ ~(p = n /\ a \in S),
         once' = [m \in Messages |->
                    [once[m] EXCEPT ![n] = IF \E a \in S : a[1] = scenario.source[m] THEN 0 ELSE @]]
  PROVE  D!Leave(n, S)
<1>1. UNCHANGED Plan /\ Ids' = Ids
  BY PlanSame DEF Ids
<1>2. Owed' = {o \in Messages \X Addresses : \E p \in Nodes, i \in Ids : Owes(send_queue'[p][i], o[1], o[2])}
  BY <1>1 DEF Owed, Owes
<1>3. ASSUME NEW o \in Messages \X Addresses
      PROVE  o \in Owed' <=> o \in Owed /\ ~(scenario.source[o[1]] = n /\ o[2] \in S)
  <2>1. o[1] \in Messages /\ o[2] \in Addresses
    OBVIOUS
  <2>2. ASSUME NEW p \in Nodes, NEW i \in Ids, Owes(send_queue[p][i], o[1], o[2])
        PROVE  scenario.source[o[1]] = p
    <3>1. send_queue[p][i] # Free /\ send_queue[p][i].msg = o[1]
      BY <2>2 DEF Owes
    <3>2. Entry(p, i, send_queue[p][i])
      BY <3>1, EntryFacts
    <3> QED BY <3>1, <3>2 DEF Entry, Source
  <2>3. o \in Owed' <=> \E p \in Nodes, i \in Ids : Owes(send_queue'[p][i], o[1], o[2])
    BY <1>2
  <2>4. o \in Owed <=> \E p \in Nodes, i \in Ids : Owes(send_queue[p][i], o[1], o[2])
    BY DEF Owed
  <2>5. \A p \in Nodes, i \in Ids :
          Owes(send_queue'[p][i], o[1], o[2]) <=> Owes(send_queue[p][i], o[1], o[2]) /\ ~(p = n /\ o[2] \in S)
    BY <2>1
  <2> QED BY <2>2, <2>3, <2>4, <2>5
<1>4. Owed' \subseteq Messages \X Addresses /\ Owed \subseteq Messages \X Addresses
  BY <1>2 DEF Owed
<1>5. Owed' = {o \in Owed : ~(scenario.source[o[1]] = n /\ o[2] \in S)}
  BY <1>3, <1>4
<1>6. [p \in Nodes |-> Known(p)]' = [[p \in Nodes |-> Known(p)] EXCEPT ![n] = @ \ S]
  OBVIOUS
<1>7. Plan.source = scenario.source /\ S \subseteq [p \in Nodes |-> Known(p)][n]
  BY DEF Plan
<1> QED BY <1>1, <1>5, <1>6, <1>7 DEF D!Leave

\* Who is forgotten, by LEAVE, by time-out or by reset, leaves.
LEMMA ForgetSeen ==
  ASSUME Inv, NEW n \in Nodes, NEW S \in SUBSET Known(n), Forget(n, S), UNCHANGED <<scenario, unsent, delivered>>
  PROVE  D!Leave(n, S)
<1>1. /\ target = [m \in Nodes |-> [b \in Addresses |-> target[m][b]]]
      /\ send_queue = [m \in Nodes |-> [i \in Ids |-> send_queue[m][i]]]
  BY DEF Inv, Tables
<1>2. /\ target' = [target EXCEPT ![n] = [a \in Addresses |-> IF a \in S THEN Unknown ELSE target[n][a]]]
      /\ send_queue' = [send_queue EXCEPT ![n] = Expire(send_queue[n], S)]
      /\ once' = [m \in Messages |->
           [once[m] EXCEPT ![n] = IF scenario.source[m] \in {a[1] : a \in S} THEN 0 ELSE @]]
  BY DEF Forget
<1>3. \A m \in Nodes, b \in Addresses : target'[m][b] = IF m = n /\ b \in S THEN Unknown ELSE target[m][b]
  BY <1>1, <1>2
<1>4. \A p \in Nodes : Known(p)' = IF p = n THEN Known(n) \ S ELSE Known(p)
  BY <1>3 DEF Known
<1>5. once' = [m \in Messages |->
                 [once[m] EXCEPT ![n] = IF \E a \in S : a[1] = scenario.source[m] THEN 0 ELSE @]]
  <2>1. \A m : scenario.source[m] \in {a[1] : a \in S} <=> \E a \in S : a[1] = scenario.source[m]
    OBVIOUS
  <2> QED BY <1>2, <2>1
<1>6. ASSUME NEW p \in Nodes, NEW i \in Ids, NEW m \in Messages, NEW a \in Addresses
      PROVE  Owes(send_queue'[p][i], m, a) <=> Owes(send_queue[p][i], m, a) /\ ~(p = n /\ a \in S)
  <2>1. CASE p # n
    BY <1>1, <1>2, <2>1
  <2>2. CASE p = n
    <3>1. PICK q : q = send_queue[n][i]
      OBVIOUS
    <3>2. PICK r : r = send_queue'[n][i]
      OBVIOUS
    <3>3. r = IF q = Free THEN Free ELSE
            [q EXCEPT !.acked = [b \in DOMAIN q.acked |-> IF b \in S THEN Expired ELSE q.acked[b]]]
      BY <1>1, <1>2, <3>1, <3>2 DEF Expire
    <3>4. CASE q = Free
      BY <2>2, <3>1, <3>2, <3>3, <3>4 DEF Owes
    <3>5. CASE q # Free
      <4>1. /\ q.msg \in Messages /\ q = [msg |-> q.msg, acked |-> q.acked]
            /\ DOMAIN q.acked \subseteq Addresses
            /\ \A b \in DOMAIN q.acked : q.acked[b] \in (SUBSET Nat) \cup {Expired}
        <5>1. Entry(n, i, q)
          BY <3>1, <3>5, EntryFacts
        <5> QED BY <5>1 DEF Entry
      <4>2. PICK f : f = [b \in DOMAIN q.acked |-> IF b \in S THEN Expired ELSE q.acked[b]]
        OBVIOUS
      <4>3. f \in [DOMAIN q.acked -> (SUBSET Nat) \cup {Expired}]
        <5>1. \A b \in DOMAIN q.acked : f[b] \in (SUBSET Nat) \cup {Expired}
          BY <4>1, <4>2
        <5> QED BY <4>2, <5>1
      <4>4. r = [msg |-> q.msg, acked |-> f] /\ r.msg = q.msg /\ r.acked = f
        BY <3>3, <3>5, <4>1, <4>2
      <4>5. Owes(r, m, a) <=> m = q.msg /\ a \in DOMAIN q.acked /\ f[a] # Expired
        BY <4>1, <4>3, <4>4, EntryOwes
      <4>6. a \in DOMAIN q.acked => f[a] = IF a \in S THEN Expired ELSE q.acked[a]
        BY <4>2
      <4> QED BY <2>2, <3>1, <3>2, <3>5, <4>5, <4>6 DEF Owes
    <3> QED BY <3>4, <3>5
  <2> QED BY <2>1, <2>2
<1> QED BY <1>4, <1>5, <1>6, ForgetLeaves

\* A retransmission settles nothing.
LEMMA RetransmitSeen ==
  ASSUME Inv, NEW n \in Nodes, NEW due \in SUBSET Entries(n), Retransmit(n, due)
  PROVE  UNCHANGED D!vars
<1>1. send_queue = [m \in Nodes |-> [i \in Ids |-> send_queue[m][i]]]
  BY DEF Inv, Tables
<1>2. UNCHANGED <<scenario, target, unsent, delivered, once>>
  BY DEF Retransmit, history
<1>3. send_queue' = [send_queue EXCEPT ![n] =
         [j \in Ids |-> IF j \notin Used(n) \/ Live(n, j) = {} THEN Free
                        ELSE [send_queue[n][j] EXCEPT !.acked =
                                [a \in Live(n, j) |-> send_queue[n][j].acked[a]]]]]
  BY Zenon DEF Retransmit
<1>4. ASSUME NEW p \in Nodes, NEW i \in Ids, NEW m \in Messages, NEW a \in Addresses
      PROVE  Owes(send_queue'[p][i], m, a) <=> Owes(send_queue[p][i], m, a)
  <2>1. CASE p # n
    BY <1>1, <1>3, <2>1
  <2>2. CASE p = n
    <3>1. PICK q : q = send_queue[n][i]
      OBVIOUS
    <3>2. PICK r : r = send_queue'[n][i]
      OBVIOUS
    <3>3. PICK L : L = Live(n, i)
      OBVIOUS
    <3>4. L = {b \in DOMAIN q.acked : q.acked[b] # Expired} /\ (i \in Used(n) <=> q # Free)
      BY <3>1, <3>3 DEF Live, Used
    <3>5. r = IF q = Free \/ L = {} THEN Free ELSE [q EXCEPT !.acked = [b \in L |-> q.acked[b]]]
      BY <1>1, <1>3, <3>1, <3>2, <3>3, <3>4
    <3>6. CASE q = Free \/ L = {}
      BY <2>2, <3>1, <3>2, <3>4, <3>5, <3>6 DEF Owes
    <3>7. CASE q # Free /\ L # {}
      <4>1. Entry(n, i, q)
        BY <3>1, <3>7, EntryFacts
      <4>2. /\ q.msg \in Messages /\ q = [msg |-> q.msg, acked |-> q.acked]
            /\ L \in SUBSET Addresses
            /\ \A b \in L : q.acked[b] \in (SUBSET Nat) \cup {Expired}
        BY <3>4, <4>1 DEF Entry
      <4>3. PICK f : f = [b \in L |-> q.acked[b]]
        OBVIOUS
      <4>4. f \in [L -> (SUBSET Nat) \cup {Expired}]
        <5>1. \A b \in L : f[b] \in (SUBSET Nat) \cup {Expired}
          BY <4>2, <4>3
        <5> QED BY <4>3, <5>1
      <4>5. r = [msg |-> q.msg, acked |-> f] /\ r.msg = q.msg /\ r.acked = f
        BY <3>5, <3>7, <4>2, <4>3
      <4>6. Owes(r, m, a) <=> m = q.msg /\ a \in L /\ f[a] # Expired
        BY <4>2, <4>4, <4>5, EntryOwes
      <4>7. a \in L => f[a] = q.acked[a]
        BY <4>3
      <4> QED BY <2>2, <3>1, <3>2, <3>4, <3>7, <4>6, <4>7 DEF Owes
    <3> QED BY <3>6, <3>7
  <2> QED BY <2>1, <2>2
<1> QED BY <1>2, <1>4, Unseen

LEMMA ResetSeen ==
  ASSUME Inv, Promises, NEW n \in Nodes, Reset(n)
  PROVE  D!Leave(n, Known(n))
<1>1. /\ target = [m \in Nodes |-> [b \in Addresses |-> target[m][b]]]
      /\ send_queue = [m \in Nodes |-> [i \in Ids |-> send_queue[m][i]]]
      /\ once \in [Messages -> [Nodes -> 0 .. 2]] /\ scenario.source \in [Messages -> Nodes]
  BY InvFacts, Scenery DEF Inv, Tables
<1>2. /\ target' = [target EXCEPT ![n] = [a \in Addresses |-> Unknown]]
      /\ send_queue' = [send_queue EXCEPT ![n] = [i \in Ids |-> Free]]
      /\ once' = [m \in Messages |-> [once[m] EXCEPT ![n] = 0]]
      /\ UNCHANGED <<scenario, unsent, delivered>>
  BY DEF Reset
<1>3. \A m \in Nodes, b \in Addresses : target'[m][b] = IF m = n THEN Unknown ELSE target[m][b]
  BY <1>1, <1>2
<1>4. \A p \in Nodes : Known(p)' = IF p = n THEN Known(n) \ Known(n) ELSE Known(p)
  BY <1>3 DEF Known
<1>5. ASSUME NEW p \in Nodes, NEW i \in Ids, NEW m \in Messages, NEW a \in Addresses
      PROVE  Owes(send_queue'[p][i], m, a) <=> Owes(send_queue[p][i], m, a) /\ ~(p = n /\ a \in Known(n))
  <2>1. CASE p # n
    BY <1>1, <1>2, <2>1
  <2>2. CASE p = n
    <3>1. send_queue'[n][i] = Free
      BY <1>1, <1>2
    <3>2. ASSUME Owes(send_queue[n][i], m, a) PROVE a \in Known(n)
      <4>1. /\ send_queue[n][i] # Free /\ a \in DOMAIN send_queue[n][i].acked
            /\ send_queue[n][i].acked[a] # Expired
        BY <3>2 DEF Owes
      <4>2. Entry(n, i, send_queue[n][i])
        BY <4>1, EntryFacts
      <4> QED BY <4>1, <4>2 DEF Entry
    <3> QED BY <2>2, <3>1, <3>2 DEF Owes
  <2> QED BY <2>1, <2>2
<1>6. once' = [m \in Messages |->
                 [once[m] EXCEPT ![n] = IF \E a \in Known(n) : a[1] = scenario.source[m] THEN 0 ELSE @]]
  <2>1. ASSUME NEW m \in Messages
        PROVE  [once[m] EXCEPT ![n] = 0]
                 = [once[m] EXCEPT ![n] = IF \E a \in Known(n) : a[1] = scenario.source[m] THEN 0 ELSE @]
    <3>1. CASE \E a \in Known(n) : a[1] = scenario.source[m]
      BY <3>1
    <3>2. CASE ~ \E a \in Known(n) : a[1] = scenario.source[m]
      <4>1. once[m][n] = 0
        BY <3>2, KnownKnows DEF Promises, Sendings, Source
      <4> QED BY <3>2, <4>1
    <3> QED BY <3>1, <3>2
  <2> QED BY <1>2, <2>1
<1> QED BY <1>2, <1>4, <1>5, <1>6, ForgetLeaves

\* An ANNOUNCE makes its sender join, if it is new.
LEMMA HearAnnounceSeen ==
  ASSUME Inv, NEW n \in Nodes, NEW packet, packet.from \in Addresses, HearAnnounce(n, packet),
         UNCHANGED <<scenario, unsent>>
  PROVE  D!Join(n, packet.from) \/ UNCHANGED D!vars
<1>1. UNCHANGED <<send_queue, delivered, once>>
  BY DEF HearAnnounce, history
<1>2. CASE packet.from \in Known(n)
  <2>1. UNCHANGED target
    BY <1>2 DEF HearAnnounce
  <2> QED BY <1>1, <2>1, QueueUnseen
<1>3. CASE packet.from \notin Known(n)
  <2>1. target' = [target EXCEPT ![n][packet.from] = NewTarget]
    BY <1>3 DEF HearAnnounce
  <2>2. target = [m \in Nodes |-> [b \in Addresses |-> target[m][b]]] /\ scenario \in Scenarios
    BY InvFacts DEF Inv, Tables
  <2>3. \A m \in Nodes, b \in Addresses :
          target'[m][b] = IF m = n /\ b = packet.from THEN NewTarget ELSE target[m][b]
    BY <2>1, <2>2
  <2>4. NewTarget # Unknown
    BY <2>2, NewTargetOK, TargetIsKnown
  <2>5. \A p \in Nodes : Known(p)' = IF p = n THEN Known(n) \cup {packet.from} ELSE Known(p)
    BY <2>3, <2>4 DEF Known
  <2>6. [p \in Nodes |-> Known(p)]' = [[p \in Nodes |-> Known(p)] EXCEPT ![n] = @ \cup {packet.from}]
    BY <2>5
  <2>7. UNCHANGED Plan /\ UNCHANGED Owed
    BY <1>1, PlanSame, OwedSame
  <2> QED BY <1>1, <2>6, <2>7 DEF D!Join
<1> QED BY <1>2, <1>3

\* A reliable message is owed to the targets that are known.
LEMMA SendSeen ==
  ASSUME Inv, Promises, NEW n, NEW m, NEW id, NEW s, Sent(n, m, id, s)
  PROVE  D!Send(m)
<1>1. /\ n \in Nodes /\ m \in Messages /\ n = Source(m) /\ id \in Ids /\ m \in unsent
      /\ unsent' = unsent \ {m} /\ UNCHANGED <<scenario, target, delivered, once>>
      /\ send_queue' = Enqueue(n, m, id) /\ send_queue[n][id] = Free
  BY DEF Sent
<1>2. /\ m \in scenario.messages /\ scenario \in Scenarios
      /\ send_queue = [r \in Nodes |-> [i \in Ids |-> send_queue[r][i]]]
  BY SentIsNew, InvFacts DEF Inv, Tables
<1>3. UNCHANGED Plan /\ Ids' = Ids /\ \A p : Known(p)' = Known(p)
  BY <1>1, PlanSame DEF Ids, Known
<1>4. (scenario.messages \ unsent)' = (scenario.messages \ unsent) \cup {m}
  BY <1>1, <1>2
<1>5. PICK K : K = IF scenario.reliable[m] THEN Interested(n, m) ELSE {}
  OBVIOUS
<1>6. K \subseteq Addresses
  BY <1>5 DEF Interested, Known
<1>7. ASSUME NEW r \in Nodes, NEW i \in Ids, NEW o \in Messages, NEW a \in Addresses
      PROVE  Owes(send_queue'[r][i], o, a)
               <=> Owes(send_queue[r][i], o, a) \/ (r = n /\ i = id /\ o = m /\ a \in K)
  <2>1. CASE ~scenario.reliable[m]
    BY <1>1, <1>5, <2>1 DEF Enqueue
  <2>2. CASE scenario.reliable[m]
    <3>1. PICK f : f = [b \in K |-> {}]
      OBVIOUS
    <3>2. PICK e : e = [msg |-> m, acked |-> f]
      OBVIOUS
    <3>3. send_queue' = [send_queue EXCEPT ![n][id] = e]
      BY <1>1, <1>5, <2>2, <3>1, <3>2 DEF Enqueue
    <3>4. send_queue'[r][i] = IF r = n /\ i = id THEN e ELSE send_queue[r][i]
      BY <1>1, <1>2, <3>3
    <3>5. f \in [K -> (SUBSET Nat) \cup {Expired}] /\ e.msg = m /\ e.acked = f
      BY <3>1, <3>2
    <3>6. Owes(e, o, a) <=> o = m /\ a \in K /\ f[a] # Expired
      BY <1>1, <1>6, <3>2, <3>5, EntryOwes
    <3>7. a \in K => f[a] = {} /\ {} # Expired
      <4>1. {} \in SUBSET Bits(scenario.count[m])
        OBVIOUS
      <4> QED BY <1>1, <1>2, <3>1, <4>1, BitsCount
    <3>8. ~Owes(send_queue[n][id], o, a)
      BY <1>1 DEF Owes
    <3> QED BY <3>4, <3>6, <3>7, <3>8
  <2> QED BY <2>1, <2>2
<1>8. Owed' = {o \in Messages \X Addresses : \E r \in Nodes, i \in Ids : Owes(send_queue'[r][i], o[1], o[2])}
  BY <1>3 DEF Owed, Owes
<1>9. ASSUME NEW o \in Messages \X Addresses
      PROVE  o \in Owed' <=> o \in Owed \/ (o[1] = m /\ o[2] \in K)
  <2>1. o[1] \in Messages /\ o[2] \in Addresses
    OBVIOUS
  <2>2. \A r \in Nodes, i \in Ids : Owes(send_queue'[r][i], o[1], o[2])
          <=> Owes(send_queue[r][i], o[1], o[2]) \/ (r = n /\ i = id /\ o[1] = m /\ o[2] \in K)
    BY <1>7, <2>1
  <2>3. o \in Owed' <=> \E p \in Nodes, i \in Ids : Owes(send_queue'[p][i], o[1], o[2])
    BY <1>8
  <2>4. o \in Owed <=> \E p \in Nodes, i \in Ids : Owes(send_queue[p][i], o[1], o[2])
    BY DEF Owed
  <2> QED BY <1>1, <2>2, <2>3, <2>4
<1>10. Owed' = Owed \cup {<<m, a>> : a \in K}
  <2>1. Owed' \subseteq Messages \X Addresses /\ Owed \subseteq Messages \X Addresses
    BY <1>8 DEF Owed
  <2>2. {<<m, a>> : a \in K} \subseteq Messages \X Addresses
    BY <1>1, <1>6
  <2>3. \A o \in Messages \X Addresses : o \in {<<m, a>> : a \in K} <=> o[1] = m /\ o[2] \in K
    OBVIOUS
  <2> QED BY <1>9, <2>1, <2>2, <2>3
<1>11. K = IF Plan.reliable[m]
           THEN {a \in [p \in Nodes |-> Known(p)][Plan.source[m]] : Plan.dest[m] \in {a[1], Plan.everyone}}
           ELSE {}
  <2>1. /\ Plan.reliable = scenario.reliable /\ Plan.source = scenario.source /\ Plan.dest = scenario.dest
        /\ Plan.everyone = Everyone
    BY DEF Plan
  <2>2. [p \in Nodes |-> Known(p)][n] = Known(n)
    BY <1>1
  <2>3. Interested(n, m) = {a \in Known(n) : scenario.dest[m] \in {a[1], Everyone}}
    BY DEF Interested
  <2> QED BY <1>1, <1>5, <2>1, <2>2, <2>3 DEF Source
<1> QED BY <1>1, <1>3, <1>4, <1>10, <1>11 DEF D!Send

\* A complete message is delivered, once when Exact, and a part of it is not seen.
LEMMA TakingSeen ==
  ASSUME Inv, Promises, NEW n, NEW q, NEW k, NEW packet, NEW s, NEW t, NEW u, NEW parts,
         Taking(n, q, k, packet, s, t, u, parts)
  PROVE  D!Deliver(packet.msg, n) \/ UNCHANGED D!vars
<1>1. /\ n \in Nodes /\ packet.msg \in Messages /\ Source(packet.msg) = q /\ id_of[packet.msg] # Invalid
      /\ packet.from[1] = q /\ packet.from \in Knows(target, n)
      /\ \A p \in Nodes : Knows(target', p) = Knows(target, p)
      /\ UNCHANGED <<scenario, unsent, send_queue>>
  BY TakingFacts, TakingTargets
<1>2. UNCHANGED Plan /\ UNCHANGED Owed /\ UNCHANGED [p \in Nodes |-> Known(p)]
  <2>1. \A p \in Nodes : Known(p)' = Known(p)
    BY <1>1 DEF Known, Knows
  <2> QED BY <1>1, <2>1, PlanSame, OwedSame
<1>3. CASE Complete(parts, packet) /\ parts = AllOf(packet.msg)
  <2>1. /\ delivered' = [delivered EXCEPT ![packet.msg][n] = IF @ < 2 THEN @ + 1 ELSE @]
        /\ once' = [once EXCEPT ![packet.msg][n] = IF @ < 2 THEN @ + 1 ELSE @]
    BY <1>3, TakingCounts
  <2>2. packet.msg \in scenario.messages \ unsent
    BY <1>1 DEF Promises, Sendings
  <2>3. \E a \in [p \in Nodes |-> Known(p)][n] : a[1] = Plan.source[packet.msg]
    <3>1. Plan.source = scenario.source /\ [p \in Nodes |-> Known(p)][n] = Known(n)
      BY <1>1 DEF Plan
    <3>2. packet.from \in Known(n) /\ packet.from[1] = scenario.source[packet.msg]
      BY <1>1, KnownKnows DEF Source
    <3> QED BY <3>1, <3>2
  <2>4. Plan.exact => once[packet.msg][n] = 0
    BY TakingOnce DEF Plan
  <2>5. (scenario.messages \ unsent)' = scenario.messages \ unsent
    BY <1>1
  <2> QED BY <1>2, <2>1, <2>2, <2>3, <2>4, <2>5 DEF D!Deliver
<1>4. CASE ~(Complete(parts, packet) /\ parts = AllOf(packet.msg))
  <2>1. UNCHANGED <<delivered, once>>
    BY <1>4, TakingNothing
  <2> QED BY <1>1, <1>2, <2>1 DEF D!vars
<1> QED BY <1>3, <1>4

\* What has been acknowledged in full has been delivered.
LEMMA FullDelivered ==
  ASSUME Inv, Promises, Kept, NEW n \in Nodes, NEW p \in Nodes, NEW k, NEW packet, NEW s, Reads(n, p, k, packet, s),
         packet.type = "ACK", Relevant(n, packet), NEW q, q = send_queue[n][packet.id],
         Expected(packet.count) \subseteq q.acked[packet.from] \cup packet.bits
  PROVE  delivered[q.msg][packet.from[1]] > 0
<1>1. /\ packet.id \in Ids /\ q # Free /\ q.msg \in Messages /\ packet.count = scenario.count[q.msg]
      /\ packet.from \in DOMAIN q.acked /\ q.acked[packet.from] # Expired
  BY RelevantEntry DEF Reads, Relevant
<1>2. packet.from[1] = p /\ k \in 1 .. Len(net[p][n]) /\ packet = net[p][n][k] /\ scenario \in Scenarios
  BY ReadFrom
<1> SUFFICES ASSUME ~(delivered[q.msg][packet.from[1]] > 0) PROVE FALSE
  OBVIOUS
<1>3. PICK H : Bound(n, packet.id, q.msg, packet.from, H, q.acked[packet.from], net, target, port)
  BY <1>1 DEF Promises, Safe, Bounded
<1>4. /\ H \subseteq Fragments(q.msg) /\ H # Fragments(q.msg) /\ q.acked[packet.from] \cap Fragments(q.msg) \subseteq H
      /\ packet.bits \subseteq H
  BY <1>2, <1>3 DEF Bound
<1>5. Fragments(q.msg) \subseteq Expected(packet.count)
  <2>1. packet.count \in Nat
    BY <1>1, <1>2, Scenery
  <2> QED BY <1>1, <2>1, RoomForAll DEF Expected, Fragments
<1> QED BY <1>4, <1>5

\* An ACK that tells of all fragments settles: by Bounded the message was delivered.
LEMMA HearAckSeen ==
  ASSUME Inv, Promises, NEW n \in Nodes, NEW p \in Nodes, NEW k, NEW packet, NEW s, Reads(n, p, k, packet, s),
         packet.type = "ACK", HearAck(n, packet)
  PROVE  (\E m \in Messages : D!Settle(m, packet.from)) \/ UNCHANGED D!vars
<1>1. PICK q : q = send_queue[n][packet.id]
  OBVIOUS
<1>2. /\ packet.id \in Ids /\ q # Free /\ Entry(n, packet.id, q) /\ Relevant(n, packet)
      /\ packet.from \in DOMAIN q.acked /\ q.acked[packet.from] # Expired
      /\ packet.count = scenario.count[q.msg]
  BY <1>1, RelevantEntry, EntryFacts DEF HearAck, Reads, Relevant
<1>3. PICK a : a = packet.from
  OBVIOUS
<1>4. PICK acked : acked = q.acked[a] \cup packet.bits
  OBVIOUS
<1>5. PICK rest : rest = DOMAIN q.acked \ {a}
  OBVIOUS
<1>6. PICK r : r = IF ~(Expected(packet.count) \subseteq acked) THEN [q EXCEPT !.acked[a] = acked]
                   ELSE IF rest = {} THEN Free
                   ELSE [q EXCEPT !.acked = [b \in rest |-> q.acked[b]]]
  OBVIOUS
<1>7. send_queue' = [send_queue EXCEPT ![n][packet.id] = r] /\ UNCHANGED <<target, delivered, once>>
  BY <1>1, <1>3, <1>4, <1>5, <1>6 DEF HearAck, history
<1>8. UNCHANGED <<scenario, unsent>> /\ packet \in Packets /\ Handles(n, packet)
  BY DEF Reads
<1>9. /\ send_queue = [m \in Nodes |-> [j \in Ids |-> send_queue[m][j]]] /\ scenario \in Scenarios
  BY InvFacts DEF Inv, Tables
<1>10. \A m \in Nodes, j \in Ids : send_queue'[m][j] = IF m = n /\ j = packet.id THEN r ELSE send_queue[m][j]
  BY <1>2, <1>7, <1>9
<1>11. /\ q.msg \in Messages /\ Source(q.msg) = n /\ id_of[q.msg] = packet.id
       /\ q = [msg |-> q.msg, acked |-> q.acked] /\ q.acked = [b \in DOMAIN q.acked |-> q.acked[b]]
       /\ DOMAIN q.acked \subseteq Addresses
       /\ \A b \in DOMAIN q.acked : q.acked[b] \in (SUBSET Nat) \cup {Expired}
       /\ q.acked[a] \subseteq Bits(scenario.count[q.msg])
  BY <1>2, <1>3 DEF Entry
<1>12. CASE ~(Expected(packet.count) \subseteq acked)
  <2>1. acked \in SUBSET Bits(scenario.count[q.msg]) /\ acked \in SUBSET Nat
    <3>1. packet.bits \subseteq 0 .. packet.count - 1 /\ packet.count \in Nat
      BY <1>2, <1>8, <1>9, <1>11, Scenery DEF Handles, PacketOK, AckOK
    <3>2. 0 .. packet.count - 1 \subseteq Bits(packet.count) /\ Bits(packet.count) \subseteq Nat
      BY <3>1, RoomForAll DEF Bits
    <3> QED BY <1>2, <1>4, <1>11, <3>1, <3>2
  <2>2. acked # Expired
    BY <1>9, <1>11, <2>1, BitsCount
  <2>3. PICK f : f = [q.acked EXCEPT ![a] = acked]
    OBVIOUS
  <2>4. /\ r = [msg |-> q.msg, acked |-> f] /\ r.msg = q.msg /\ r.acked = f
    BY <1>6, <1>11, <1>12, <2>3
  <2>5. \A b \in DOMAIN q.acked : f[b] = IF b = a THEN acked ELSE q.acked[b]
    BY <1>11, <2>3
  <2>6. f \in [DOMAIN q.acked -> (SUBSET Nat) \cup {Expired}]
    <3>1. f = [b \in DOMAIN q.acked |-> f[b]]
      BY <1>11, <2>3
    <3>2. \A b \in DOMAIN q.acked : f[b] \in (SUBSET Nat) \cup {Expired}
      BY <1>11, <2>1, <2>5
    <3> QED BY <3>1, <3>2
  <2>7. \A o, b : Owes(r, o, b) <=> o = q.msg /\ b \in DOMAIN q.acked /\ f[b] # Expired
    BY <1>11, <2>4, <2>6, EntryOwes
  <2>8. \A o, b : Owes(r, o, b) <=> Owes(q, o, b)
    BY <1>2, <1>3, <2>2, <2>5, <2>7 DEF Owes
  <2>9. \A m \in Nodes, j \in Ids, o \in Messages, b \in Addresses :
          Owes(send_queue'[m][j], o, b) <=> Owes(send_queue[m][j], o, b)
    BY <1>1, <1>10, <2>8
  <2> QED BY <1>7, <1>8, <2>9, Unseen
<1>13. CASE Expected(packet.count) \subseteq acked
  <2>1. \A o, b : Owes(r, o, b) <=> Owes(q, o, b) /\ b # a
    <3>1. CASE rest = {}
      BY <1>5, <1>6, <1>13, <3>1 DEF Owes
    <3>2. CASE rest # {}
      <4>1. PICK f : f = [b \in rest |-> q.acked[b]]
        OBVIOUS
      <4>2. f \in [rest -> (SUBSET Nat) \cup {Expired}]
        <5>1. \A b \in rest : f[b] \in (SUBSET Nat) \cup {Expired}
          BY <1>5, <1>11, <4>1
        <5> QED BY <4>1, <5>1
      <4>3. /\ r = [msg |-> q.msg, acked |-> f] /\ r.msg = q.msg /\ r.acked = f
        BY <1>6, <1>11, <1>13, <3>2, <4>1
      <4>4. rest \in SUBSET Addresses
        BY <1>5, <1>11
      <4>5. \A o, b : Owes(r, o, b) <=> o = q.msg /\ b \in rest /\ f[b] # Expired
        BY <1>11, <4>2, <4>3, <4>4, EntryOwes
      <4>6. \A b \in rest : f[b] = q.acked[b]
        BY <4>1
      <4> QED BY <1>2, <1>5, <4>5, <4>6 DEF Owes
    <3> QED BY <3>1, <3>2
  <2>2. Owed' = {o \in Messages \X Addresses : \E m \in Nodes, j \in Ids : Owes(send_queue'[m][j], o[1], o[2])}
    <3>1. Ids' = Ids
      BY <1>8 DEF Ids
    <3> QED BY <3>1 DEF Owed, Owes
  <2>3. ASSUME NEW o \in Messages \X Addresses
        PROVE  o \in Owed' <=> o \in Owed /\ ~(o[1] = q.msg /\ o[2] = a)
    <3>1. o \in Owed' <=> \E m \in Nodes, j \in Ids : Owes(send_queue'[m][j], o[1], o[2])
      BY <2>2
    <3>2. o \in Owed <=> \E m \in Nodes, j \in Ids : Owes(send_queue[m][j], o[1], o[2])
      BY DEF Owed
    <3>3. ASSUME NEW m \in Nodes, NEW j \in Ids
          PROVE  Owes(send_queue'[m][j], o[1], o[2])
                   <=> Owes(send_queue[m][j], o[1], o[2]) /\ ~(o[1] = q.msg /\ o[2] = a)
      <4>1. CASE m = n /\ j = packet.id
        <5>1. Owes(q, o[1], o[2]) => o[1] = q.msg
          BY DEF Owes
        <5> QED BY <1>1, <1>10, <2>1, <4>1, <5>1
      <4>2. CASE ~(m = n /\ j = packet.id)
        <5>1. ASSUME Owes(send_queue[m][j], o[1], o[2]), o[1] = q.msg PROVE FALSE
          <6>1. send_queue[m][j] # Free /\ send_queue[m][j].msg = q.msg
            BY <5>1 DEF Owes
          <6>2. Entry(m, j, send_queue[m][j])
            BY <6>1, EntryFacts
          <6> QED BY <1>11, <4>2, <6>1, <6>2 DEF Entry
        <5> QED BY <1>10, <4>2, <5>1
      <4> QED BY <4>1, <4>2
    <3> QED BY <3>1, <3>2, <3>3
  <2>4. Owed' = Owed \ {<<q.msg, a>>}
    <3>1. Owed' \subseteq Messages \X Addresses /\ Owed \subseteq Messages \X Addresses
      BY <2>2 DEF Owed
    <3>2. \A o \in Messages \X Addresses : o = <<q.msg, a>> <=> o[1] = q.msg /\ o[2] = a
      OBVIOUS
    <3> QED BY <2>3, <3>1, <3>2
  <2>5. <<q.msg, a>> \in Owed
    <3>1. Owes(send_queue[n][packet.id], q.msg, a)
      BY <1>1, <1>2, <1>3 DEF Owes
    <3>2. <<q.msg, a>> \in Messages \X Addresses
      BY <1>2, <1>3, <1>11
    <3> QED BY <1>2, <3>1, <3>2 DEF Owed
  <2>6. Plan.kept => delivered[q.msg][a[1]] > 0
    BY <1>1, <1>2, <1>3, <1>4, <1>13, FullDelivered DEF Plan
  <2>7. UNCHANGED Plan /\ \A m : Known(m)' = Known(m)
    BY <1>7, <1>8, PlanSame DEF Known
  <2>8. D!Settle(q.msg, a)
    BY <1>7, <1>8, <2>4, <2>5, <2>6, <2>7 DEF D!Settle
  <2> QED BY <1>3, <1>11, <2>8
<1> QED BY <1>12, <1>13

\* A NACK settles nothing.
LEMMA HearNackSeen ==
  ASSUME Inv, NEW n \in Nodes, NEW p \in Nodes, NEW k, NEW packet, NEW s, Reads(n, p, k, packet, s),
         packet.type = "NACK", HearNack(n, packet)
  PROVE  UNCHANGED D!vars
<1>1. PICK q : q = send_queue[n][packet.id]
  OBVIOUS
<1>2. /\ packet.id \in Ids /\ q # Free /\ Entry(n, packet.id, q)
      /\ packet.from \in DOMAIN q.acked /\ q.acked[packet.from] # Expired
  BY <1>1, RelevantEntry, EntryFacts DEF HearNack, Reads, Relevant
<1>3. PICK a : a = packet.from
  OBVIOUS
<1>4. PICK acked : acked = q.acked[a] \ packet.bits
  OBVIOUS
<1>5. PICK r : r = [q EXCEPT !.acked[a] = acked]
  OBVIOUS
<1>6. send_queue' = [send_queue EXCEPT ![n][packet.id] = r] /\ UNCHANGED <<target, delivered, once>>
  BY <1>1, <1>3, <1>4, <1>5 DEF HearNack, history
<1>7. UNCHANGED <<scenario, unsent>>
  BY DEF Reads
<1>8. /\ send_queue = [m \in Nodes |-> [j \in Ids |-> send_queue[m][j]]] /\ scenario \in Scenarios
  BY InvFacts DEF Inv, Tables
<1>9. \A m \in Nodes, j \in Ids : send_queue'[m][j] = IF m = n /\ j = packet.id THEN r ELSE send_queue[m][j]
  BY <1>2, <1>6, <1>8
<1>10. /\ q.msg \in Messages
       /\ q = [msg |-> q.msg, acked |-> q.acked] /\ q.acked = [b \in DOMAIN q.acked |-> q.acked[b]]
       /\ DOMAIN q.acked \subseteq Addresses
       /\ \A b \in DOMAIN q.acked : q.acked[b] \in (SUBSET Nat) \cup {Expired}
       /\ q.acked[a] \subseteq Bits(scenario.count[q.msg])
  BY <1>2, <1>3 DEF Entry
<1>11. acked \in SUBSET Bits(scenario.count[q.msg]) /\ acked \in SUBSET Nat
  BY <1>4, <1>10 DEF Bits
<1>12. acked # Expired
  BY <1>8, <1>10, <1>11, BitsCount
<1>13. PICK f : f = [q.acked EXCEPT ![a] = acked]
  OBVIOUS
<1>14. /\ r = [msg |-> q.msg, acked |-> f] /\ r.msg = q.msg /\ r.acked = f
  BY <1>5, <1>10, <1>13
<1>15. \A b \in DOMAIN q.acked : f[b] = IF b = a THEN acked ELSE q.acked[b]
  BY <1>10, <1>13
<1>16. f \in [DOMAIN q.acked -> (SUBSET Nat) \cup {Expired}]
  <2>1. f = [b \in DOMAIN q.acked |-> f[b]]
    BY <1>10, <1>13
  <2>2. \A b \in DOMAIN q.acked : f[b] \in (SUBSET Nat) \cup {Expired}
    BY <1>10, <1>11, <1>15
  <2> QED BY <2>1, <2>2
<1>17. \A o, b : Owes(r, o, b) <=> o = q.msg /\ b \in DOMAIN q.acked /\ f[b] # Expired
  BY <1>10, <1>14, <1>16, EntryOwes
<1>18. \A o, b : Owes(r, o, b) <=> Owes(q, o, b)
  BY <1>2, <1>3, <1>12, <1>15, <1>17 DEF Owes
<1>19. \A m \in Nodes, j \in Ids, o \in Messages, b \in Addresses :
         Owes(send_queue'[m][j], o, b) <=> Owes(send_queue[m][j], o, b)
  BY <1>1, <1>9, <1>18
<1> QED BY <1>6, <1>7, <1>19, Unseen

\* Whatever packet comes, Delivery joins, leaves, delivers, settles or waits.
LEMMA ReceiveSeen ==
  ASSUME Inv, Promises, NEW n \in Nodes, NEW q \in Nodes, Receive(n, q)
  PROVE  D!Next \/ UNCHANGED D!vars
<1>1. PICK k, packet, s : Reads(n, q, k, packet, s)
  BY ReceiveFlow
<1>2. /\ Handles(n, packet) /\ Handle(n, packet) /\ packet.from \in Addresses
      /\ UNCHANGED <<scenario, unsent>>
  BY <1>1, ReadFrom DEF Reads
<1>3. CASE packet.type = "ANNOUNCE" /\ HearAnnounce(n, packet)
  <2>1. D!Join(n, packet.from) \/ UNCHANGED D!vars
    BY <1>2, <1>3, HearAnnounceSeen
  <2> QED BY <1>2, <2>1 DEF D!Next
<1>4. CASE packet.type = "LEAVE" /\ HearLeave(n, packet)
  <2>1. PICK S \in SUBSET Known(n) : S = {packet.from} \cap Known(n)
    OBVIOUS
  <2>2. Forget(n, S) /\ UNCHANGED delivered
    BY <1>4, <2>1 DEF HearLeave
  <2>3. D!Leave(n, S)
    BY <1>2, <2>2, ForgetSeen
  <2>4. [p \in Nodes |-> Known(p)][n] = Known(n)
    OBVIOUS
  <2> QED BY <2>3, <2>4 DEF D!Next
<1>5. CASE IsData(packet) /\ packet.from \in Known(n) /\ HearAgain(n, packet)
  <2>1. UNCHANGED <<target, send_queue, delivered, once>>
    BY <1>5 DEF HearAgain, history
  <2> QED BY <1>2, <2>1, QueueUnseen
<1>6. CASE IsData(packet) /\ packet.from \in Known(n) /\ (HearWhole(n, packet) \/ HearFragment(n, packet))
  <2>1. PICK t : t = target[n][packet.from]
    OBVIOUS
  <2>2. PICK u, parts : Takes(n, packet, t, u, parts)
    BY <1>2, <1>6, <2>1, TakesWhole, TakesFragment
  <2>3. Taking(n, q, k, packet, s, t, u, parts)
    BY <1>1, <1>6, <2>2 DEF Taking
  <2>4. packet.msg \in Messages
    BY <2>3, TakingFacts
  <2>5. D!Deliver(packet.msg, n) \/ UNCHANGED D!vars
    BY <2>3, TakingSeen
  <2> QED BY <2>4, <2>5 DEF D!Next
<1>7. CASE packet.type = "ACK" /\ HearAck(n, packet)
  <2>1. (\E m \in Messages : D!Settle(m, packet.from)) \/ UNCHANGED D!vars
    BY <1>1, <1>7, HearAckSeen
  <2> QED BY <1>2, <2>1 DEF D!Next
<1>8. CASE packet.type = "NACK" /\ HearNack(n, packet)
  BY <1>1, <1>8, HearNackSeen
<1>9. CASE Irrelevant(n, packet) /\ UNCHANGED <<target, send_queue, history>>
  <2>1. UNCHANGED <<target, send_queue, delivered, once>>
    BY <1>9 DEF history
  <2> QED BY <1>2, <2>1, QueueUnseen
<1> QED BY <1>2, <1>3, <1>4, <1>5, <1>6, <1>7, <1>8, <1>9 DEF Handle

\* The network starts as Delivery does, and each of its steps is one of Delivery.
LEMMA InitSeen ==
  ASSUME Init
  PROVE  D!Init
<1>1. Inv
  BY InitOK
<1>2. /\ send_queue = [n \in Nodes |-> [i \in Ids |-> Free]] /\ unsent = scenario.messages
      /\ delivered = [m \in Messages |-> [n \in Nodes |-> 0]] /\ once = delivered
  BY DEF Init
<1>3. Owed = {}
  BY <1>2 DEF Owed, Owes
<1>4. [n \in Nodes |-> Known(n)] \in [Nodes -> SUBSET Addresses]
  BY DEF Known
<1> QED BY <1>2, <1>3, <1>4 DEF D!Init

LEMMA NextSeen ==
  ASSUME Inv, Promises, [Next]_vars
  PROVE  [D!Next]_(D!vars)
<1>1. scenario.nodes \subseteq Nodes
  BY InvFacts, Scenery
<1> SUFFICES D!Next \/ UNCHANGED D!vars
  OBVIOUS
<1>2. ASSUME NEW m \in Messages, Send(m) PROVE D!Next
  <2>1. PICK n, id, s : Sent(n, m, id, s)
    BY <1>2, SendSent
  <2>2. D!Send(m)
    BY <2>1, SendSeen
  <2> QED BY <2>2 DEF D!Next
<1>3. ASSUME NEW n \in Nodes, AnnounceSelf(n) PROVE UNCHANGED D!vars
  <2>1. UNCHANGED <<scenario, target, send_queue, unsent, delivered, once>>
    BY <1>3 DEF AnnounceSelf, history
  <2> QED BY <2>1, QueueUnseen
<1>4. ASSUME NEW n \in Nodes, TimeOut(n) PROVE D!Next
  <2>1. PICK S \in SUBSET Known(n) : Forget(n, S)
    BY <1>4 DEF TimeOut
  <2>2. UNCHANGED <<scenario, unsent, delivered>>
    BY <1>4 DEF TimeOut
  <2>3. D!Leave(n, S)
    BY <2>1, <2>2, ForgetSeen
  <2>4. [p \in Nodes |-> Known(p)][n] = Known(n)
    OBVIOUS
  <2> QED BY <2>3, <2>4 DEF D!Next
<1>5. ASSUME NEW n \in Nodes, Reset(n) PROVE D!Next
  <2>1. D!Leave(n, Known(n))
    BY <1>5, ResetSeen
  <2>2. [p \in Nodes |-> Known(p)][n] = Known(n)
    OBVIOUS
  <2> QED BY <2>1, <2>2 DEF D!Next
<1>6. ASSUME NEW n \in Nodes, NEW due \in SUBSET Entries(n), Retransmit(n, due) PROVE UNCHANGED D!vars
  BY <1>6, RetransmitSeen
<1>7. ASSUME NEW n \in Nodes, NEW q \in Nodes, Receive(n, q) PROVE D!Next \/ UNCHANGED D!vars
  BY <1>7, ReceiveSeen
<1>8. ASSUME NEW n \in Nodes, NEW q \in Nodes, Lose(n, q) PROVE UNCHANGED D!vars
  <2>1. UNCHANGED <<scenario, target, send_queue, unsent, delivered, once>>
    BY <1>8 DEF Lose, history
  <2> QED BY <2>1, QueueUnseen
<1>9. ASSUME UNCHANGED vars PROVE UNCHANGED D!vars
  <2>1. UNCHANGED <<scenario, target, send_queue, unsent, delivered, once>>
    BY <1>9 DEF vars
  <2> QED BY <2>1, QueueUnseen
<1>10. ASSUME NEW n \in Nodes, NEW q \in Nodes, Look(n, q) PROVE UNCHANGED D!vars
  <2>1. UNCHANGED <<scenario, target, send_queue, unsent, delivered, once>>
    BY <1>10 DEF Look, history
  <2> QED BY <2>1, QueueUnseen
<1>11. CASE Next
  BY <1>1, <1>2, <1>3, <1>4, <1>5, <1>6, <1>7, <1>8, <1>9, <1>10, <1>11 DEF Next, Rest
<1> QED BY <1>9, <1>11

\* Every step of NUClearNetwork is a step of Delivery or leaves its state as it is.
\* send owes a reliable message to the addresses known.  process_packet delivers only
\* what has been sent, of a source known here, and just once since that source joined
\* if each message is for one node, its packets come in order and once and to one thread
\* at a time, and recent_packets has room.  An ACK settles
\* only what has been delivered, if nothing expires and no packet id comes round; all
\* that is owed to a peer ends with its removal, and nothing else does.
THEOREM DeliveryHolds == Spec => D!Init /\ [][D!Next]_(D!vars)
<1>1. Init => D!Init
  BY InitSeen
<1>2. Inv /\ Promises /\ [Next]_vars => [D!Next]_(D!vars)
  BY NextSeen
<1> QED BY <1>1, <1>2, PromisesHold, PTL DEF Spec
=============================================================================

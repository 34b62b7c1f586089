------------------------------ MODULE Delivery ------------------------------
(***************************************************************************)
(* What the network promises: who knows whom, and which messages have been *)
(* delivered.  A message comes to a node at most once while its source     *)
(* stays known there, and a reliable one is owed to each address it was    *)
(* sent to until it has been delivered or the address is forgotten.        *)
(***************************************************************************)
EXTENDS Naturals

CONSTANTS Nodes, Messages, Addresses
VARIABLES
  plan,       \* the source of each message, and which promises are kept
  known,      \* the addresses each node knows
  sent,       \* the messages sent
  owed,       \* <<message, address>>: reliable and not settled
  delivered,  \* how often each message came to each node,
  once        \* and how often since its source joined
vars == <<plan, known, sent, owed, delivered, once>>

Init ==
  /\ known \in [Nodes -> SUBSET Addresses]
  /\ sent = {} /\ owed = {}
  /\ delivered = [m \in Messages |-> [n \in Nodes |-> 0]]
  /\ once = delivered

Join(n, a) ==
  /\ known' = [known EXCEPT ![n] = @ \cup {a}]
  /\ UNCHANGED <<plan, sent, owed, delivered, once>>

\* What is owed to an address ends with it, and its source may come again.
Leave(n, S) ==
  /\ S \subseteq known[n]
  /\ known' = [known EXCEPT ![n] = @ \ S]
  /\ owed' = {o \in owed : ~(plan.source[o[1]] = n /\ o[2] \in S)}
  /\ once' = [m \in Messages |->
                [once[m] EXCEPT ![n] = IF \E a \in S : a[1] = plan.source[m] THEN 0 ELSE @]]
  /\ UNCHANGED <<plan, sent, delivered>>

Send(m) ==
  /\ m \notin sent
  /\ sent' = sent \cup {m}
  /\ owed' = owed \cup {<<m, a>> : a \in IF plan.reliable[m] THEN
                                           {a \in known[plan.source[m]] : plan.dest[m] \in {a[1], plan.everyone}}
                                         ELSE {}}
  /\ UNCHANGED <<plan, known, delivered, once>>

Deliver(m, n) ==
  /\ m \in sent
  /\ \E a \in known[n] : a[1] = plan.source[m]
  /\ plan.exact => once[m][n] = 0
  /\ once' = [once EXCEPT ![m][n] = IF @ < 2 THEN @ + 1 ELSE @]
  /\ delivered' = [delivered EXCEPT ![m][n] = IF @ < 2 THEN @ + 1 ELSE @]
  /\ UNCHANGED <<plan, known, sent, owed>>

Settle(m, a) ==
  /\ <<m, a>> \in owed
  /\ plan.kept => delivered[m][a[1]] > 0
  /\ owed' = owed \ {<<m, a>>}
  /\ UNCHANGED <<plan, known, sent, delivered, once>>

Next ==
  \/ \E n \in Nodes : \/ \E a \in Addresses : Join(n, a)
                      \/ \E S \in SUBSET known[n] : Leave(n, S)
  \/ \E m \in Messages : \/ Send(m)
                         \/ \E n \in Nodes : Deliver(m, n)
                         \/ \E a \in Addresses : Settle(m, a)
\* What is owed is settled in the end, if the plan promises it: delivered, where
\* that is promised too, or forgotten with its address.
Settles == (plan.live /\ owed # {}) ~> (owed = {})
Spec == Init /\ [][Next]_vars /\ Settles
=============================================================================

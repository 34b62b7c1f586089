------------------------------- MODULE Blocks -------------------------------
(***************************************************************************)
(* The producer side shared by the scheduler's two lock-free queues: items *)
(* go into fixed-size blocks, linked in a list; a producer claims a slot   *)
(* with a fetch_add, and one that finds the block full links the next one. *)
(*                                                                         *)
(* A step is one atomic operation.  Blocks are numbered in the order they  *)
(* are linked: a block is linked after the last one only.  Memory is       *)
(* sequentially consistent.                                                *)
(***************************************************************************)
EXTENDS Integers, Sequences, FiniteSets, SequencesExt

CONSTANTS Producers,
          ItemsEach,     \* how many items each producer enqueues
          BLOCK_SIZE,
          MaxBlocks      \* bound on the blocks: enough for all items

ASSUME BlockAssumption ==
  /\ BLOCK_SIZE \in Nat \ {0} /\ ItemsEach \in Nat /\ MaxBlocks \in Nat \ {0}
  /\ IsFiniteSet(Producers)
  /\ Cardinality(Producers) * ItemsEach <= BLOCK_SIZE * MaxBlocks

VARIABLES
  write, next, committed,   \* Block::write, Block::next, Slot::committed
  tail,                     \* the queue's tail
  ppc, pblock, pindex,      \* the producers: counter, block and slot claimed
  sent                      \* history: the slots each producer has claimed

producerVars == <<write, next, tail, ppc, pblock, pindex, sent>>

Blocks == 1 .. MaxBlocks
NoBlock == 0
Slots == 0 .. BLOCK_SIZE - 1

ProducerInit ==
  /\ write = [b \in Blocks |-> 0]
  /\ next = [b \in Blocks |-> NoBlock]
  /\ committed = [b \in Blocks |-> [i \in Slots |-> FALSE]]
  /\ tail = 1
  /\ ppc = [p \in Producers |-> "idle"]
  /\ pblock = [p \in Producers |-> NoBlock]
  /\ pindex = [p \in Producers |-> 0]
  /\ sent = [p \in Producers |-> <<>>]

PGoto(p, l) == ppc' = [ppc EXCEPT ![p] = l]
\* End an iteration of the loop of enqueue: its locals are gone.
PLeave(p, l) ==
  /\ PGoto(p, l)
  /\ pblock' = [pblock EXCEPT ![p] = NoBlock]
  /\ pindex' = [pindex EXCEPT ![p] = 0]

\* enqueue: load the tail ...
LoadTail(p) ==
  /\ \/ ppc[p] = "idle" /\ Len(sent[p]) < ItemsEach
     \/ ppc[p] = "retry"
  /\ pblock' = [pblock EXCEPT ![p] = tail]
  /\ PGoto(p, "claim")
  /\ UNCHANGED <<write, next, committed, tail, pindex, sent>>

\* Mutant: the last slot of a block is taken for the end of it.
ClaimAllButLast(p) ==
  LET b == pblock[p] IN
  /\ ppc[p] = "claim"
  /\ write' = [write EXCEPT ![b] = @ + 1]
  /\ pindex' = [pindex EXCEPT ![p] = write[b]]
  /\ IF write[b] < BLOCK_SIZE - 1
     THEN /\ PGoto(p, "commit")
          /\ sent' = [sent EXCEPT ![p] = Append(@, <<b, write[b]>>)]
     ELSE /\ PGoto(p, "link")
          /\ UNCHANGED sent
  /\ UNCHANGED <<next, committed, tail, pblock>>

\* ... claim a slot of that block ...
ClaimSlot(p) ==
  LET b == pblock[p] IN
  /\ ppc[p] = "claim"
  /\ write' = [write EXCEPT ![b] = @ + 1]
  /\ pindex' = [pindex EXCEPT ![p] = write[b]]
  /\ IF write[b] < BLOCK_SIZE
     THEN /\ PGoto(p, "commit")
          /\ sent' = [sent EXCEPT ![p] = Append(@, <<b, write[b]>>)]
     ELSE /\ PGoto(p, "link")
          /\ UNCHANGED sent
  /\ UNCHANGED <<next, committed, tail, pblock>>

\* Mutant: the item goes to the tail's block as it is now.
CommitToTail(p) ==
  /\ ppc[p] = "commit"
  /\ committed' = [committed EXCEPT ![tail][pindex[p]] = TRUE]
  /\ PLeave(p, "idle")
  /\ UNCHANGED <<write, next, tail, sent>>

\* ... construct the item in it and publish it;
Commit(p) ==
  /\ ppc[p] = "commit"
  /\ committed' = [committed EXCEPT ![pblock[p]][pindex[p]] = TRUE]
  /\ PLeave(p, "idle")
  /\ UNCHANGED <<write, next, tail, sent>>

\* or link_next_block, where only the first compare-exchange succeeds, ...
LinkNextBlock(p) ==
  LET b == pblock[p] IN
  /\ ppc[p] = "link"
  /\ next' = [next EXCEPT ![b] = IF @ = NoBlock THEN b + 1 ELSE @]
  /\ PGoto(p, "advance")
  /\ UNCHANGED <<write, committed, tail, pblock, pindex, sent>>

\* Mutant: the compare-exchange is tried until it succeeds.
AwaitTail(p) ==
  LET b == pblock[p] IN
  /\ ppc[p] = "advance"
  /\ tail = b
  /\ tail' = next[b]
  /\ PLeave(p, "retry")
  /\ UNCHANGED <<write, next, committed, sent>>

\* ... and advance_tail, whose compare-exchange gives up when tail has moved.
AdvanceTail(p) ==
  LET b == pblock[p] IN
  /\ ppc[p] = "advance"
  /\ tail' = IF tail = b THEN next[b] ELSE tail
  /\ PLeave(p, "retry")
  /\ UNCHANGED <<write, next, committed, sent>>

ProducerStep(p) ==
  LoadTail(p) \/ ClaimSlot(p) \/ Commit(p) \/ LinkNextBlock(p) \/ AdvanceTail(p)

ProducerTypeOK ==
  /\ write \in [Blocks -> Nat]
  /\ next \in [Blocks -> Blocks \cup {NoBlock}]
  /\ committed \in [Blocks -> [Slots -> BOOLEAN]]
  /\ tail \in Blocks
  /\ ppc \in [Producers -> {"idle", "retry", "claim", "commit", "link", "advance"}]
  /\ pblock \in [Producers -> Blocks \cup {NoBlock}]
  /\ pindex \in [Producers -> Nat]
  /\ sent \in [Producers -> Seq(Blocks \X Slots)]

-----------------------------------------------------------------------------
published(b) == IF write[b] < BLOCK_SIZE THEN write[b] ELSE BLOCK_SIZE
Claimed == UNION {ToSet(sent[p]) : p \in Producers}
\* The blocks that a walk along next from block b comes to.
From(b) == {c \in Blocks : c >= b /\ \A d \in b .. c - 1 : next[d] # NoBlock}

\* A slot belongs to one producer for ever: an item is never constructed over
\* another one, whatever blocks the producers hold.
SlotOwnedOnce ==
  /\ \A p, q \in Producers : p # q => ToSet(sent[p]) \cap ToSet(sent[q]) = {}
  /\ \A p \in Producers : IsInjective(sent[p])
  /\ \A b \in Blocks, i \in Slots : committed[b][i] => <<b, i>> \in Claimed

\* A block has a successor only when all its slots are claimed: nobody writes
\* into a block behind one in use, however late a producer read the tail.
LinkedWhenFull ==
  \A b \in Blocks : next[b] # NoBlock => \A i \in Slots : <<b, i>> \in Claimed

\* A producer always gets its item in, however often others fill the blocks it
\* finds.
EnqueueEnds == \A p \in Producers : ppc[p] # "idle" ~> ppc[p] = "idle"
=============================================================================

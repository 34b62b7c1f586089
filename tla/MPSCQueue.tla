------------------------------ MODULE MPSCQueue ------------------------------
(***************************************************************************)
(* The multi-producer single-consumer queue of a pool with one thread: the *)
(* consumer owns head_block and the read indices, and retires a block when *)
(* it moves on to the next one.                                            *)
(***************************************************************************)
EXTENDS Blocks

VARIABLES
  read, head_block, graveyard,
  cpc, write_observed,      \* the consumer
  taken,                    \* history: the slots in the order they are read
  before                    \* history: the items waiting when the call began

consumerVars == <<read, head_block, graveyard, cpc, write_observed, taken, before>>
vars == <<producerVars, committed, consumerVars>>

Init ==
  /\ ProducerInit
  /\ read = [b \in Blocks |-> 0]
  /\ head_block = 1
  /\ graveyard = <<>>
  /\ cpc = "idle"
  /\ write_observed = 0
  /\ taken = <<>>
  /\ before = {}

\* The items in the queue that the consumer may still read.
Waiting == {s \in Blocks \X Slots : /\ committed[s[1]][s[2]] /\ s[2] >= read[s[1]]
                                     /\ s[1] \notin ToSet(graveyard)}

Return ==
  /\ cpc' = "idle"
  /\ write_observed' = 0
  /\ before' = {}

\* Mutant: the last published item is left where it is.
LoadWriteButOne ==
  /\ cpc \in {"idle", "again"}
  /\ write_observed' = write[head_block]
  /\ before' = IF cpc = "idle" THEN Waiting ELSE before
  /\ cpc' = IF read[head_block] + 1 < published(head_block) THEN "slot" ELSE "next"
  /\ UNCHANGED <<producerVars, committed, read, head_block, graveyard, taken>>

\* try_dequeue: load how far the head block is claimed ...
LoadWrite ==
  /\ cpc \in {"idle", "again"}
  /\ write_observed' = write[head_block]
  /\ before' = IF cpc = "idle" THEN Waiting ELSE before
  /\ cpc' = IF read[head_block] < published(head_block) THEN "slot" ELSE "next"
  /\ UNCHANGED <<producerVars, committed, read, head_block, graveyard, taken>>

\* Mutant: the read index stays where it is.
TakeSlotAgain ==
  /\ cpc = "slot"
  /\ committed[head_block][read[head_block]]
  /\ taken' = Append(taken, <<head_block, read[head_block]>>)
  /\ Return
  /\ UNCHANGED <<producerVars, committed, read, head_block, graveyard>>

\* ... wait until the next slot is committed and move its item out; the flag
\* stays set.
TakeSlot ==
  /\ cpc = "slot"
  /\ committed[head_block][read[head_block]]
  /\ taken' = Append(taken, <<head_block, read[head_block]>>)
  /\ read' = [read EXCEPT ![head_block] = @ + 1]
  /\ Return
  /\ UNCHANGED <<producerVars, committed, head_block, graveyard>>

\* Mutant: the consumer does not ask whether there is a next block.
MoveOnAnyway ==
  /\ cpc = "next"
  /\ head_block' = next[head_block]
  /\ graveyard' = Append(graveyard, head_block)
  /\ cpc' = "again"
  /\ write_observed' = 0
  /\ UNCHANGED <<producerVars, committed, read, taken, before>>

\* ... or, with nothing to read in the block, go on to the next one and
\* retire this one, ...
MoveOn ==
  /\ cpc = "next"
  /\ next[head_block] # NoBlock
  /\ head_block' = next[head_block]
  /\ graveyard' = Append(graveyard, head_block)
  /\ cpc' = "again"
  /\ write_observed' = 0
  /\ UNCHANGED <<producerVars, committed, read, taken, before>>

\* Mutant: a full block is taken for one that is being linked.
NoNextWhenFull ==
  /\ cpc = "next"
  /\ next[head_block] = NoBlock
  /\ cpc' = IF write_observed >= BLOCK_SIZE THEN "again" ELSE "empty"
  /\ UNCHANGED <<producerVars, committed, read, head_block, graveyard, write_observed, taken, before>>

\* ... wait for the producer that is linking one, or find the queue empty.
NoNext ==
  /\ cpc = "next"
  /\ next[head_block] = NoBlock
  /\ cpc' = IF write_observed > BLOCK_SIZE THEN "again" ELSE "empty"
  /\ UNCHANGED <<producerVars, committed, read, head_block, graveyard, write_observed, taken, before>>

ReturnEmpty ==
  /\ cpc = "empty"
  /\ Return
  /\ UNCHANGED <<producerVars, committed, read, head_block, graveyard, taken>>

ConsumerStep == LoadWrite \/ TakeSlot \/ MoveOn \/ NoNext \/ ReturnEmpty

\* Mutant of destroy_live_slots: the flags of the slots are believed.
destroy_flagged_slots(b) == {b} \X {i \in Slots : committed[b][i]}
\* The destructor: a block's slots from read to what is published are destroyed, and
\* the blocks from head_block on and of the graveyard are deleted.
destroy_live_slots(b) == {b} \X {i \in Slots : read[b] <= i /\ i < published(b)}
Destroyed == UNION {destroy_live_slots(b) : b \in From(head_block)}
Deleted == SetToSeq(From(head_block)) \o graveyard

\* enqueue, which is that of TaskQueue.
Enqueue(p) == ProducerStep(p) /\ UNCHANGED consumerVars

Next ==
  \/ \E p \in Producers : Enqueue(p)
  \/ ConsumerStep

Spec == Init /\ [][Next]_vars
\* Every thread runs on.
FairSpec ==
  /\ Spec
  /\ \A p \in Producers : WF_vars(Enqueue(p))
  /\ WF_vars(ConsumerStep)
-----------------------------------------------------------------------------
TypeOK ==
  /\ ProducerTypeOK
  /\ read \in [Blocks -> 0 .. BLOCK_SIZE]
  /\ head_block \in Blocks
  /\ graveyard \in Seq(Blocks)
  /\ cpc \in {"idle", "again", "slot", "next", "empty"}
  /\ write_observed \in Nat
  /\ taken \in Seq(Blocks \X Slots)
  /\ before \subseteq Blocks \X Slots

\* No item is read twice and none that was not enqueued, and the items of one
\* producer are read in the order it enqueued them.
ProducerOrder ==
  /\ IsInjective(taken)
  /\ \A p \in Producers : \A i, j \in 1 .. Len(taken) :
       \A m, n \in 1 .. Len(sent[p]) :
         taken[i] = sent[p][m] /\ taken[j] = sent[p][n] /\ i < j => m < n

\* try_dequeue returns false only if nothing was waiting when it was called,
\* save in a block it retired.
EmptyIsHonest == cpc = "empty" => before \cap Waiting = {}

\* Between calls the queue can be torn down: the destructor deletes every block once
\* and destroys every item nobody read once, and nothing that was not constructed
\* (MPSCQueue.hpp:77), but for those of a block that was retired with them.
TornDown ==
  (\A p \in Producers : ppc[p] = "idle") /\ cpc = "idle" =>
    /\ IsInjective(Deleted) /\ ToSet(Deleted) = From(1)
    /\ Destroyed = {s \in Claimed \ ToSet(taken) : s[1] \in From(head_block)}
    /\ \A s \in Destroyed : committed[s[1]][s[2]]

\* What the calls of try_dequeue return is a sequence the producers can have made:
\* their items in order, and nothing only when nothing was there; what they leave goes
\* with the queue.
DequeueIsRight == ProducerOrder /\ EmptyIsHonest /\ TornDown

\* The blocks keep their shape under any interleaving of enqueue and try_dequeue:
\* a block has no successor before it is full.
SlotsAndBlocks == TypeOK /\ LinkedWhenFull

\* Blocks go to the graveyard fully drained: their payloads are all read.
RetiredDrained ==
  \A b \in ToSet(graveyard) : \A i \in Slots : <<b, i>> \in ToSet(taken)

\* A call of try_dequeue returns.
DequeueEnds == cpc # "idle" ~> cpc = "idle"

\* Every call of enqueue and of try_dequeue returns, the one that spins on
\* a block being linked included.
CallsEnd == EnqueueEnds /\ DequeueEnds
=============================================================================

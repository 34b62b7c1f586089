------------------------------ MODULE TaskQueue ------------------------------
(***************************************************************************)
(* The multi-producer multi-consumer queue of a pool with several threads. *)
(* Consumers claim slots by a compare-exchange of the block's read index;  *)
(* the one that moves head past a block retires it to the graveyard.       *)
(***************************************************************************)
EXTENDS Blocks

CONSTANT Consumers

ASSUME ConsumerAssumption == IsFiniteSet(Consumers)

VARIABLES
  read, consumed,           \* Block::read and Block::consumed
  head, graveyard,
  cpc, loc,                 \* the consumers: counter and locals
  taken,                    \* history: the slots in the order they are claimed
  before                    \* history: the items waiting when a call began

queueVars == <<read, consumed, head, graveyard>>
consumerVars == <<queueVars, cpc, loc, taken, before>>
vars == <<producerVars, committed, consumerVars>>

\* The locals of try_dequeue: block, published, read_index and next.
NoLocals == [block |-> 1, published |-> 0, index |-> 0, next |-> NoBlock]

Init ==
  /\ ProducerInit
  /\ read = [b \in Blocks |-> 0]
  /\ consumed = [b \in Blocks |-> 0]
  /\ head = 1
  /\ graveyard = <<>>
  /\ cpc = [c \in Consumers |-> "idle"]
  /\ loc = [c \in Consumers |-> NoLocals]
  /\ taken = <<>>
  /\ before = [c \in Consumers |-> {}]

CGoto(c, l) == cpc' = [cpc EXCEPT ![c] = l]
\* Go on in the loop, or leave try_dequeue: the locals are gone.
Proceed(c, l) == CGoto(c, l) /\ UNCHANGED <<loc, before>>
Loop(c) == CGoto(c, "again") /\ loc' = [loc EXCEPT ![c] = NoLocals] /\ UNCHANGED before
Return(c) ==
  /\ CGoto(c, "idle")
  /\ loc' = [loc EXCEPT ![c] = NoLocals]
  /\ before' = [before EXCEPT ![c] = {}]

\* The items in the queue that a consumer may still claim.
Waiting == {s \in Blocks \X Slots : /\ committed[s[1]][s[2]] /\ s[2] >= read[s[1]]
                                     /\ s[1] \notin ToSet(graveyard)}

\* try_dequeue: load the head ...
LoadHead(c) ==
  /\ cpc[c] \in {"idle", "again"}
  /\ loc' = [loc EXCEPT ![c].block = head]
  /\ before' = IF cpc[c] = "idle" THEN [before EXCEPT ![c] = Waiting] ELSE before
  /\ CGoto(c, "write")
  /\ UNCHANGED <<producerVars, committed, queueVars, taken>>

\* Mutant: a write index past the end of the block is believed.
LoadUncappedWrite(c) ==
  /\ cpc[c] = "write"
  /\ loc' = [loc EXCEPT ![c].published = write[loc[c].block]]
  /\ CGoto(c, "read")
  /\ UNCHANGED <<producerVars, committed, queueVars, taken, before>>

\* ... how far its block is published ...
LoadWrite(c) ==
  /\ cpc[c] = "write"
  /\ loc' = [loc EXCEPT ![c].published = published(loc[c].block)]
  /\ CGoto(c, "read")
  /\ UNCHANGED <<producerVars, committed, queueVars, taken, before>>

\* ... and read.
LoadRead(c) ==
  /\ cpc[c] = "read"
  /\ loc' = [loc EXCEPT ![c].index = read[loc[c].block]]
  /\ CGoto(c, IF read[loc[c].block] >= loc[c].published THEN "consumed" ELSE "take")
  /\ UNCHANGED <<producerVars, committed, queueVars, taken, before>>

\* Nothing to read: wait for consumers that are not done with the block ...
LoadConsumed(c) ==
  /\ cpc[c] = "consumed"
  /\ IF consumed[loc[c].block] < loc[c].published THEN Loop(c) ELSE Proceed(c, "next")
  /\ UNCHANGED <<producerVars, committed, queueVars, taken>>

\* Mutant: the queue is taken for empty at the end of a block.
GiveUpAtBlockEnd(c) ==
  LET b == loc[c].block IN
  /\ cpc[c] = "next"
  /\ loc' = [loc EXCEPT ![c].next = next[b]]
  /\ CGoto(c, IF loc[c].published = 0 THEN "first" ELSE "empty")
  /\ UNCHANGED <<producerVars, committed, queueVars, taken, before>>

\* ... go on to the next block, or find the queue empty ...
LoadNext(c) ==
  LET b == loc[c].block IN
  /\ cpc[c] = "next"
  /\ loc' = [loc EXCEPT ![c].next = next[b]]
  /\ CGoto(c, CASE next[b] # NoBlock -> "head"
                [] next[b] = NoBlock /\ loc[c].published = 0 -> "first"
                [] next[b] = NoBlock /\ loc[c].published > 0 -> "empty")
  /\ UNCHANGED <<producerVars, committed, queueVars, taken, before>>

\* ... unless a producer has just claimed the first slot.
RecheckFirst(c) ==
  /\ cpc[c] = "first"
  /\ IF write[loc[c].block] > 0 THEN Loop(c) ELSE Proceed(c, "empty")
  /\ UNCHANGED <<producerVars, committed, queueVars, taken>>

\* try_dequeue returns false.
ReturnEmpty(c) ==
  /\ cpc[c] = "empty"
  /\ Return(c)
  /\ UNCHANGED <<producerVars, committed, queueVars, taken>>

\* Mutant: head is stored, not compared and exchanged.
StoreHead(c) ==
  head' = loc[c].next /\ graveyard' = Append(graveyard, loc[c].block)

\* The compare-exchange of head past block b; the winner retires the block.
PassHead(c) ==
  IF head = loc[c].block
  THEN head' = loc[c].next /\ graveyard' = Append(graveyard, loc[c].block)
  ELSE UNCHANGED <<head, graveyard>>

AdvanceHead(c) ==
  /\ cpc[c] = "head"
  /\ PassHead(c)
  /\ Loop(c)
  /\ UNCHANGED <<producerVars, committed, read, consumed, taken>>

\* Mutant: read is stored, not compared and exchanged.
StoreRead(c) ==
  LET b == loc[c].block IN
  /\ cpc[c] = "take"
  /\ read' = [read EXCEPT ![b] = loc[c].index + 1]
  /\ taken' = Append(taken, <<b, loc[c].index>>)
  /\ Proceed(c, "slot")
  /\ UNCHANGED <<producerVars, committed, consumed, head, graveyard>>

\* Claim a slot by moving the read index; a weak compare-exchange may also
\* fail for no reason.
ClaimRead(c) ==
  LET b == loc[c].block IN
  /\ cpc[c] = "take"
  /\ \/ /\ read[b] = loc[c].index
        /\ read' = [read EXCEPT ![b] = @ + 1]
        /\ taken' = Append(taken, <<b, loc[c].index>>)
        /\ Proceed(c, "slot")
     \/ /\ Loop(c)
        /\ UNCHANGED <<read, taken>>
  /\ UNCHANGED <<producerVars, committed, consumed, head, graveyard>>

\* Wait until the producer has committed the slot, move the item out.
TakeSlot(c) ==
  /\ cpc[c] = "slot"
  /\ committed[loc[c].block][loc[c].index]
  /\ committed' = [committed EXCEPT ![loc[c].block][loc[c].index] = FALSE]
  /\ Proceed(c, "count")
  /\ UNCHANGED <<producerVars, queueVars, taken>>

\* Count it; the consumer of the block's last item tries to reclaim the block.
CountConsumed(c) ==
  LET b == loc[c].block IN
  /\ cpc[c] = "count"
  /\ consumed' = [consumed EXCEPT ![b] = @ + 1]
  /\ IF consumed[b] + 1 = BLOCK_SIZE THEN Proceed(c, "reclaim") ELSE Return(c)
  /\ UNCHANGED <<producerVars, committed, read, head, graveyard, taken>>

\* try_reclaim_block: the block is the head, and has a successor.
ReclaimLoadHead(c) ==
  /\ cpc[c] = "reclaim"
  /\ IF head = loc[c].block THEN Proceed(c, "reclaim_next") ELSE Return(c)
  /\ UNCHANGED <<producerVars, committed, queueVars, taken>>

ReclaimLoadNext(c) ==
  /\ cpc[c] = "reclaim_next"
  /\ IF next[loc[c].block] # NoBlock
     THEN /\ loc' = [loc EXCEPT ![c].next = next[loc[c].block]]
          /\ CGoto(c, "reclaim_head")
          /\ UNCHANGED before
     ELSE Return(c)
  /\ UNCHANGED <<producerVars, committed, queueVars, taken>>

ReclaimAdvance(c) ==
  /\ cpc[c] = "reclaim_head"
  /\ PassHead(c)
  /\ Return(c)
  /\ UNCHANGED <<producerVars, committed, read, consumed, taken>>

\* A worker polls the queue as often as it likes.
ConsumerStep(c) ==
  \/ LoadHead(c) \/ LoadWrite(c) \/ LoadRead(c) \/ LoadConsumed(c) \/ LoadNext(c) \/ RecheckFirst(c)
  \/ ReturnEmpty(c) \/ AdvanceHead(c) \/ ClaimRead(c) \/ TakeSlot(c) \/ CountConsumed(c)
  \/ ReclaimLoadHead(c) \/ ReclaimLoadNext(c) \/ ReclaimAdvance(c)

\* Mutant of destroy_live_slots: what has been claimed is destroyed, taken or not.
destroy_claimed_slots(b) == {b} \X {i \in Slots : i < published(b)}
\* The destructor: the slots of a block that it destroys, the flag of a slot being
\* its truth, and the blocks that it deletes, from head on and of the graveyard.
destroy_live_slots(b) == {b} \X {i \in Slots : committed[b][i]}
Destroyed == UNION {destroy_live_slots(b) : b \in From(head)}
Deleted == SetToSeq(From(head)) \o graveyard

\* empty(), of a queue that nobody is using.
empty == \A b \in From(head) : read[b] >= published(b)

Next ==
  \/ \E p \in Producers : ProducerStep(p) /\ UNCHANGED consumerVars
  \/ \E c \in Consumers : ConsumerStep(c)

Spec == Init /\ [][Next]_vars
\* Every thread runs on; a weak compare-exchange does not fail for ever where
\* nobody interferes.
FairSpec ==
  /\ Spec
  /\ \A p \in Producers : WF_vars(ProducerStep(p) /\ UNCHANGED consumerVars)
  /\ \A c \in Consumers : WF_vars(ConsumerStep(c)) /\ SF_vars(ClaimRead(c) /\ taken' # taken)
-----------------------------------------------------------------------------
TypeOK ==
  /\ ProducerTypeOK
  /\ read \in [Blocks -> 0 .. BLOCK_SIZE]
  /\ consumed \in [Blocks -> 0 .. BLOCK_SIZE]
  /\ head \in Blocks
  /\ graveyard \in Seq(Blocks)
  /\ cpc \in [Consumers -> {"idle", "again", "write", "read", "consumed", "next", "first",
                            "empty", "head", "take", "slot", "count", "reclaim",
                            "reclaim_next", "reclaim_head"}]
  /\ loc \in [Consumers -> [block : Blocks, published : 0 .. BLOCK_SIZE,
                           index : 0 .. BLOCK_SIZE, next : Blocks \cup {NoBlock}]]
  /\ taken \in Seq(Blocks \X Slots)
  /\ before \in [Consumers -> SUBSET (Blocks \X Slots)]

\* No item is handed to two consumers, and none is taken that no producer put
\* there: a claimed slot is a slot some producer owns.
TakenOnce ==
  /\ IsInjective(taken)
  /\ ToSet(taken) \subseteq Claimed

\* A block is retired once, although two paths retire blocks, and it is never
\* the one head points to: the destructor deletes each block once.
RetiredOnce ==
  /\ IsInjective(graveyard)
  /\ head \notin ToSet(graveyard)

\* Between calls the queue can be asked and torn down: the destructor deletes every
\* block once and destroys every item nobody took once, and empty() says whether
\* there is one (TaskQueue.hpp:81,210); but for the items of a block that was
\* retired with them.
TornDown ==
  (\A p \in Producers : ppc[p] = "idle") /\ (\A c \in Consumers : cpc[c] = "idle") =>
    /\ IsInjective(Deleted) /\ ToSet(Deleted) = From(1)
    /\ Destroyed = {s \in Claimed \ ToSet(taken) : s[1] \in From(head)}
    /\ empty <=> Destroyed = {}

\* A block that is retired or torn down is so once, with what is in it.
BlocksEnd == RetiredOnce /\ TornDown

\* The blocks keep their shape under any interleaving of enqueue and try_dequeue:
\* a slot has one owner and a block no successor before it is full.
SlotsAndBlocks == TypeOK /\ SlotOwnedOnce /\ LinkedWhenFull

\* try_dequeue returns false only if every item that was waiting when it was
\* called has been claimed, or its block retired, meanwhile.
EmptyIsHonest ==
  \A c \in Consumers : cpc[c] = "empty" => before[c] \cap Waiting = {}

\* Blocks go to the graveyard fully drained.
RetiredDrained ==
  \A b \in ToSet(graveyard) : \A i \in Slots : <<b, i>> \in ToSet(taken)

\* The items of one producer are claimed in the order it enqueued them.
ProducerOrder ==
  \A p \in Producers : \A i, j \in 1 .. Len(taken) :
    \A m, n \in 1 .. Len(sent[p]) :
      taken[i] = sent[p][m] /\ taken[j] = sent[p][n] /\ i < j => m < n

\* A call of try_dequeue returns: the spins on consumed, on a first slot and
\* on committed all wait for a thread that can run.
DequeueEnds == \A c \in Consumers : cpc[c] # "idle" ~> cpc[c] = "idle"
=============================================================================

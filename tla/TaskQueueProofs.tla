-------------------------- MODULE TaskQueueProofs --------------------------
(***************************************************************************)
(* Proofs about TaskQueue, for any producers, consumers, items and block   *)
(* sizes: what its consumers do to one another and to the blocks.          *)
(***************************************************************************)
EXTENDS TaskQueue, BlocksProofs

-----------------------------------------------------------------------------
(* The inductive invariant, in named parts.                                *)

\* Consumer c has claimed slot i of block b and has not yet taken the item out
\* of it (Taking), or not yet counted it (Holding).
At(c, b, i) == loc[c].block = b /\ loc[c].index = i
Taking(c, b, i) == cpc[c] = "slot" /\ At(c, b, i)
Holders(b) == {c \in Consumers : cpc[c] \in {"slot", "count"} /\ loc[c].block = b}

\* The claims are the slots below read, each once, and none is ahead of write.
ReadOK ==
  /\ \A k \in 1 .. Len(taken) :
       taken[k] \in Blocks \X Slots /\ taken[k][2] < read[taken[k][1]]
  /\ \A b \in Blocks, i \in Slots : i < read[b] =>
       \E k \in 1 .. Len(taken) : taken[k] = <<b, i>>
  /\ \A k, l \in 1 .. Len(taken) : taken[k] = taken[l] => k = l
  /\ \A b \in Blocks : read[b] <= write[b]

\* The graveyard is the blocks before head, in their order.
HeadOK ==
  /\ \A b \in Blocks : b < head => next[b] # NoBlock
  /\ Len(graveyard) = head - 1
  /\ \A k \in 1 .. Len(graveyard) : graveyard[k] = k

\* What a consumer has read was true when it read it, and what matters of it
\* still is.
LocalsOK ==
  \A c \in Consumers :
    /\ loc[c].block <= head
    /\ cpc[c] \in {"idle", "again"} => loc[c].published = 0
    /\ loc[c].published <= write[loc[c].block]
    /\ cpc[c] = "take" => loc[c].index < loc[c].published
    /\ cpc[c] \in {"slot", "count"} => loc[c].index < read[loc[c].block]
    /\ cpc[c] \in {"head", "reclaim_head"} =>
         loc[c].next # NoBlock /\ next[loc[c].block] = loc[c].next

\* Two consumers do not hold the same slot.
OwnersOK ==
  \A c, d \in Consumers :
    /\ cpc[c] \in {"slot", "count"} /\ cpc[d] \in {"slot", "count"}
    /\ loc[c].block = loc[d].block /\ loc[c].index = loc[d].index
    => c = d

\* A claimed slot whose item is there, or still to come, has a consumer that
\* takes it out; one without an item is claimed or waits for its producer.
MarksOK ==
  /\ \A b \in Blocks, i \in Slots :
       i < read[b] /\ (committed[b][i] \/ \E p \in Producers : Publishing(p, b, i)) =>
         \E c \in Consumers : Taking(c, b, i)
  /\ \A b \in Blocks, i \in Slots :
       i < write[b] /\ ~committed[b][i] =>
         i < read[b] \/ \E p \in Producers : Publishing(p, b, i)

\* Every claimed slot is counted as consumed, or held.
CountOK == \A b \in Blocks : consumed[b] + Cardinality(Holders(b)) = read[b]

\* What was waiting when a call began is behind what the call has seen.
BeforeOK ==
  \A c \in Consumers :
    /\ \A s \in before[c] : s \in Blocks \X Slots /\ s[2] < write[s[1]]
    /\ cpc[c] \in {"read", "consumed", "next", "first", "empty"} =>
         \A s \in before[c] : s[1] = loc[c].block => s[2] < loc[c].published
    /\ cpc[c] \in {"consumed", "next", "first", "empty"} =>
         loc[c].published <= read[loc[c].block]
    /\ cpc[c] \in {"first", "empty"} =>
         \A s \in before[c] : s[1] <= loc[c].block

Inv ==
  /\ TypeOK /\ ProducerInv
  /\ ReadOK /\ HeadOK /\ LocalsOK /\ OwnersOK /\ MarksOK /\ CountOK /\ BeforeOK

-----------------------------------------------------------------------------
(* What a consumer's step touches.                                         *)

LEMMA ConsumerEffect ==
  ASSUME TypeOK, NEW c \in Consumers, ConsumerStep(c)
  PROVE  /\ UNCHANGED producerVars
         /\ UNCHANGED committed \/ TakeSlot(c)
         /\ UNCHANGED <<read, taken>> \/ ClaimRead(c)
         /\ UNCHANGED consumed \/ CountConsumed(c)
         /\ UNCHANGED <<head, graveyard>> \/ AdvanceHead(c) \/ ReclaimAdvance(c)
         /\ \A d \in Consumers : d # c => /\ cpc'[d] = cpc[d]
                                          /\ loc'[d] = loc[d]
                                          /\ before'[d] = before[d]
<1> USE DEF TypeOK, queueVars, CGoto, Proceed, Loop, Return
<1>1. CASE LoadHead(c) BY <1>1 DEF LoadHead
<1>2. CASE LoadWrite(c) BY <1>2 DEF LoadWrite
<1>3. CASE LoadRead(c) BY <1>3 DEF LoadRead
<1>4. CASE LoadConsumed(c) BY <1>4 DEF LoadConsumed
<1>5. CASE LoadNext(c) BY <1>5 DEF LoadNext
<1>6. CASE RecheckFirst(c) BY <1>6 DEF RecheckFirst
<1>7. CASE ReturnEmpty(c) BY <1>7 DEF ReturnEmpty
<1>8. CASE AdvanceHead(c) BY <1>8 DEF AdvanceHead
<1>9. CASE ClaimRead(c) BY <1>9 DEF ClaimRead
<1>10. CASE TakeSlot(c) BY <1>10 DEF TakeSlot
<1>11. CASE CountConsumed(c) BY <1>11 DEF CountConsumed
<1>12. CASE ReclaimLoadHead(c) BY <1>12 DEF ReclaimLoadHead
<1>13. CASE ReclaimLoadNext(c) BY <1>13 DEF ReclaimLoadNext
<1>14. CASE ReclaimAdvance(c) BY <1>14 DEF ReclaimAdvance
<1> QED BY <1>1, <1>2, <1>3, <1>4, <1>5, <1>6, <1>7, <1>8, <1>9, <1>10, <1>11, <1>12, <1>13, <1>14
        DEF ConsumerStep

\* A consumer only takes back the mark of the slot it takes the item out of.
LEMMA ConsumerUnmarks ==
  ASSUME Inv, NEW c \in Consumers, ConsumerStep(c)
  PROVE  ProducerInv'
<1> USE DEF Inv
<1>1. UNCHANGED producerVars /\ (UNCHANGED committed \/ TakeSlot(c))
  BY ConsumerEffect
<1>2. /\ committed' \in [Blocks -> [Slots -> BOOLEAN]]
      /\ \A b \in Blocks, i \in Slots : committed'[b][i] => committed[b][i]
  <2>1. CASE UNCHANGED committed
    BY <2>1 DEF ProducerInv, ProducerTypeOK
  <2>2. CASE TakeSlot(c)
    <3>1. loc[c].block \in Blocks
      BY DEF TypeOK
    <3>2. committed' = [committed EXCEPT ![loc[c].block][loc[c].index] = FALSE]
      BY <2>2 DEF TakeSlot
    <3> QED BY <3>1, <3>2 DEF ProducerInv, ProducerTypeOK
  <2> QED BY <1>1, <2>1, <2>2
<1> QED BY <1>1, <1>2, ConsumersLeave

\* What is published of a block.
LEMMA PublishedBound ==
  ASSUME ProducerTypeOK, NEW b \in Blocks
  PROVE  /\ published(b) \in 0 .. BLOCK_SIZE /\ published(b) <= write[b]
         /\ \A i \in Slots : i < write[b] <=> i < published(b)
  BY Sizes DEF published, ProducerTypeOK, Slots

\* The locals are numbers that index what they index.
LEMMA LocalTypes ==
  ASSUME TypeOK, NEW c \in Consumers
  PROVE  /\ loc[c].block \in Blocks /\ loc[c].block \in Nat
         /\ loc[c].published \in 0 .. BLOCK_SIZE /\ loc[c].published \in Nat
         /\ loc[c].index \in 0 .. BLOCK_SIZE /\ loc[c].index \in Nat
         /\ write[loc[c].block] \in Nat
         /\ read[loc[c].block] \in 0 .. BLOCK_SIZE /\ read[loc[c].block] \in Nat
<1>1. /\ loc[c].block \in Blocks
      /\ loc[c].published \in 0 .. BLOCK_SIZE /\ loc[c].index \in 0 .. BLOCK_SIZE
  BY DEF TypeOK
<1>2. \A b \in Blocks : write[b] \in Nat /\ read[b] \in 0 .. BLOCK_SIZE
  BY DEF TypeOK, ProducerTypeOK
<1>3. 0 .. BLOCK_SIZE \subseteq Nat /\ Blocks \subseteq Nat
  BY Sizes
<1> QED BY <1>1, <1>2, <1>3

-----------------------------------------------------------------------------
(* Types.                                                                  *)

LEMMA TypeNext ==
  ASSUME Inv, NEW c \in Consumers, ConsumerStep(c)
  PROVE  TypeOK'
<1> DEFINE b == loc[c].block
           Labels == {"idle", "again", "write", "read", "consumed", "next", "first",
                      "empty", "head", "take", "slot", "count", "reclaim",
                      "reclaim_next", "reclaim_head"}
           Locals == [block : Blocks, published : 0 .. BLOCK_SIZE,
                      index : 0 .. BLOCK_SIZE, next : Blocks \cup {NoBlock}]
<1> USE DEF queueVars, CGoto, Proceed, Loop, Return
<1>1. TypeOK /\ ProducerTypeOK /\ ProducerTypeOK'
  BY ConsumerUnmarks DEF Inv, ProducerInv
<1>2. /\ cpc \in [Consumers -> Labels] /\ loc \in [Consumers -> Locals]
      /\ before \in [Consumers -> SUBSET (Blocks \X Slots)]
      /\ read \in [Blocks -> 0 .. BLOCK_SIZE] /\ consumed \in [Blocks -> 0 .. BLOCK_SIZE]
      /\ head \in Blocks /\ graveyard \in Seq(Blocks) /\ taken \in Seq(Blocks \X Slots)
      /\ next \in [Blocks -> Blocks \cup {NoBlock}]
  BY <1>1 DEF TypeOK, ProducerTypeOK
<1>3. cpc' \in [Consumers -> Labels]
  <2>1. \E l \in Labels : cpc' = [cpc EXCEPT ![c] = l]
    <3>1. CASE LoadRead(c) BY <3>1 DEF LoadRead
    <3>2. CASE LoadConsumed(c) BY <3>2 DEF LoadConsumed
    <3>3. CASE LoadNext(c)
      <4> DEFINE l == CASE next[b] # NoBlock -> "head"
                        [] next[b] = NoBlock /\ loc[c].published = 0 -> "first"
                        [] next[b] = NoBlock /\ loc[c].published > 0 -> "empty"
      <4>1. loc[c].published \in 0 .. BLOCK_SIZE
        BY <1>2
      <4>2. l \in Labels
        BY <4>1, Sizes
      <4>3. cpc' = [cpc EXCEPT ![c] = l]
        BY <3>3 DEF LoadNext
      <4> QED BY <4>2, <4>3
    <3>4. CASE RecheckFirst(c) BY <3>4 DEF RecheckFirst
    <3>5. CASE ClaimRead(c) BY <3>5 DEF ClaimRead
    <3>6. CASE CountConsumed(c) BY <3>6 DEF CountConsumed
    <3>7. CASE ReclaimLoadHead(c) \/ ReclaimLoadNext(c)
      BY <3>7 DEF ReclaimLoadHead, ReclaimLoadNext
    <3>8. CASE LoadHead(c) \/ LoadWrite(c) \/ ReturnEmpty(c) \/ AdvanceHead(c) \/ TakeSlot(c) \/ ReclaimAdvance(c)
      BY <3>8 DEF LoadHead, LoadWrite, ReturnEmpty, AdvanceHead, TakeSlot, ReclaimAdvance
    <3> QED BY <3>1, <3>2, <3>3, <3>4, <3>5, <3>6, <3>7, <3>8 DEF ConsumerStep
  <2> HIDE DEF Labels
  <2> QED BY <1>2, <2>1
<1>4. b \in Blocks /\ loc[c] \in Locals /\ NoLocals \in Locals
  BY <1>2, Sizes DEF NoLocals
<1>5. loc' \in [Consumers -> Locals]
  <2>1. /\ [loc[c] EXCEPT !.block = head] \in Locals
        /\ [loc[c] EXCEPT !.published = published(b)] \in Locals
        /\ [loc[c] EXCEPT !.index = read[b]] \in Locals
        /\ [loc[c] EXCEPT !.next = next[b]] \in Locals
    BY <1>1, <1>2, <1>4, PublishedBound
  <2>2. \E r \in Locals : loc' = [loc EXCEPT ![c] = r]
    <3>1. CASE LoadHead(c) BY <3>1, <2>1, <1>2 DEF LoadHead
    <3>2. CASE LoadWrite(c) BY <3>2, <2>1, <1>2 DEF LoadWrite
    <3>3. CASE LoadRead(c) BY <3>3, <2>1, <1>2 DEF LoadRead
    <3>4. CASE LoadNext(c) BY <3>4, <2>1, <1>2 DEF LoadNext
    <3>5. CASE ReclaimLoadNext(c)
      BY <3>5, <2>1, <1>2, <1>4 DEF ReclaimLoadNext
    <3>6. CASE UNCHANGED loc \/ loc' = [loc EXCEPT ![c] = NoLocals]
      BY <3>6, <1>2, <1>4
    <3> HIDE DEF Locals
    <3> QED BY <3>1, <3>2, <3>3, <3>4, <3>5, <3>6
      DEF ConsumerStep, LoadConsumed, RecheckFirst, ReturnEmpty, AdvanceHead, ClaimRead, TakeSlot,
          CountConsumed, ReclaimLoadHead, ReclaimAdvance
  <2> HIDE DEF Locals
  <2> QED BY <1>2, <2>2
<1>6. before' \in [Consumers -> SUBSET (Blocks \X Slots)]
  <2>1. Waiting \in SUBSET (Blocks \X Slots) /\ {} \in SUBSET (Blocks \X Slots)
    BY DEF Waiting
  <2>2. \/ UNCHANGED before
        \/ before' = [before EXCEPT ![c] = Waiting]
        \/ before' = [before EXCEPT ![c] = {}]
    BY DEF ConsumerStep, LoadHead, LoadWrite, LoadRead, LoadConsumed, LoadNext, RecheckFirst,
           ReturnEmpty, AdvanceHead, ClaimRead, TakeSlot, CountConsumed, ReclaimLoadHead,
           ReclaimLoadNext, ReclaimAdvance
  <2> QED BY <1>2, <2>1, <2>2
<1>7. read' \in [Blocks -> 0 .. BLOCK_SIZE] /\ taken' \in Seq(Blocks \X Slots)
  <2>1. CASE ClaimRead(c)
    <3>1. /\ loc[c].index < loc[c].published /\ loc[c].published \in 0 .. BLOCK_SIZE
          /\ loc[c].index \in 0 .. BLOCK_SIZE
      BY <1>4, <2>1 DEF ClaimRead, Inv, LocalsOK
    <3>2. loc[c].index + 1 \in 0 .. BLOCK_SIZE /\ loc[c].index \in Slots
      BY <3>1, Sizes DEF Slots
    <3>3. <<b, loc[c].index>> \in Blocks \X Slots
      BY <3>2, <1>4
    <3>4. Append(taken, <<b, loc[c].index>>) \in Seq(Blocks \X Slots)
      BY <3>3, <1>2
    <3>5. \/ /\ read[b] = loc[c].index /\ read' = [read EXCEPT ![b] = @ + 1]
             /\ taken' = Append(taken, <<b, loc[c].index>>)
          \/ UNCHANGED <<read, taken>>
      BY <2>1 DEF ClaimRead
    <3>6. read' \in [Blocks -> 0 .. BLOCK_SIZE]
      <4>1. \/ read[b] + 1 \in 0 .. BLOCK_SIZE /\ read' = [read EXCEPT ![b] = read[b] + 1]
            \/ UNCHANGED read
        BY <3>2, <3>5
      <4> HIDE DEF b
      <4> QED BY <4>1, <1>2
    <3>7. taken' \in Seq(Blocks \X Slots)
      BY <3>4, <3>5, <1>2
    <3> QED BY <3>6, <3>7
  <2>2. CASE UNCHANGED <<read, taken>>
    BY <2>2, <1>2
  <2> QED BY <1>1, <2>1, <2>2, ConsumerEffect
<1>8. consumed' \in [Blocks -> 0 .. BLOCK_SIZE]
  <2>1. CASE CountConsumed(c)
    <3>1. IsFiniteSet(Holders(b)) /\ c \in Holders(b)
      <4>1. Holders(b) \subseteq Consumers /\ c \in Holders(b)
        BY <2>1 DEF Holders, CountConsumed
      <4> QED BY <4>1, ConsumerAssumption, FS_Subset
    <3>2. Cardinality(Holders(b)) \in Nat /\ Cardinality(Holders(b)) # 0
      BY <3>1, FS_CardinalityType, FS_EmptySet
    <3>3. /\ consumed[b] + Cardinality(Holders(b)) = read[b]
          /\ read[b] \in 0 .. BLOCK_SIZE /\ consumed[b] \in 0 .. BLOCK_SIZE
      BY <1>2, <1>4 DEF Inv, CountOK
    <3>4. consumed[b] + 1 \in 0 .. BLOCK_SIZE
      BY <3>2, <3>3, Sizes
    <3>5. consumed' = [consumed EXCEPT ![b] = consumed[b] + 1]
      BY <2>1 DEF CountConsumed
    <3> QED BY <3>4, <3>5, <1>2
  <2>2. CASE UNCHANGED consumed
    BY <2>2, <1>2
  <2> QED BY <1>1, <2>1, <2>2, ConsumerEffect
<1>9. head' \in Blocks /\ graveyard' \in Seq(Blocks)
  <2>1. CASE AdvanceHead(c) \/ ReclaimAdvance(c)
    <3>1. loc[c].next \in Blocks
      BY <2>1, <1>4 DEF AdvanceHead, ReclaimAdvance, Inv, LocalsOK
    <3>2. Append(graveyard, b) \in Seq(Blocks)
      BY <1>2, <1>4
    <3> QED BY <2>1, <3>1, <3>2, <1>2 DEF AdvanceHead, ReclaimAdvance, PassHead
  <2>2. CASE UNCHANGED <<head, graveyard>>
    BY <2>2, <1>2
  <2> QED BY <1>1, <2>1, <2>2, ConsumerEffect
<1> QED BY <1>1, <1>3, <1>5, <1>6, <1>7, <1>8, <1>9 DEF TypeOK

-----------------------------------------------------------------------------
(* The claims.                                                             *)

\* A claim: consumer c moves read past slot i of block b, which is published.
Claims(c, b, i) ==
  /\ b \in Blocks /\ i \in Slots /\ i < write[b] /\ At(c, b, i)
  /\ read[b] = i /\ read' = [read EXCEPT ![b] = i + 1]
  /\ taken' = Append(taken, <<b, i>>)
  /\ cpc[c] = "take" /\ cpc' = [cpc EXCEPT ![c] = "slot"] /\ UNCHANGED loc

LEMMA ClaimReadClaims ==
  ASSUME Inv, NEW c \in Consumers, ClaimRead(c)
  PROVE  \/ Claims(c, loc[c].block, loc[c].index)
         \/ /\ UNCHANGED <<read, taken>>
            /\ cpc[c] = "take" /\ cpc' = [cpc EXCEPT ![c] = "again"]
<1> DEFINE b == loc[c].block
           i == loc[c].index
<1>1. /\ b \in Blocks /\ i \in 0 .. BLOCK_SIZE /\ loc[c].published \in 0 .. BLOCK_SIZE
      /\ write[b] \in Nat
  BY DEF Inv, TypeOK, ProducerTypeOK
<1>2. i < loc[c].published /\ loc[c].published <= write[b]
  BY DEF Inv, LocalsOK, ClaimRead
<1>3. i \in Slots /\ i < write[b]
  BY <1>1, <1>2, Sizes DEF Slots
<1> QED BY <1>1, <1>3 DEF Claims, At, ClaimRead, Proceed, Loop, CGoto

\* Only three steps have to do with the slots that consumers hold.
LEMMA HoldEffect ==
  ASSUME TypeOK, NEW c \in Consumers, ConsumerStep(c)
  PROVE  \/ ClaimRead(c) \/ TakeSlot(c) \/ CountConsumed(c)
         \/ /\ cpc[c] \notin {"slot", "count"} /\ cpc'[c] \notin {"slot", "count"}
            /\ UNCHANGED <<read, taken, committed, consumed>>
<1> USE DEF TypeOK, queueVars, CGoto, Proceed, Loop, Return
<1>1. CASE LoadHead(c) BY <1>1 DEF LoadHead
<1>2. CASE LoadWrite(c) BY <1>2 DEF LoadWrite
<1>3. CASE LoadRead(c) BY <1>3 DEF LoadRead
<1>4. CASE LoadConsumed(c) BY <1>4 DEF LoadConsumed
<1>5. CASE LoadNext(c)
  <2>1. loc[c].published \in 0 .. BLOCK_SIZE
    OBVIOUS
  <2>2. cpc'[c] \in {"head", "first", "empty"}
    BY <1>5, <2>1, Sizes, SMTT(30) DEF LoadNext
  <2> QED BY <1>5, <2>2 DEF LoadNext
<1>6. CASE RecheckFirst(c) BY <1>6 DEF RecheckFirst
<1>7. CASE ReturnEmpty(c) BY <1>7 DEF ReturnEmpty
<1>8. CASE AdvanceHead(c) BY <1>8 DEF AdvanceHead
<1>9. CASE ReclaimLoadHead(c) BY <1>9 DEF ReclaimLoadHead
<1>10. CASE ReclaimLoadNext(c) BY <1>10 DEF ReclaimLoadNext
<1>11. CASE ReclaimAdvance(c) BY <1>11 DEF ReclaimAdvance
<1> QED BY <1>1, <1>2, <1>3, <1>4, <1>5, <1>6, <1>7, <1>8, <1>9, <1>10, <1>11 DEF ConsumerStep

LEMMA ReadNext ==
  ASSUME Inv, NEW c \in Consumers, ConsumerStep(c)
  PROVE  ReadOK'
<1>1. /\ UNCHANGED write /\ write \in [Blocks -> Nat]
      /\ read \in [Blocks -> 0 .. BLOCK_SIZE] /\ taken \in Seq(Blocks \X Slots)
  BY ConsumerEffect DEF Inv, TypeOK, ProducerTypeOK, producerVars
<1>2. CASE UNCHANGED <<read, taken>>
  BY <1>1, <1>2 DEF Inv, ReadOK
<1>3. ASSUME NEW b, NEW i, Claims(c, b, i) PROVE ReadOK'
  <2> DEFINE new == <<b, i>>
             n == Len(taken)
  <2>1. /\ b \in Blocks /\ i \in Slots /\ i \in Nat /\ i < write[b] /\ read[b] = i
        /\ read' = [read EXCEPT ![b] = i + 1] /\ taken' = Append(taken, new)
        /\ new \in Blocks \X Slots /\ new[1] = b /\ new[2] = i /\ n \in Nat
    BY <1>1, <1>3, Sizes DEF Claims
  <2>2. /\ Len(taken') = n + 1 /\ taken'[n + 1] = new /\ n + 1 \in 1 .. Len(taken')
        /\ \A k \in 1 .. n : taken'[k] = taken[k] /\ k \in 1 .. Len(taken')
    BY <1>1, <2>1
  <2>3. \A k \in 1 .. Len(taken') : k = n + 1 \/ k \in 1 .. n
    BY <2>1, <2>2
  <2>4. \A d \in Blocks : read[d] <= read'[d]
    BY <1>1, <2>1
  <2> HIDE DEF n, new
  <2>5. \A k \in 1 .. n :
          /\ taken[k] \in Blocks \X Slots /\ taken[k][2] < read'[taken[k][1]]
          /\ taken[k] # new
    <3> SUFFICES ASSUME NEW k \in 1 .. n PROVE <2>5!(k)
      OBVIOUS
    <3>1. taken[k] \in Blocks \X Slots /\ taken[k][2] < read[taken[k][1]]
      BY DEF Inv, ReadOK, n
    <3>2. taken[k][1] \in Blocks /\ taken[k][2] \in Nat
      BY <3>1, Sizes
    <3>3. \A d \in Blocks : read[d] \in Nat /\ read'[d] \in Nat
      BY <1>1, <2>1, Sizes
    <3>4. taken[k][2] < read'[taken[k][1]]
      BY <3>1, <3>2, <3>3, <2>4
    <3>5. taken[k] # new
      BY <3>1, <3>2, <2>1
    <3> QED BY <3>1, <3>4, <3>5
  <2>6. ASSUME NEW k \in 1 .. Len(taken')
        PROVE  taken'[k] \in Blocks \X Slots /\ taken'[k][2] < read'[taken'[k][1]]
    <3>1. i < read'[b]
      BY <1>1, <2>1
    <3>2. CASE k = n + 1
      BY <3>1, <3>2, <2>1, <2>2
    <3>3. CASE k \in 1 .. n
      BY <3>3, <2>2, <2>5
    <3> QED BY <3>2, <3>3, <2>3
  <2>7. ASSUME NEW d \in Blocks, NEW j \in Slots, j < read'[d]
        PROVE  \E k \in 1 .. Len(taken') : taken'[k] = <<d, j>>
    <3>1. CASE j < read[d]
      <4>1. PICK k \in 1 .. n : taken[k] = <<d, j>>
        BY <3>1 DEF Inv, ReadOK, n
      <4> QED BY <4>1, <2>2
    <3>2. CASE ~(j < read[d])
      <4>1. d = b /\ j = i
        BY <2>7, <3>2, <2>1, <1>1, Sizes
      <4> QED BY <4>1, <2>2 DEF new
    <3> QED BY <3>1, <3>2
  <2>8. ASSUME NEW k \in 1 .. Len(taken'), NEW l \in 1 .. Len(taken'), taken'[k] = taken'[l]
        PROVE  k = l
    <3>1. CASE k \in 1 .. n /\ l \in 1 .. n
      <4>1. taken[k] = taken[l]
        BY <2>8, <3>1, <2>2
      <4> QED BY <4>1, <3>1 DEF Inv, ReadOK, n
    <3>2. CASE k = n + 1 /\ l \in 1 .. n
      BY <3>2, <2>8, <2>2, <2>5
    <3>3. CASE l = n + 1 /\ k \in 1 .. n
      BY <3>3, <2>8, <2>2, <2>5
    <3> QED BY <3>1, <3>2, <3>3, <2>3
  <2>9. \A d \in Blocks : read'[d] <= write'[d]
    BY <1>1, <2>1 DEF Inv, ReadOK
  <2> QED BY <2>6, <2>7, <2>8, <2>9 DEF ReadOK
<1>4. TypeOK
  BY DEF Inv
<1> QED BY <1>2, <1>3, <1>4, ConsumerEffect, ClaimReadClaims

-----------------------------------------------------------------------------
(* Head, locals and owners.                                                *)

\* Who moves head moves it by one block, and retires the block it was at.
LEMMA HeadEffect ==
  ASSUME Inv, NEW c \in Consumers, ConsumerStep(c)
  PROVE  \/ UNCHANGED <<head, graveyard>>
         \/ /\ head' = head + 1 /\ next[head] # NoBlock
            /\ graveyard' = Append(graveyard, head)
<1> DEFINE b == loc[c].block
<1>1. CASE AdvanceHead(c) \/ ReclaimAdvance(c)
  <2>1. /\ b \in Blocks /\ loc[c].next # NoBlock /\ next[b] = loc[c].next
        /\ (head = b /\ head' = loc[c].next /\ graveyard' = Append(graveyard, b))
           \/ UNCHANGED <<head, graveyard>>
    BY <1>1 DEF AdvanceHead, ReclaimAdvance, PassHead, Inv, TypeOK, LocalsOK
  <2>2. next[b] = b + 1
    BY <2>1 DEF Inv, ProducerInv, Chained
  <2> QED BY <2>1, <2>2
<1>2. CASE ~(AdvanceHead(c) \/ ReclaimAdvance(c))
  BY <1>2, ConsumerEffect DEF Inv
<1> QED BY <1>1, <1>2

LEMMA HeadNext ==
  ASSUME Inv, NEW c \in Consumers, ConsumerStep(c)
  PROVE  HeadOK'
<1>1. UNCHANGED next /\ head \in Blocks /\ graveyard \in Seq(Blocks)
  BY ConsumerEffect DEF Inv, TypeOK, producerVars
<1>2. CASE UNCHANGED <<head, graveyard>>
  BY <1>1, <1>2 DEF Inv, HeadOK
<1>3. CASE /\ head' = head + 1 /\ next[head] # NoBlock
           /\ graveyard' = Append(graveyard, head)
  <2>1. Len(graveyard) = head - 1 /\ \A k \in 1 .. Len(graveyard) : graveyard[k] = k
    BY DEF Inv, HeadOK
  <2>2. \A d \in Blocks : d < head' => next[d] # NoBlock
    BY <1>1, <1>3, Sizes DEF Inv, HeadOK
  <2>3. Len(graveyard') = Len(graveyard) + 1 /\ graveyard'[Len(graveyard) + 1] = head
        /\ \A k \in 1 .. Len(graveyard) : graveyard'[k] = graveyard[k]
    BY <1>1, <1>3
  <2>4. head \in Nat
    BY <1>1, Sizes
  <2>5. \A k \in 1 .. Len(graveyard') : graveyard'[k] = k
    BY <2>1, <2>3, <2>4
  <2> QED BY <1>1, <1>3, <2>1, <2>2, <2>3, <2>4, <2>5 DEF HeadOK
<1> QED BY <1>2, <1>3, HeadEffect

\* What the consumers know of a block stays true when others go on.
LEMMA LocalsNext ==
  ASSUME Inv, NEW c \in Consumers, ConsumerStep(c)
  PROVE  LocalsOK'
<1> USE DEF queueVars, CGoto, Proceed, Loop, Return
<1>1. /\ UNCHANGED <<write, next>>
      /\ \A d \in Consumers : d # c => cpc'[d] = cpc[d] /\ loc'[d] = loc[d]
  BY ConsumerEffect DEF Inv, producerVars
<1>2. /\ cpc \in [Consumers -> {"idle", "again", "write", "read", "consumed", "next", "first",
                            "empty", "head", "take", "slot", "count", "reclaim",
                            "reclaim_next", "reclaim_head"}]
      /\ loc \in [Consumers -> [block : Blocks, published : 0 .. BLOCK_SIZE,
                           index : 0 .. BLOCK_SIZE, next : Blocks \cup {NoBlock}]]
      /\ read \in [Blocks -> 0 .. BLOCK_SIZE] /\ write \in [Blocks -> Nat]
      /\ head \in Blocks /\ ProducerTypeOK
  BY DEF Inv, TypeOK, ProducerTypeOK
<1>3. head \in Nat /\ head' \in Nat /\ head <= head'
  BY <1>2, HeadEffect, Sizes
<1>4. \A b \in Blocks : read[b] \in Nat /\ read'[b] \in Nat /\ read[b] <= read'[b]
  <2>1. 0 .. BLOCK_SIZE \subseteq Nat
    BY Sizes
  <2>2. CASE UNCHANGED read
    BY <2>1, <2>2, <1>2
  <2>3. ASSUME NEW b, NEW i, Claims(c, b, i)
        PROVE  \A d \in Blocks : read[d] \in Nat /\ read'[d] \in Nat /\ read[d] <= read'[d]
    <3>1. b \in Blocks /\ i \in Nat /\ read[b] = i /\ read' = [read EXCEPT ![b] = i + 1]
      BY <2>3, Sizes DEF Claims
    <3> QED BY <2>1, <3>1, <1>2
  <2> QED BY <2>2, <2>3, ConsumerEffect, ClaimReadClaims DEF Inv
<1>5. ASSUME NEW d \in Consumers, cpc'[d] = cpc[d], loc'[d] = loc[d] PROVE LocalsOK!(d)'
  <2>1. loc[d].block \in Blocks /\ loc[d].block \in Nat /\ loc[d].index \in Nat
    BY LocalTypes DEF Inv
  <2>2. LocalsOK!(d)
    BY DEF Inv, LocalsOK
  <2> QED BY <1>1, <1>3, <1>4, <1>5, <2>1, <2>2
<1> DEFINE b == loc[c].block
<1>6. /\ b \in Blocks /\ b \in Nat /\ loc[c].index \in Nat /\ loc[c].published \in Nat
      /\ write[b] \in Nat /\ read[b] \in Nat /\ loc[c].published \in 0 .. BLOCK_SIZE
  BY LocalTypes DEF Inv
<1>7. LocalsOK!(c)
  BY DEF Inv, LocalsOK
<1>8. ASSUME cpc'[c] \in {"idle", "again"}, loc'[c] = NoLocals PROVE LocalsOK!(c)'
  <2>1. 1 \in Blocks /\ 1 <= head' /\ 0 <= write'[1]
    BY <1>1, <1>2, <1>3, Sizes DEF Blocks
  <2> QED BY <1>8, <2>1 DEF NoLocals
\* The locals are what they were, and the step did not go where they matter.
<1>9. ASSUME loc'[c] = loc[c],
             cpc'[c] \in {"next", "empty", "reclaim", "reclaim_next", "count"},
             cpc'[c] = "count" => cpc[c] = "slot"
      PROVE  LocalsOK!(c)'
  BY <1>1, <1>3, <1>4, <1>6, <1>7, <1>9
<1>10. LocalsOK!(c)'
  <2>1. CASE LoadHead(c)
    <3>1. /\ cpc'[c] = "write" /\ loc'[c].block = head /\ loc'[c].published = loc[c].published
          /\ head' = head /\ cpc[c] \in {"idle", "again"}
      BY <2>1, <1>2 DEF LoadHead
    <3>2. write[head] \in Nat
      BY <1>2
    <3> QED BY <3>1, <3>2, <1>1, <1>2, <1>3, <1>7, Sizes
  <2>2. CASE LoadWrite(c)
    <3>1. cpc'[c] = "read" /\ loc'[c].block = b /\ loc'[c].published = published(b)
      BY <2>2, <1>2 DEF LoadWrite
    <3>2. published(b) <= write[b]
      BY <1>2, <1>6, PublishedBound
    <3> QED BY <3>1, <3>2, <1>1, <1>3, <1>6, <1>7
  <2>3. CASE LoadRead(c)
    <3>1. /\ loc'[c].block = b /\ loc'[c].published = loc[c].published /\ loc'[c].index = read[b]
          /\ cpc'[c] = "consumed" \/ (cpc'[c] = "take" /\ ~(read[b] >= loc[c].published))
      BY <2>3, <1>2 DEF LoadRead
    <3> QED BY <3>1, <1>1, <1>3, <1>6, <1>7
  <2>4. CASE LoadConsumed(c)
    BY <2>4, <1>2, <1>8, <1>9 DEF LoadConsumed
  <2>5. CASE LoadNext(c)
    <3>1. /\ loc'[c].block = b /\ loc'[c].published = loc[c].published /\ loc'[c].next = next[b]
          /\ cpc'[c] \in {"first", "empty"} \/ (cpc'[c] = "head" /\ next[b] # NoBlock)
      <4>1. /\ loc'[c] = [loc[c] EXCEPT !.next = next[b]]
            /\ cpc'[c] = CASE next[b] # NoBlock -> "head"
                           [] next[b] = NoBlock /\ loc[c].published = 0 -> "first"
                           [] next[b] = NoBlock /\ loc[c].published > 0 -> "empty"
        BY <2>5, <1>2 DEF LoadNext
      <4>2. cpc'[c] \in {"first", "empty"} \/ (cpc'[c] = "head" /\ next[b] # NoBlock)
        BY <4>1, <1>6
      <4> QED BY <4>1, <4>2, <1>2
    <3> QED BY <3>1, <1>1, <1>3, <1>6, <1>7
  <2>6. CASE RecheckFirst(c)
    BY <2>6, <1>2, <1>8, <1>9 DEF RecheckFirst
  <2>7. CASE ReturnEmpty(c)
    BY <2>7, <1>2, <1>8 DEF ReturnEmpty
  <2>8. CASE AdvanceHead(c)
    BY <2>8, <1>2, <1>8 DEF AdvanceHead
  <2>9. CASE ClaimRead(c)
    <3>1. CASE Loop(c)
      BY <3>1, <1>2, <1>8
    <3>2. CASE Claims(c, b, loc[c].index)
      <4>1. cpc'[c] = "slot" /\ loc'[c] = loc[c] /\ read'[b] = loc[c].index + 1
        BY <3>2, <1>2, <1>6 DEF Claims
      <4> QED BY <4>1, <1>1, <1>3, <1>6, <1>7
    <3>3. CASE ~Loop(c)
      BY <2>9, <3>2, <3>3, ClaimReadClaims DEF ClaimRead, Claims, Inv
    <3> QED BY <3>1, <3>3
  <2>10. CASE TakeSlot(c)
    BY <2>10, <1>2, <1>9 DEF TakeSlot
  <2>11. CASE CountConsumed(c)
    BY <2>11, <1>2, <1>8, <1>9 DEF CountConsumed
  <2>12. CASE ReclaimLoadHead(c)
    BY <2>12, <1>2, <1>8, <1>9 DEF ReclaimLoadHead
  <2>13. CASE ReclaimLoadNext(c)
    <3>1. CASE next[b] = NoBlock
      BY <2>13, <3>1, <1>2, <1>8 DEF ReclaimLoadNext
    <3>2. CASE next[b] # NoBlock
      <4>1. /\ loc'[c].block = b /\ loc'[c].published = loc[c].published /\ loc'[c].next = next[b]
            /\ cpc'[c] = "reclaim_head"
        BY <2>13, <3>2, <1>2 DEF ReclaimLoadNext
      <4> QED BY <3>2, <4>1, <1>1, <1>3, <1>6, <1>7
    <3> QED BY <3>1, <3>2
  <2>14. CASE ReclaimAdvance(c)
    BY <2>14, <1>2, <1>8 DEF ReclaimAdvance
  <2> QED BY <2>1, <2>2, <2>3, <2>4, <2>5, <2>6, <2>7, <2>8, <2>9, <2>10, <2>11, <2>12, <2>13, <2>14
          DEF ConsumerStep
<1> QED BY <1>1, <1>5, <1>10 DEF LocalsOK

\* A claimed slot is one that nobody held.
LEMMA OwnersNext ==
  ASSUME Inv, NEW c \in Consumers, ConsumerStep(c)
  PROVE  OwnersOK'
<1>1. \A d \in Consumers : d # c => cpc'[d] = cpc[d] /\ loc'[d] = loc[d]
  BY ConsumerEffect DEF Inv
<1>2. OwnersOK /\ TypeOK
  BY DEF Inv
<1>3. CASE cpc'[c] \notin {"slot", "count"}
  BY <1>1, <1>2, <1>3 DEF OwnersOK
<1>4. CASE TakeSlot(c)
  <2>1. cpc[c] = "slot" /\ UNCHANGED loc
    BY <1>4 DEF TakeSlot, Proceed
  <2> QED BY <1>1, <1>2, <2>1 DEF OwnersOK
<1>5. ASSUME NEW b, NEW i, Claims(c, b, i) PROVE OwnersOK'
  <2>1. /\ loc[c].block = b /\ loc[c].index = i /\ read[b] = i /\ i \in Nat
        /\ UNCHANGED loc
    BY <1>5, Sizes DEF Claims, At
  <2>2. ASSUME NEW d \in Consumers, d # c, cpc'[d] \in {"slot", "count"}, loc[d].block = b
        PROVE  loc[d].index # i
    <3>1. loc[d].index < read[loc[d].block]
      BY <2>2, <1>1 DEF Inv, LocalsOK
    <3>2. loc[d].index \in Nat
      BY <1>2, LocalTypes
    <3> QED BY <2>1, <2>2, <3>1, <3>2
  <2> QED BY <1>1, <1>2, <2>1, <2>2 DEF OwnersOK
<1>6. CASE CountConsumed(c)
  <2>1. cpc'[c] \notin {"slot", "count"}
    BY <1>2, <1>6 DEF CountConsumed, Proceed, Return, CGoto, TypeOK
  <2> QED BY <2>1, <1>3
<1>7. CASE ClaimRead(c) /\ cpc' = [cpc EXCEPT ![c] = "again"]
  BY <1>2, <1>3, <1>7 DEF TypeOK
<1> QED BY <1>2, <1>3, <1>4, <1>5, <1>6, <1>7, HoldEffect, ClaimReadClaims

\* Each claimed slot is taken out of by the consumer that claimed it.
LEMMA MarksNext ==
  ASSUME Inv, NEW c \in Consumers, ConsumerStep(c)
  PROVE  MarksOK'
<1>1. /\ \A d \in Consumers : d # c => cpc'[d] = cpc[d] /\ loc'[d] = loc[d]
      /\ UNCHANGED <<write, ppc, pblock, pindex>>
      /\ UNCHANGED committed \/ TakeSlot(c)
  BY ConsumerEffect DEF Inv, producerVars
<1>2. TypeOK /\ MarksOK
  BY DEF Inv
<1>3. \A p \in Producers, b \in Blocks, i \in Slots : Publishing(p, b, i)' <=> Publishing(p, b, i)
  BY <1>1 DEF Publishing
<1>4. CASE /\ UNCHANGED <<read, committed>>
           /\ cpc[c] # "slot"
  <2>1. ASSUME NEW d \in Consumers, NEW b \in Blocks, NEW i \in Slots, Taking(d, b, i)
        PROVE  Taking(d, b, i)'
    BY <1>1, <1>4, <2>1 DEF Taking, At
  <2> QED BY <1>1, <1>2, <1>3, <1>4, <2>1 DEF MarksOK
<1>5. ASSUME NEW b, NEW i, Claims(c, b, i) PROVE MarksOK'
  <2>1. /\ b \in Blocks /\ i \in Slots /\ i \in Nat /\ read[b] = i
        /\ read' = [read EXCEPT ![b] = i + 1]
        /\ read \in [Blocks -> 0 .. BLOCK_SIZE]
    BY <1>2, <1>5, Sizes DEF Claims, TypeOK
  <2>2. Taking(c, b, i)'
    BY <1>2, <1>5 DEF Claims, Taking, At, TypeOK
  <2>3. ASSUME NEW d \in Consumers, NEW e \in Blocks, NEW j \in Slots, Taking(d, e, j)
        PROVE  Taking(d, e, j)'
    BY <1>1, <1>5, <2>3 DEF Taking, At, Claims
  <2>4. UNCHANGED committed
    BY <1>1, <1>5 DEF Claims, TakeSlot
  <2>5. \A e \in Blocks, j \in Slots : j < read'[e] => j < read[e] \/ (e = b /\ j = i)
    BY <2>1, Sizes
  <2>6. \A e \in Blocks, j \in Slots : j < read[e] => j < read'[e]
    BY <2>1, Sizes
  <2> QED BY <1>1, <1>2, <1>3, <2>2, <2>3, <2>4, <2>5, <2>6 DEF MarksOK
<1>6. CASE TakeSlot(c)
  <2> DEFINE b == loc[c].block
             i == loc[c].index
  <2>1. /\ b \in Blocks /\ cpc[c] = "slot" /\ committed[b][i] /\ UNCHANGED <<read, loc>>
        /\ i < read[b] /\ read[b] \in 0 .. BLOCK_SIZE /\ i \in Nat
        /\ committed' = [committed EXCEPT ![b][i] = FALSE]
    BY <1>2, <1>6, LocalTypes DEF TakeSlot, Proceed, queueVars, Inv, LocalsOK
  <2>2. i \in Slots
    BY <2>1, Sizes DEF Slots
  <2>3. \A p \in Producers : ~Publishing(p, b, i)
    BY <2>1 DEF Publishing, Inv, ProducerInv, CommittedOK
  <2>4. /\ ~committed'[b][i]
        /\ \A e \in Blocks, j \in Slots : ~(e = b /\ j = i) => committed'[e][j] = committed[e][j]
    BY <2>1, <2>2 DEF Inv, ProducerInv, ProducerTypeOK
  <2>5. ASSUME NEW d \in Consumers, NEW e \in Blocks, NEW j \in Slots,
               Taking(d, e, j), ~(e = b /\ j = i)
        PROVE  Taking(d, e, j)'
    BY <1>1, <2>1, <2>5 DEF Taking, At
  <2> HIDE DEF b, i
  <2>6. ASSUME NEW e \in Blocks, NEW j \in Slots, j < read'[e],
               committed'[e][j] \/ \E p \in Producers : Publishing(p, e, j)'
        PROVE  \E d \in Consumers : Taking(d, e, j)'
    <3>1. ~(e = b /\ j = i)
      BY <2>3, <2>4, <2>6, <1>3
    <3> QED BY <1>2, <1>3, <2>1, <2>4, <2>5, <2>6, <3>1 DEF MarksOK
  <2>7. ASSUME NEW e \in Blocks, NEW j \in Slots, j < write'[e], ~committed'[e][j]
        PROVE  j < read'[e] \/ \E p \in Producers : Publishing(p, e, j)'
    BY <1>1, <1>2, <1>3, <2>1, <2>4, <2>7 DEF MarksOK
  <2> QED BY <2>6, <2>7 DEF MarksOK
<1>7. CASE CountConsumed(c)
  BY <1>4, <1>7 DEF CountConsumed
<1>8. CASE ClaimRead(c) /\ UNCHANGED read
  BY <1>4, <1>8 DEF ClaimRead
<1> QED BY <1>2, <1>4, <1>5, <1>6, <1>7, <1>8, HoldEffect, ClaimReadClaims

\* A slot is held from its claim until it is counted.
LEMMA CountNext ==
  ASSUME Inv, NEW c \in Consumers, ConsumerStep(c)
  PROVE  CountOK'
<1>1. \A d \in Consumers : d # c => cpc'[d] = cpc[d] /\ loc'[d] = loc[d]
  BY ConsumerEffect DEF Inv
<1>2. /\ TypeOK /\ CountOK /\ read \in [Blocks -> 0 .. BLOCK_SIZE]
      /\ consumed \in [Blocks -> 0 .. BLOCK_SIZE]
  BY DEF Inv, TypeOK
<1>3. \A b \in Blocks : IsFiniteSet(Holders(b)) /\ Cardinality(Holders(b)) \in Nat
  <2>1. \A b \in Blocks : Holders(b) \subseteq Consumers
    BY DEF Holders
  <2> QED BY <2>1, ConsumerAssumption, FS_Subset, FS_CardinalityType
<1>4. CASE /\ UNCHANGED <<read, consumed>>
           /\ cpc[c] \notin {"slot", "count"} /\ cpc'[c] \notin {"slot", "count"}
  <2>1. \A b \in Blocks : Holders(b)' = Holders(b)
    BY <1>1, <1>4 DEF Holders
  <2> QED BY <1>2, <1>4, <2>1 DEF CountOK
<1>5. CASE TakeSlot(c)
  <2>1. cpc[c] = "slot" /\ cpc'[c] = "count" /\ UNCHANGED <<loc, read, consumed>>
    BY <1>2, <1>5 DEF TakeSlot, Proceed, CGoto, queueVars, TypeOK
  <2>2. \A b \in Blocks : Holders(b)' = Holders(b)
    BY <1>1, <2>1 DEF Holders
  <2> QED BY <1>2, <2>1, <2>2 DEF CountOK
<1>6. ASSUME NEW b, NEW i, Claims(c, b, i) PROVE CountOK'
  <2>1. /\ b \in Blocks /\ i \in Nat /\ read[b] = i /\ read' = [read EXCEPT ![b] = i + 1]
        /\ cpc[c] = "take" /\ cpc'[c] = "slot" /\ loc'[c] = loc[c] /\ loc[c].block = b
        /\ UNCHANGED consumed
    BY <1>2, <1>6, Sizes, ConsumerEffect DEF Claims, At, CountConsumed, TypeOK
  <2>2. Holders(b)' = Holders(b) \cup {c} /\ c \notin Holders(b)
    BY <1>1, <2>1 DEF Holders
  <2>3. \A d \in Blocks : d # b => Holders(d)' = Holders(d)
    BY <1>1, <2>1 DEF Holders
  <2>4. Cardinality(Holders(b)') = Cardinality(Holders(b)) + 1
    <3>1. Cardinality(Holders(b) \cup {c}) = Cardinality(Holders(b)) + 1
      BY <1>3, <2>1, <2>2, FS_AddElement
    <3> QED BY <2>2, <3>1
  <2>5. consumed[b] + Cardinality(Holders(b)') = read'[b]
    BY <1>2, <1>3, <2>1, <2>4 DEF CountOK
  <2>6. \A d \in Blocks : d # b => consumed[d] + Cardinality(Holders(d)') = read'[d]
    BY <1>2, <2>1, <2>3 DEF CountOK
  <2> QED BY <2>1, <2>5, <2>6 DEF CountOK
<1>7. CASE CountConsumed(c)
  <2>0. PICK b \in Blocks : b = loc[c].block
    BY <1>2, LocalTypes
  <2>1. /\ UNCHANGED read /\ consumed' = [consumed EXCEPT ![b] = @ + 1]
        /\ cpc[c] = "count" /\ cpc'[c] \notin {"slot", "count"} /\ loc[c].block = b
    BY <1>2, <1>7, <2>0 DEF CountConsumed, Proceed, Return, CGoto, TypeOK
  <2>2. \A d \in Consumers, e \in Blocks : d \in Holders(e)' <=> d \in Holders(e) /\ d # c
    BY <1>1, <2>1 DEF Holders
  <2>3. \A e \in Blocks : c \in Holders(e) <=> e = b
    BY <2>1 DEF Holders
  <2>4. \A e \in Blocks : Holders(e) \subseteq Consumers /\ Holders(e)' \subseteq Consumers
    BY DEF Holders
  <2>5. Holders(b)' = Holders(b) \ {c} /\ \A e \in Blocks : e # b => Holders(e)' = Holders(e)
    <3>1. \A d : d \in Holders(b)' <=> d \in Holders(b) \ {c}
      BY <2>1, <2>2, <2>4
    <3>2. ASSUME NEW e \in Blocks, e # b PROVE \A d : d \in Holders(e)' <=> d \in Holders(e)
      BY <2>2, <2>3, <2>4, <3>2
    <3>3. Holders(b)' = Holders(b) \ {c}
      BY <3>1
    <3> QED BY <3>2, <3>3
  <2>6. Cardinality(Holders(b)') = Cardinality(Holders(b)) - 1
    BY <1>3, <2>1, <2>3, <2>5, FS_RemoveElement
  <2>7. consumed'[b] + Cardinality(Holders(b)') = read'[b]
    BY <1>2, <1>3, <2>1, <2>6 DEF CountOK
  <2>8. \A d \in Blocks : d # b => consumed'[d] + Cardinality(Holders(d)') = read'[d]
    BY <1>2, <2>1, <2>5 DEF CountOK
  <2> QED BY <2>1, <2>7, <2>8 DEF CountOK
<1>8. CASE ClaimRead(c)
  <2>1. CASE UNCHANGED read /\ cpc[c] = "take" /\ cpc' = [cpc EXCEPT ![c] = "again"]
    BY <1>2, <1>4, <1>8, <2>1 DEF ClaimRead, TypeOK
  <2> QED BY <1>6, <1>8, <2>1, ClaimReadClaims
<1>9. CASE /\ cpc[c] \notin {"slot", "count"} /\ cpc'[c] \notin {"slot", "count"}
           /\ UNCHANGED <<read, taken, committed, consumed>>
  BY <1>4, <1>9
<1> QED BY <1>2, <1>5, <1>7, <1>8, <1>9, HoldEffect

-----------------------------------------------------------------------------
(* What was waiting when a call began.                                     *)

LEMMA BeforeNext ==
  ASSUME Inv, NEW c \in Consumers, ConsumerStep(c)
  PROVE  BeforeOK'
<1> USE DEF queueVars, CGoto, Proceed, Loop, Return
<1>1. /\ UNCHANGED <<write, next>>
      /\ \A d \in Consumers : d # c => /\ cpc'[d] = cpc[d]
                                       /\ loc'[d] = loc[d]
                                       /\ before'[d] = before[d]
  BY ConsumerEffect DEF Inv, producerVars
<1>2. /\ cpc \in [Consumers -> {"idle", "again", "write", "read", "consumed", "next", "first",
                            "empty", "head", "take", "slot", "count", "reclaim",
                            "reclaim_next", "reclaim_head"}]
      /\ loc \in [Consumers -> [block : Blocks, published : 0 .. BLOCK_SIZE,
                           index : 0 .. BLOCK_SIZE, next : Blocks \cup {NoBlock}]]
      /\ before \in [Consumers -> SUBSET (Blocks \X Slots)]
      /\ read \in [Blocks -> 0 .. BLOCK_SIZE] /\ write \in [Blocks -> Nat]
      /\ ProducerTypeOK /\ TypeOK
  BY DEF Inv, TypeOK, ProducerTypeOK
<1>3. \A b \in Blocks : read[b] \in Nat /\ read'[b] \in Nat /\ read[b] <= read'[b]
  <2>1. 0 .. BLOCK_SIZE \subseteq Nat
    BY Sizes
  <2>2. CASE UNCHANGED read
    BY <2>1, <2>2, <1>2
  <2>3. ASSUME NEW b, NEW i, Claims(c, b, i)
        PROVE  \A d \in Blocks : read[d] \in Nat /\ read'[d] \in Nat /\ read[d] <= read'[d]
    <3>1. b \in Blocks /\ i \in Nat /\ read[b] = i /\ read' = [read EXCEPT ![b] = i + 1]
      BY <2>3, Sizes DEF Claims
    <3> QED BY <2>1, <3>1, <1>2
  <2> QED BY <2>2, <2>3, ConsumerEffect, ClaimReadClaims DEF Inv
<1>4. \A d \in Consumers : /\ loc[d].block \in Blocks /\ loc[d].block \in Nat
                           /\ loc[d].published \in Nat
  BY <1>2, LocalTypes
<1>5. \A d \in Consumers : BeforeOK!(d)
  BY DEF Inv, BeforeOK
<1>6. ASSUME NEW d \in Consumers, d # c PROVE BeforeOK!(d)'
  BY <1>1, <1>3, <1>4, <1>5, <1>6
<1> DEFINE b == loc[c].block
<1>7. b \in Blocks /\ b \in Nat /\ loc[c].published \in Nat
  BY <1>4
\* The call goes on with what it began with, and where nothing is said of it.
<1>8. ASSUME before'[c] = before[c] \/ before'[c] = {},
             cpc'[c] \notin {"read", "consumed", "next", "first", "empty"}
      PROVE  BeforeOK!(c)'
  BY <1>1, <1>5, <1>8
\* It goes on with the locals it has.
<1>9. ASSUME before'[c] = before[c], loc'[c].block = b, loc'[c].published = loc[c].published,
             \/ cpc[c] = "consumed" /\ cpc'[c] = "next"
             \/ cpc[c] = "first" /\ cpc'[c] = "empty"
      PROVE  BeforeOK!(c)'
  BY <1>1, <1>3, <1>5, <1>7, <1>9
<1>10. BeforeOK!(c)'
  <2>1. CASE LoadHead(c)
    <3>1. cpc'[c] = "write" /\ (before'[c] = Waiting \/ before'[c] = before[c])
      BY <2>1, <1>2 DEF LoadHead
    <3>2. ASSUME NEW s \in Waiting PROVE s \in Blocks \X Slots /\ s[2] < write[s[1]]
      BY DEF Waiting, Inv, ProducerInv, CommittedOK
    <3> QED BY <3>1, <3>2, <1>1, <1>5
  <2>2. CASE LoadWrite(c)
    <3>1. cpc'[c] = "read" /\ loc'[c].block = b /\ loc'[c].published = published(b) /\ before'[c] = before[c]
      BY <2>2, <1>2 DEF LoadWrite
    <3>2. ASSUME NEW s \in before[c], s[1] = b PROVE s[2] < published(b)
      <4>1. s \in Blocks \X Slots /\ s[2] < write[b] /\ s[2] \in Slots
        BY <1>5, <3>2
      <4> QED BY <4>1, <1>2, <1>7, PublishedBound
    <3> QED BY <3>1, <3>2, <1>1, <1>5
  <2>3. CASE LoadRead(c)
    <3>1. /\ loc'[c].block = b /\ loc'[c].published = loc[c].published /\ before'[c] = before[c]
          /\ cpc[c] = "read" /\ read' = read
          /\ \/ cpc'[c] = "take"
             \/ cpc'[c] = "consumed" /\ read[b] >= loc[c].published
      BY <2>3, <1>2 DEF LoadRead
    <3> QED BY <3>1, <1>1, <1>3, <1>5, <1>7
  <2>4. CASE LoadConsumed(c)
    <3>1. before' = before
      BY <2>4 DEF LoadConsumed
    <3> QED BY <2>4, <3>1, <1>2, <1>8, <1>9 DEF LoadConsumed
  <2>5. CASE LoadNext(c)
    <3>1. /\ loc'[c] = [loc[c] EXCEPT !.next = next[b]] /\ before'[c] = before[c]
          /\ cpc[c] = "next" /\ read' = read
          /\ cpc'[c] = CASE next[b] # NoBlock -> "head"
                         [] next[b] = NoBlock /\ loc[c].published = 0 -> "first"
                         [] next[b] = NoBlock /\ loc[c].published > 0 -> "empty"
      BY <2>5, <1>2 DEF LoadNext
    <3>2. loc'[c].block = b /\ loc'[c].published = loc[c].published
      BY <3>1, <1>2
    <3>3. cpc'[c] = "head" \/ (cpc'[c] \in {"first", "empty"} /\ next[b] = NoBlock)
      BY <3>1, <1>7
    <3>4. ASSUME next[b] = NoBlock, NEW s \in before[c] PROVE s[1] <= b
      <4>1. s \in Blocks \X Slots /\ s[2] < write[s[1]] /\ s[1] \in Blocks /\ s[2] \in Nat
        BY <1>5, Sizes
      <4>2. \A d \in Blocks : write[d] # 0 => d <= b
        <5>1. \A d \in Blocks : write[d] # 0 => d <= tail
          BY <1>2, Sizes DEF Inv, ProducerInv, Chained, ProducerTypeOK
        <5>2. tail <= b
          BY <3>4, <1>7, Sizes DEF Inv, ProducerInv, Chained, ProducerTypeOK
        <5> QED BY <5>1, <5>2, <1>7, Sizes DEF Inv, ProducerInv, ProducerTypeOK
      <4>3. write[s[1]] # 0
        BY <4>1, <1>2
      <4> QED BY <4>1, <4>2, <4>3
    <3> QED BY <3>1, <3>2, <3>3, <3>4, <1>1, <1>3, <1>5, <1>7
  <2>6. CASE RecheckFirst(c)
    <3>1. before' = before
      BY <2>6 DEF RecheckFirst
    <3> QED BY <2>6, <3>1, <1>2, <1>8, <1>9 DEF RecheckFirst
  <2>7. CASE ReturnEmpty(c)
    BY <2>7, <1>2, <1>8 DEF ReturnEmpty
  <2>8. CASE AdvanceHead(c)
    BY <2>8, <1>2, <1>8 DEF AdvanceHead
  <2>9. CASE ClaimRead(c)
    <3>1. before' = before /\ cpc'[c] \in {"again", "slot"}
      BY <2>9, <1>2 DEF ClaimRead
    <3> QED BY <3>1, <1>8
  <2>10. CASE TakeSlot(c)
    BY <2>10, <1>2, <1>8 DEF TakeSlot
  <2>11. CASE CountConsumed(c)
    BY <2>11, <1>2, <1>8 DEF CountConsumed
  <2>12. CASE ReclaimLoadHead(c)
    BY <2>12, <1>2, <1>8 DEF ReclaimLoadHead
  <2>13. CASE ReclaimLoadNext(c)
    BY <2>13, <1>2, <1>8 DEF ReclaimLoadNext
  <2>14. CASE ReclaimAdvance(c)
    BY <2>14, <1>2, <1>8 DEF ReclaimAdvance
  <2> QED BY <2>1, <2>2, <2>3, <2>4, <2>5, <2>6, <2>7, <2>8, <2>9, <2>10, <2>11, <2>12, <2>13, <2>14
          DEF ConsumerStep
<1> QED BY <1>6, <1>10 DEF BeforeOK

-----------------------------------------------------------------------------
(* The invariant is inductive.                                             *)

LEMMA ConsumerKeeps ==
  ASSUME Inv, NEW c \in Consumers, ConsumerStep(c)
  PROVE  Inv'
  BY ConsumerUnmarks, TypeNext, ReadNext, HeadNext, LocalsNext, OwnersNext, MarksNext, CountNext,
     BeforeNext DEF Inv

\* What a producer does leaves what the consumers know true.
LEMMA ProducerLeaves ==
  ASSUME Inv, NEW p \in Producers, ProducerStep(p), UNCHANGED consumerVars
  PROVE  Inv'
<1> USE DEF consumerVars, queueVars
<1>1. ProducerInv /\ TypeOK
  BY DEF Inv
<1>2. ProducerInv'
  BY <1>1, ProducerKeeps
<1>3. TypeOK'
  BY <1>1, <1>2 DEF TypeOK, ProducerInv
<1>4. /\ \A b \in Blocks : write[b] \in Nat /\ write'[b] \in Nat /\ write[b] <= write'[b]
      /\ \A b \in Blocks : next[b] # NoBlock => next'[b] = next[b]
      /\ \A b \in Blocks, i \in Slots : committed[b][i] => committed'[b][i]
  BY <1>1, <1>2, ProducerEffect DEF ProducerInv, ProducerTypeOK
<1>5. \A b \in Blocks : read[b] \in Nat
  BY <1>1, Sizes DEF TypeOK
<1>6. ReadOK'
  <2>1. \A b \in Blocks : read[b] <= write'[b]
    BY <1>4, <1>5 DEF Inv, ReadOK
  <2> QED BY <2>1 DEF Inv, ReadOK
<1>7. HeadOK'
  BY <1>4 DEF Inv, HeadOK
<1>8. LocalsOK'
  <2> SUFFICES ASSUME NEW c \in Consumers PROVE LocalsOK!(c)'
    BY DEF LocalsOK
  <2>1. loc[c].block \in Blocks /\ loc[c].published \in Nat
    BY <1>1, LocalTypes
  <2>2. LocalsOK!(c)
    BY DEF Inv, LocalsOK
  <2>3. loc[c].published <= write'[loc[c].block]
    BY <1>4, <2>1, <2>2
  <2> QED BY <1>4, <2>1, <2>2, <2>3
<1>9. OwnersOK'
  BY DEF Inv, OwnersOK
<1>10. MarksOK'
  <2>1. \A c \in Consumers, b \in Blocks, i \in Slots : Taking(c, b, i) <=> Taking(c, b, i)'
    BY DEF Taking, At
  <2>2. ASSUME NEW b \in Blocks, NEW i \in Slots, i < read'[b],
               committed'[b][i] \/ \E q \in Producers : Publishing(q, b, i)'
        PROVE  \E c \in Consumers : Taking(c, b, i)'
    <3>1. i < write[b]
      BY <1>4, <1>5, <2>2, Sizes DEF Inv, ReadOK
    <3>2. committed[b][i] \/ \E q \in Producers : Publishing(q, b, i)
      BY <1>1, <2>2, <3>1, PublishingEffect
    <3> QED BY <2>1, <2>2, <3>2 DEF Inv, MarksOK
  <2>3. ASSUME NEW b \in Blocks, NEW i \in Slots, i < write'[b], ~committed'[b][i]
        PROVE  i < read'[b] \/ \E q \in Producers : Publishing(q, b, i)'
    <3>1. CASE i < write[b]
      <4>1. i < read[b] \/ \E q \in Producers : Publishing(q, b, i)
        BY <3>1, <2>3, <1>4 DEF Inv, MarksOK
      <4> QED BY <4>1, <2>3, <1>1, PublishingEffect
    <3>2. CASE ~(i < write[b])
      BY <3>2, <2>3, <1>1, PublishingEffect
    <3> QED BY <3>1, <3>2
  <2> QED BY <2>2, <2>3 DEF MarksOK
<1>11. CountOK'
  <2>1. \A b \in Blocks : Holders(b)' = Holders(b)
    BY DEF Holders
  <2> QED BY <2>1 DEF Inv, CountOK
<1>12. BeforeOK'
  <2> SUFFICES ASSUME NEW c \in Consumers PROVE BeforeOK!(c)'
    BY DEF BeforeOK
  <2>1. BeforeOK!(c)
    BY DEF Inv, BeforeOK
  <2>2. ASSUME NEW s \in before[c] PROVE s \in Blocks \X Slots /\ s[2] < write'[s[1]]
    <3>1. s \in Blocks \X Slots /\ s[2] < write[s[1]] /\ s[1] \in Blocks /\ s[2] \in Nat
      BY <2>1, Sizes
    <3> QED BY <3>1, <1>4
  <2> QED BY <2>1, <2>2
<1> QED BY <1>2, <1>3, <1>6, <1>7, <1>8, <1>9, <1>10, <1>11, <1>12 DEF Inv

LEMMA InitInv == Init => Inv
<1> SUFFICES ASSUME Init PROVE Inv
  OBVIOUS
<1>1. ProducerInv
  BY InitProducers DEF Init
<1>2. NoLocals \in [block : Blocks, published : 0 .. BLOCK_SIZE,
                    index : 0 .. BLOCK_SIZE, next : Blocks \cup {NoBlock}]
  BY Sizes DEF NoLocals
<1>3. TypeOK
  BY <1>1, <1>2, Sizes DEF Init, TypeOK, ProducerInv
<1>4. /\ \A b \in Blocks : write[b] = 0 /\ read[b] = 0 /\ consumed[b] = 0
      /\ \A b \in Blocks, i \in Slots : ~(i < 0)
      /\ \A c \in Consumers : cpc[c] = "idle" /\ loc[c] = NoLocals /\ before[c] = {}
      /\ taken = <<>> /\ graveyard = <<>> /\ head = 1
  BY Sizes DEF Init, ProducerInit
<1>5. ReadOK
  BY <1>4 DEF ReadOK
<1>6. HeadOK
  BY <1>4, Sizes DEF HeadOK, Blocks
<1>7. LocalsOK
  <2>1. write[1] = 0
    BY <1>4, Sizes
  <2> QED BY <1>4, <2>1 DEF LocalsOK, NoLocals
<1>8. OwnersOK
  BY <1>4 DEF OwnersOK
<1>9. MarksOK
  BY <1>4 DEF MarksOK
<1>10. CountOK
  <2>1. \A b \in Blocks : Holders(b) = {}
    BY <1>4 DEF Holders
  <2>2. Cardinality({}) = 0
    BY FS_EmptySet
  <2>3. \A b \in Blocks : Cardinality(Holders(b)) = 0
    BY <2>1, <2>2
  <2> QED BY <1>4, <2>3 DEF CountOK
<1>11. BeforeOK
  BY <1>4 DEF BeforeOK
<1> QED BY <1>1, <1>3, <1>5, <1>6, <1>7, <1>8, <1>9, <1>10, <1>11 DEF Inv

\* The invariant holds of every behaviour of the queue.
THEOREM Invariance == Spec => []Inv
<1>1. Init => Inv
  BY InitInv
<1>2. Inv /\ [Next]_vars => Inv'
  <2> SUFFICES ASSUME Inv, [Next]_vars PROVE Inv'
    OBVIOUS
  <2>1. CASE \E p \in Producers : ProducerStep(p) /\ UNCHANGED consumerVars
    BY <2>1, ProducerLeaves
  <2>2. CASE \E c \in Consumers : ConsumerStep(c)
    BY <2>2, ConsumerKeeps
  <2>3. CASE UNCHANGED vars
    <3>1. /\ UNCHANGED <<producerVars, committed, consumerVars>>
          /\ UNCHANGED <<write, next, tail, ppc, pblock, pindex, sent>>
          /\ UNCHANGED <<read, consumed, head, graveyard, cpc, loc, taken, before>>
      BY <2>3 DEF vars, consumerVars, queueVars, producerVars
    <3> USE <3>1 DEF Inv
    <3>2. UNCHANGED producerVars /\ committed' = committed
      BY <2>3 DEF vars
    <3>3. ProducerInv'
      <4>1. /\ committed' \in [Blocks -> [Slots -> BOOLEAN]]
            /\ \A b \in Blocks, i \in Slots : committed'[b][i] => committed[b][i]
        BY DEF ProducerInv, ProducerTypeOK
      <4> QED BY <3>2, <4>1, ConsumersLeave
    <3>4. TypeOK'
      BY <3>3 DEF TypeOK, ProducerInv
    <3>5. ReadOK' /\ HeadOK'
      BY DEF ReadOK, HeadOK
    <3>6. LocalsOK' /\ OwnersOK'
      BY DEF LocalsOK, OwnersOK
    <3>7. MarksOK'
      BY DEF MarksOK, Publishing, Taking, At
    <3>8. CountOK'
      <4>1. \A b \in Blocks : Holders(b)' = Holders(b)
        BY DEF Holders
      <4> QED BY <4>1 DEF CountOK
    <3>9. BeforeOK'
      BY DEF BeforeOK
    <3> QED BY <3>3, <3>4, <3>5, <3>6, <3>7, <3>8, <3>9
  <2> QED BY <2>1, <2>2, <2>3 DEF Next
<1> QED BY <1>1, <1>2, PTL DEF Spec

-----------------------------------------------------------------------------
(* What the invariant says of the runs' properties.                        *)

\* The claimed slots of the consumers, as a set.
LEMMA TakenBelowRead ==
  ASSUME Inv, NEW s
  PROVE  s \in ToSet(taken) <=> s \in Blocks \X Slots /\ s[2] < read[s[1]]
<1>1. DOMAIN taken = 1 .. Len(taken)
  BY DEF Inv, TypeOK
<1>2. ASSUME s \in ToSet(taken) PROVE s \in Blocks \X Slots /\ s[2] < read[s[1]]
  BY <1>1, <1>2 DEF ToSet, Inv, ReadOK
<1>3. ASSUME s \in Blocks \X Slots, s[2] < read[s[1]] PROVE s \in ToSet(taken)
  <2>1. s = <<s[1], s[2]>> /\ s[1] \in Blocks /\ s[2] \in Slots
    BY <1>3
  <2>2. PICK k \in 1 .. Len(taken) : taken[k] = s
    BY <2>1, <1>3 DEF Inv, ReadOK
  <2> QED BY <2>2, <1>1 DEF ToSet
<1> QED BY <1>2, <1>3

\* The blocks of the graveyard.
LEMMA RetiredBeforeHead ==
  ASSUME Inv, NEW b \in Blocks
  PROVE  b \in ToSet(graveyard) <=> b < head
<1>1. DOMAIN graveyard = 1 .. head - 1 /\ \A k \in 1 .. head - 1 : graveyard[k] = k
  BY DEF Inv, TypeOK, HeadOK
<1>2. head \in Nat /\ b \in Nat /\ b >= 1
  BY Sizes DEF Blocks, Inv, TypeOK
<1>3. b < head <=> b \in 1 .. head - 1
  BY <1>2
<1> QED BY <1>1, <1>3 DEF ToSet

LEMMA NoSlotTwice == ASSUME Inv PROVE TakenOnce
<1>1. DOMAIN taken = 1 .. Len(taken)
  BY DEF Inv, TypeOK
<1>2. IsInjective(taken)
  BY <1>1 DEF IsInjective, Inv, ReadOK
<1>3. ASSUME NEW s \in ToSet(taken) PROVE s \in Claimed
  <2>1. s \in Blocks \X Slots /\ s[2] < read[s[1]]
    BY TakenBelowRead
  <2>2. s[1] \in Blocks /\ s[2] \in Nat
    BY <2>1, Sizes
  <2>3. read[s[1]] \in 0 .. BLOCK_SIZE /\ write[s[1]] \in Nat /\ read[s[1]] <= write[s[1]]
    BY <2>2 DEF Inv, TypeOK, ProducerTypeOK, ReadOK
  <2>4. s[2] < write[s[1]]
    BY <2>1, <2>2, <2>3, Sizes
  <2>5. SentOK /\ sent \in [Producers -> Seq(Blocks \X Slots)]
    BY DEF Inv, ProducerInv, ProducerTypeOK
  <2> QED BY <2>1, <2>4, <2>5, ClaimedBelowWrite
<1> QED BY <1>2, <1>3 DEF TakenOnce

LEMMA NothingLeftBehind == ASSUME Inv PROVE EmptyIsHonest
<1> SUFFICES ASSUME NEW c \in Consumers, cpc[c] = "empty", NEW s \in before[c], s \in Waiting
             PROVE  FALSE
  BY DEF EmptyIsHonest
<1> DEFINE b == loc[c].block
<1>1. /\ s \in Blocks \X Slots /\ s[2] < write[s[1]] /\ s[1] <= b
      /\ s[1] = b => s[2] < loc[c].published
      /\ loc[c].published <= read[b]
  BY DEF Inv, BeforeOK
<1>2. s[2] >= read[s[1]] /\ s[1] \notin ToSet(graveyard)
  BY DEF Waiting
<1>3. ~(s[1] < head)
  BY <1>1, <1>2, RetiredBeforeHead
<1>4. b <= head /\ head \in Blocks
  BY DEF Inv, LocalsOK, TypeOK
<1>5. s[1] \in Nat /\ s[2] \in Nat /\ head \in Nat
  BY <1>1, <1>4, Sizes
<1>6. s[1] = b
  BY <1>1, <1>3, <1>4, <1>5, LocalTypes DEF Inv
<1> QED BY <1>1, <1>2, <1>5, <1>6, LocalTypes DEF Inv

LEMMA RetiredForGood == ASSUME Inv PROVE RetiredOnce
<1>1. DOMAIN graveyard = 1 .. Len(graveyard)
  BY DEF Inv, TypeOK
<1>2. IsInjective(graveyard)
  BY <1>1 DEF IsInjective, Inv, HeadOK
<1>3. head \in Blocks /\ ~(head < head)
  BY Sizes DEF Inv, TypeOK
<1> QED BY <1>2, <1>3, RetiredBeforeHead DEF RetiredOnce

\* With nobody in a call, the slots that carry an item are those claimed by a
\* producer and not by a consumer.
LEMMA LiveSlots ==
  ASSUME Inv, \A p \in Producers : ppc[p] = "idle", \A c \in Consumers : cpc[c] = "idle",
         NEW b \in Blocks, NEW i \in Slots
  PROVE  committed[b][i] <=> i < write[b] /\ ~(i < read[b])
<1>1. \A c \in Consumers : ~Taking(c, b, i)
  BY DEF Taking
<1>2. \A p \in Producers : ~Publishing(p, b, i)
  BY DEF Publishing
<1> QED BY <1>1, <1>2 DEF Inv, MarksOK, ProducerInv, CommittedOK

LEMMA NothingLost == ASSUME Inv PROVE TornDown
<1> SUFFICES ASSUME \A p \in Producers : ppc[p] = "idle", \A c \in Consumers : cpc[c] = "idle"
             PROVE  /\ IsInjective(Deleted) /\ ToSet(Deleted) = From(1)
                    /\ Destroyed = {s \in Claimed \ ToSet(taken) : s[1] \in From(head)}
                    /\ empty <=> Destroyed = {}
  BY DEF TornDown
<1>1. IsInjective(Deleted) /\ ToSet(Deleted) = From(1)
  <2>1. /\ head \in Blocks /\ graveyard \in Seq(Blocks) /\ Len(graveyard) = head - 1
        /\ \A k \in 1 .. Len(graveyard) : graveyard[k] = k
        /\ \A b \in Blocks : b < head => next[b] # NoBlock
    BY DEF Inv, TypeOK, HeadOK
  <2> QED BY <2>1, BlocksOnce DEF Deleted
<1>2. \A s : s \in Claimed <=> s \in Blocks \X Slots /\ s[2] < write[s[1]]
  BY ClaimedBelowWrite DEF Inv, ProducerInv, ProducerTypeOK
<1>3. From(head) \subseteq Blocks
  BY DEF From
<1>4. \A s : s \in Destroyed <=> s \in From(head) \X Slots /\ committed[s[1]][s[2]]
  BY DEF Destroyed, destroy_live_slots
<1>5. Destroyed = {s \in Claimed \ ToSet(taken) : s[1] \in From(head)}
  <2>1. ASSUME NEW s
        PROVE  s \in Destroyed <=> s \in Claimed /\ s \notin ToSet(taken) /\ s[1] \in From(head)
    <3>1. CASE s \in From(head) \X Slots
      <4>1. s \in Blocks \X Slots /\ s[1] \in Blocks /\ s[2] \in Slots /\ s[1] \in From(head)
        BY <3>1, <1>3
      <4>2. committed[s[1]][s[2]] <=> s[2] < write[s[1]] /\ ~(s[2] < read[s[1]])
        BY <4>1, LiveSlots
      <4> QED BY <3>1, <4>1, <4>2, <1>2, <1>4, TakenBelowRead
    <3>2. CASE s \notin From(head) \X Slots
      BY <3>2, <1>2, <1>4
    <3> QED BY <3>1, <3>2
  <2> QED BY <2>1
<1>6. empty <=> Destroyed = {}
  <2>1. ASSUME NEW b \in From(head), ~(read[b] >= published(b)) PROVE Destroyed # {}
    <3>1. b \in Blocks /\ read[b] \in 0 .. BLOCK_SIZE
      BY <1>3 DEF Inv, TypeOK
    <3>2. published(b) \in 0 .. BLOCK_SIZE /\ published(b) <= write[b] /\ write[b] \in Nat
      BY <3>1, PublishedBound DEF Inv, TypeOK, ProducerTypeOK
    <3>3. read[b] \in Slots /\ read[b] < write[b] /\ ~(read[b] < read[b])
      BY <2>1, <3>1, <3>2, Sizes DEF Slots
    <3>4. committed[b][read[b]]
      BY <3>1, <3>3, LiveSlots
    <3>5. <<b, read[b]>> \in Destroyed
      BY <3>3, <3>4, <1>4
    <3> QED BY <3>5
  <2>2. ASSUME NEW s \in Destroyed PROVE ~(read[s[1]] >= published(s[1]))
    <3>1. s[1] \in From(head) /\ s[1] \in Blocks /\ s[2] \in Slots /\ committed[s[1]][s[2]]
      BY <1>3, <1>4
    <3>2. s[2] < write[s[1]] /\ ~(s[2] < read[s[1]])
      BY <3>1, LiveSlots
    <3>3. s[2] < published(s[1]) /\ published(s[1]) \in 0 .. BLOCK_SIZE
      BY <3>1, <3>2, PublishedBound DEF Inv, TypeOK
    <3>4. read[s[1]] \in 0 .. BLOCK_SIZE /\ s[2] \in Nat
      BY <3>1, Sizes DEF Inv, TypeOK
    <3> QED BY <3>2, <3>3, <3>4, Sizes
  <2> QED BY <2>1, <2>2, <1>4 DEF empty
<1> QED BY <1>1, <1>5, <1>6

\* Whatever enqueue and try_dequeue do between one another, a slot has one owner,
\* and a block a successor only when it is full.
THEOREM SlotsAndBlocksHolds == Spec => []SlotsAndBlocks
<1>1. Inv => SlotsAndBlocks
  BY Shapes DEF Inv, SlotsAndBlocks
<1> QED BY <1>1, Invariance, PTL

\* try_dequeue hands no item to two consumers, and none that was not enqueued.
THEOREM TakenOnceHolds == Spec => []TakenOnce
  BY NoSlotTwice, Invariance, PTL

\* try_dequeue does not return false over an item that was there when it was
\* called and that nobody has taken or retired since.
THEOREM EmptyIsHonestHolds == Spec => []EmptyIsHonest
  BY NothingLeftBehind, Invariance, PTL

\* The destructor deletes every block once and destroys what nobody took once, and
\* empty() tells whether there is such an item.
THEOREM BlocksEndHolds == Spec => []BlocksEnd
<1>1. Inv => BlocksEnd
  BY RetiredForGood, NothingLost DEF BlocksEnd
<1> QED BY <1>1, Invariance, PTL
=============================================================================

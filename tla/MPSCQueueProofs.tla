-------------------------- MODULE MPSCQueueProofs --------------------------
(***************************************************************************)
(* Proofs about MPSCQueue, for any producers, items and block sizes: its   *)
(* consumer reads what was enqueued, in the order of the list, and the     *)
(* destructor what is left.                                                *)
(***************************************************************************)
EXTENDS MPSCQueue, BlocksProofs

-----------------------------------------------------------------------------
(* The inductive invariant, in named parts.                                *)

\* The items are read in the order of the list, each once: they are the slots
\* below read, and none is ahead of write.
ReadOK ==
  /\ \A k \in 1 .. Len(taken) :
       /\ taken[k] \in Blocks \X Slots
       /\ taken[k][1] <= head_block /\ taken[k][2] < read[taken[k][1]]
  /\ \A b \in Blocks, i \in Slots : i < read[b] =>
       \E k \in 1 .. Len(taken) : taken[k] = <<b, i>>
  /\ \A k, l \in 1 .. Len(taken) : k < l => Precedes(taken[k], taken[l])
  /\ \A b \in Blocks : read[b] <= write[b]

\* The graveyard is the blocks before head_block, in their order.
HeadOK ==
  /\ \A b \in Blocks : b < head_block => next[b] # NoBlock
  /\ Len(graveyard) = head_block - 1
  /\ \A k \in 1 .. Len(graveyard) : graveyard[k] = k

\* The slot the consumer waits for is claimed; it will be published, by the
\* producer that is about to.
SlotOK == cpc = "slot" => read[head_block] < published(head_block)
MarksOK ==
  \A b \in Blocks, i \in Slots :
    i < write[b] /\ ~committed[b][i] => \E p \in Producers : Publishing(p, b, i)

\* What was waiting when the call began is behind what the call has seen.
BeforeOK ==
  /\ \A s \in before : s \in Blocks \X Slots /\ s[2] < write[s[1]]
  /\ cpc \in {"next", "empty"} =>
       \A s \in before : s[1] = head_block => s[2] < read[head_block]
  /\ cpc = "empty" => \A s \in before : s[1] <= head_block

Inv == TypeOK /\ ProducerInv /\ ReadOK /\ HeadOK /\ SlotOK /\ MarksOK /\ BeforeOK

-----------------------------------------------------------------------------
\* What is published of a block.
LEMMA PublishedBound ==
  ASSUME ProducerTypeOK, NEW b \in Blocks
  PROVE  /\ published(b) \in 0 .. BLOCK_SIZE /\ published(b) <= write[b]
         /\ \A i \in Slots : i < write[b] <=> i < published(b)
  BY Sizes DEF published, ProducerTypeOK, Slots

\* The numbers a proof about the head block is about.
LEMMA HeadTypes ==
  ASSUME TypeOK
  PROVE  /\ head_block \in Blocks /\ head_block \in Nat /\ head_block >= 1
         /\ \A b \in Blocks : /\ write[b] \in Nat /\ read[b] \in 0 .. BLOCK_SIZE
                              /\ read[b] \in Nat /\ b \in Nat
         /\ \A b \in Blocks : published(b) \in 0 .. BLOCK_SIZE /\ published(b) \in Nat
<1>1. ProducerTypeOK /\ head_block \in Blocks /\ \A b \in Blocks : read[b] \in 0 .. BLOCK_SIZE
  BY DEF TypeOK
<1>2. \A b \in Blocks : b \in Nat /\ b >= 1
  BY DEF Blocks
<1>3. \A b \in Blocks : write[b] \in Nat
  BY <1>1 DEF ProducerTypeOK
<1>4. \A b \in Blocks : published(b) \in 0 .. BLOCK_SIZE
  BY <1>1, PublishedBound
<1> QED BY <1>1, <1>2, <1>3, <1>4, Sizes

-----------------------------------------------------------------------------
(* The steps of the consumer.                                              *)

LEMMA LoadWriteKeeps == ASSUME Inv, LoadWrite PROVE Inv'
<1> USE DEF Inv
<1>1. /\ UNCHANGED <<producerVars, committed, read, head_block, graveyard, taken>>
      /\ UNCHANGED <<write, next, tail, ppc, pblock, pindex, sent>>
      /\ cpc' \in {"slot", "next"}
      /\ cpc' = "slot" => read[head_block] < published(head_block)
      /\ cpc' = "next" => ~(read[head_block] < published(head_block))
      /\ write_observed' = write[head_block]
      /\ before' \in {before, Waiting}
  BY DEF LoadWrite, producerVars
<1>2. ProducerInv'
  BY <1>1, ConsumersLeave DEF ProducerInv, ProducerTypeOK
<1>3. TypeOK'
  <2>1. Waiting \subseteq Blocks \X Slots
    BY DEF Waiting
  <2>2. write'[head_block] \in Nat
    BY <1>1, HeadTypes
  <2> QED BY <1>1, <1>2, <2>1, <2>2 DEF TypeOK, ProducerInv
<1>4. ReadOK' /\ HeadOK'
  BY <1>1 DEF ReadOK, HeadOK
<1>5. SlotOK'
  BY <1>1 DEF SlotOK, published
<1>6. MarksOK'
  BY <1>1 DEF MarksOK, Publishing
<1>7. \A s \in before' : s \in Blocks \X Slots /\ s[2] < write[s[1]]
  BY <1>1 DEF BeforeOK, Waiting, ProducerInv, CommittedOK
<1>8. BeforeOK'
  <2> SUFFICES ASSUME cpc' = "next", NEW s \in before', s[1] = head_block
               PROVE  s[2] < read[head_block]
    BY <1>1, <1>7 DEF BeforeOK
  <2>1. s[2] \in Slots /\ s[2] \in Nat /\ s[2] < write[head_block]
    BY <1>7, Sizes
  <2>2. s[2] < published(head_block)
    BY <2>1, HeadTypes, PublishedBound DEF TypeOK
  <2> QED BY <2>1, <2>2, <1>1, HeadTypes
<1> QED BY <1>2, <1>3, <1>4, <1>5, <1>6, <1>8

LEMMA TakeSlotKeeps == ASSUME Inv, TakeSlot PROVE Inv'
<1> USE DEF Inv
<1>0. PICK h \in Blocks : h = head_block
  BY DEF TypeOK
<1>1. /\ UNCHANGED <<producerVars, committed, head_block, graveyard>>
      /\ UNCHANGED <<write, next, tail, ppc, pblock, pindex, sent>>
      /\ cpc' = "idle" /\ before' = {} /\ write_observed' = 0
      /\ taken' = Append(taken, <<h, read[h]>>)
      /\ read' = [read EXCEPT ![h] = read[h] + 1]
  BY <1>0 DEF TakeSlot, Return, producerVars
<1>2. read[h] < published(h) /\ read[h] < write[h] /\ read[h] \in Slots
  <2>1. read[h] < published(h) /\ published(h) <= write[h]
    BY <1>0, PublishedBound DEF TakeSlot, SlotOK, TypeOK
  <2> QED BY <2>1, HeadTypes, Sizes DEF Slots
<1>3. /\ Len(taken') = Len(taken) + 1 /\ Len(taken) \in Nat
      /\ taken'[Len(taken) + 1] = <<h, read[h]>>
      /\ \A k \in 1 .. Len(taken) : taken'[k] = taken[k]
  BY <1>1 DEF TypeOK
<1>4. /\ read'[h] = read[h] + 1 /\ \A b \in Blocks : b # h => read'[b] = read[b]
      /\ \A b \in Blocks : read[b] \in Nat /\ read'[b] \in Nat /\ read[b] <= read'[b]
  BY <1>1, HeadTypes DEF TypeOK
<1>5. ProducerInv'
  BY <1>1, ConsumersLeave DEF ProducerInv, ProducerTypeOK
<1>6. TypeOK'
  <2>1. read[h] + 1 \in 0 .. BLOCK_SIZE
    BY <1>2, Sizes DEF Slots
  <2>2. read' \in [Blocks -> 0 .. BLOCK_SIZE]
    BY <2>1, <1>1 DEF TypeOK
  <2>3. taken' \in Seq(Blocks \X Slots)
    BY <1>1, <1>2 DEF TypeOK
  <2> QED BY <1>1, <1>5, <2>2, <2>3 DEF TypeOK, ProducerInv
<1>7. ReadOK'
  <2>1. ASSUME NEW k \in 1 .. Len(taken')
        PROVE  /\ taken'[k] \in Blocks \X Slots
               /\ taken'[k][1] <= head_block' /\ taken'[k][2] < read'[taken'[k][1]]
    <3>1. CASE k = Len(taken) + 1
      BY <3>1, <1>0, <1>1, <1>2, <1>3, <1>4, HeadTypes
    <3>2. CASE k # Len(taken) + 1
      <4>1. k \in 1 .. Len(taken)
        BY <3>2, <1>3
      <4>2. /\ taken[k] \in Blocks \X Slots /\ taken[k][1] \in Blocks /\ taken[k][2] \in Nat
            /\ taken[k][1] <= head_block /\ taken[k][2] < read[taken[k][1]]
        BY <4>1, Sizes DEF ReadOK
      <4> QED BY <4>1, <4>2, <1>1, <1>3, <1>4
    <3> QED BY <3>1, <3>2
  <2>2. ASSUME NEW b \in Blocks, NEW i \in Slots, i < read'[b]
        PROVE  \E k \in 1 .. Len(taken') : taken'[k] = <<b, i>>
    <3>1. CASE i < read[b]
      <4>1. PICK k \in 1 .. Len(taken) : taken[k] = <<b, i>>
        BY <3>1 DEF ReadOK
      <4> QED BY <4>1, <1>3
    <3>2. CASE ~(i < read[b])
      <4>1. b = h /\ i = read[b]
        BY <3>2, <2>2, <1>4, Sizes
      <4>2. Len(taken) + 1 \in 1 .. Len(taken')
        BY <1>3
      <4> QED BY <4>1, <4>2, <1>3
    <3> QED BY <3>1, <3>2
  <2>3. ASSUME NEW k \in 1 .. Len(taken'), NEW l \in 1 .. Len(taken'), k < l
        PROVE  Precedes(taken'[k], taken'[l])
    <3>1. k \in 1 .. Len(taken) /\ taken'[k] = taken[k]
      BY <2>3, <1>3
    <3>2. CASE l = Len(taken) + 1
      <4>1. /\ taken[k] \in Blocks \X Slots /\ taken[k][1] \in Nat
            /\ taken[k][1] <= h /\ taken[k][2] < read[taken[k][1]]
        BY <3>1, <1>0, Sizes DEF ReadOK
      <4> QED BY <4>1, <3>1, <3>2, <1>3, <1>0, HeadTypes DEF Precedes
    <3>3. CASE l # Len(taken) + 1
      <4>1. l \in 1 .. Len(taken)
        BY <3>3, <1>3
      <4> QED BY <4>1, <3>1, <2>3, <1>3 DEF ReadOK
    <3> QED BY <3>2, <3>3
  <2>4. \A b \in Blocks : read'[b] <= write'[b]
    BY <1>1, <1>2, <1>4, HeadTypes DEF ReadOK
  <2> QED BY <2>1, <2>2, <2>3, <2>4 DEF ReadOK
<1>8. HeadOK'
  BY <1>1 DEF HeadOK
<1>9. SlotOK' /\ BeforeOK'
  BY <1>1 DEF SlotOK, BeforeOK
<1>10. MarksOK'
  BY <1>1 DEF MarksOK, Publishing
<1> QED BY <1>5, <1>6, <1>7, <1>8, <1>9, <1>10

LEMMA MoveOnKeeps == ASSUME Inv, MoveOn PROVE Inv'
<1> USE DEF Inv
<1>0. PICK h \in Blocks : h = head_block
  BY DEF TypeOK
<1>1. /\ UNCHANGED <<producerVars, committed, read, taken, before>>
      /\ UNCHANGED <<write, next, tail, ppc, pblock, pindex, sent>>
      /\ cpc' = "again" /\ write_observed' = 0
      /\ next[h] # NoBlock /\ head_block' = next[h] /\ graveyard' = Append(graveyard, h)
  BY <1>0 DEF MoveOn, producerVars
<1>2. head_block' = h + 1 /\ h + 1 \in Blocks /\ h \in Nat
  <2>1. next[h] = h + 1 /\ next[h] \in Blocks
    BY <1>1 DEF ProducerInv, Chained, ProducerTypeOK
  <2> QED BY <2>1, <1>1, Sizes
<1>3. ProducerInv'
  BY <1>1, ConsumersLeave DEF ProducerInv, ProducerTypeOK
<1>4. TypeOK'
  BY <1>1, <1>2, <1>3 DEF TypeOK, ProducerInv
<1>5. ReadOK'
  <2>1. \A k \in 1 .. Len(taken) : taken[k][1] <= h + 1
    BY <1>0, <1>2, Sizes DEF ReadOK
  <2> QED BY <2>1, <1>1, <1>2 DEF ReadOK
<1>6. HeadOK'
  <2>1. ASSUME NEW b \in Blocks, b < h + 1 PROVE next'[b] # NoBlock
    <3>1. b < h \/ b = h
      BY <2>1, <1>2, Sizes
    <3> QED BY <3>1, <1>0, <1>1 DEF HeadOK
  <2>2. /\ Len(graveyard') = h /\ graveyard'[h] = h
        /\ \A k \in 1 .. h : k # h => graveyard'[k] = k
    BY <1>0, <1>1, <1>2 DEF HeadOK, TypeOK
  <2> QED BY <2>1, <2>2, <1>2 DEF HeadOK
<1>7. SlotOK' /\ BeforeOK'
  BY <1>1 DEF SlotOK, BeforeOK
<1>8. MarksOK'
  BY <1>1 DEF MarksOK, Publishing
<1> QED BY <1>3, <1>4, <1>5, <1>6, <1>7, <1>8

LEMMA NoNextKeeps == ASSUME Inv, NoNext PROVE Inv'
<1> USE DEF Inv
<1>1. /\ UNCHANGED <<producerVars, committed, read, head_block, graveyard, taken, before>>
      /\ UNCHANGED <<write, next, tail, ppc, pblock, pindex, sent, write_observed>>
      /\ cpc = "next" /\ cpc' \in {"again", "empty"} /\ next[head_block] = NoBlock
  BY DEF NoNext, producerVars
<1>2. ProducerInv'
  BY <1>1, ConsumersLeave DEF ProducerInv, ProducerTypeOK
<1>3. TypeOK'
  BY <1>1, <1>2 DEF TypeOK, ProducerInv
<1>4. ReadOK' /\ HeadOK'
  BY <1>1 DEF ReadOK, HeadOK
<1>5. SlotOK'
  BY <1>1 DEF SlotOK
<1>6. MarksOK'
  BY <1>1 DEF MarksOK, Publishing
<1>7. ASSUME NEW s \in before PROVE s[1] <= head_block
  <2>1. s[1] \in Blocks /\ s[2] \in Nat /\ s[2] < write[s[1]]
    BY Sizes DEF BeforeOK
  <2>2. write[s[1]] > 0
    BY <2>1, HeadTypes
  <2>3. tail \in Nat /\ s[1] \in Nat /\ head_block \in Nat /\ head_block \in Blocks
    BY <2>1, HeadTypes, Sizes DEF ProducerInv, ProducerTypeOK
  <2>4. ~(s[1] > tail)
    BY <2>1, <2>2 DEF ProducerInv, Chained
  <2>5. ~(head_block < tail)
    BY <1>1, <2>3 DEF ProducerInv, Chained
  <2> QED BY <2>3, <2>4, <2>5
<1>8. BeforeOK'
  BY <1>1, <1>7 DEF BeforeOK
<1> QED BY <1>2, <1>3, <1>4, <1>5, <1>6, <1>8

LEMMA ReturnEmptyKeeps == ASSUME Inv, ReturnEmpty PROVE Inv'
<1> USE DEF Inv
<1>1. /\ UNCHANGED <<producerVars, committed, read, head_block, graveyard, taken>>
      /\ UNCHANGED <<write, next, tail, ppc, pblock, pindex, sent>>
      /\ cpc' = "idle" /\ before' = {} /\ write_observed' = 0
  BY DEF ReturnEmpty, Return, producerVars
<1>2. ProducerInv'
  BY <1>1, ConsumersLeave DEF ProducerInv, ProducerTypeOK
<1>3. TypeOK'
  BY <1>1, <1>2 DEF TypeOK, ProducerInv
<1>4. ReadOK' /\ HeadOK'
  BY <1>1 DEF ReadOK, HeadOK
<1>5. SlotOK' /\ BeforeOK'
  BY <1>1 DEF SlotOK, BeforeOK
<1>6. MarksOK'
  BY <1>1 DEF MarksOK, Publishing
<1> QED BY <1>2, <1>3, <1>4, <1>5, <1>6

-----------------------------------------------------------------------------
(* The steps of the producers.                                             *)

LEMMA EnqueueKeeps == ASSUME Inv, NEW p \in Producers, Enqueue(p) PROVE Inv'
<1> USE DEF Inv
<1>1. /\ ProducerStep(p)
      /\ UNCHANGED <<read, head_block, graveyard, cpc, write_observed, taken, before>>
  BY DEF Enqueue, consumerVars
<1>2. ProducerInv'
  BY <1>1, ProducerKeeps
<1>3. TypeOK'
  BY <1>1, <1>2 DEF TypeOK, ProducerInv
<1>4. /\ \A b \in Blocks : write[b] <= write'[b] /\ write[b] \in Nat /\ write'[b] \in Nat
      /\ \A b \in Blocks : next[b] # NoBlock => next'[b] = next[b]
      /\ \A b \in Blocks, i \in Slots : committed[b][i] => committed'[b][i]
  BY <1>1, <1>2, ProducerEffect DEF ProducerInv, ProducerTypeOK
<1>5. ReadOK'
  <2>1. ASSUME NEW b \in Blocks PROVE read[b] <= write'[b]
    <3>1. read[b] <= write[b] /\ read[b] \in Nat
      BY HeadTypes DEF ReadOK
    <3> QED BY <3>1, <1>4
  <2> QED BY <2>1, <1>1 DEF ReadOK
<1>6. HeadOK'
  BY <1>1, <1>4 DEF HeadOK
<1>7. SlotOK'
  <2>1. PICK h \in Blocks : h = head_block
    BY HeadTypes
  <2>2. /\ published(h) \in Nat /\ published(h)' \in Nat /\ read[h] \in Nat
        /\ published(h) <= published(h)'
    BY <1>4, HeadTypes, Sizes DEF published
  <2>3. cpc = "slot" => read[h] < published(h)
    BY <2>1 DEF SlotOK
  <2>4. cpc = "slot" => read[h] < published(h)'
    BY <2>2, <2>3
  <2>5. cpc' = cpc /\ read' = read /\ head_block' = h
    BY <2>1, <1>1
  <2> QED BY <2>4, <2>5 DEF SlotOK, published
<1>8. MarksOK'
  <2> SUFFICES ASSUME NEW b \in Blocks, NEW i \in Slots, i < write'[b], ~committed'[b][i]
               PROVE  \E q \in Producers : Publishing(q, b, i)'
    BY DEF MarksOK
  <2>1. i < write[b] \/ \E q \in Producers : Publishing(q, b, i)'
    BY <1>1, PublishingEffect
  <2>2. CASE i < write[b]
    <3>1. PICK q \in Producers : Publishing(q, b, i)
      BY <2>2, <1>4 DEF MarksOK
    <3> QED BY <3>1, <1>1, PublishingEffect
  <2> QED BY <2>1, <2>2
<1>9. BeforeOK'
  <2>1. ASSUME NEW s \in before PROVE s[2] < write'[s[1]]
    <3>1. s[1] \in Blocks /\ s[2] \in Nat /\ s[2] < write[s[1]]
      BY Sizes DEF BeforeOK
    <3> QED BY <3>1, <1>4
  <2> QED BY <2>1, <1>1 DEF BeforeOK
<1> QED BY <1>2, <1>3, <1>5, <1>6, <1>7, <1>8, <1>9

LEMMA InitInv == Init => Inv
<1> SUFFICES ASSUME Init PROVE Inv
  OBVIOUS
<1>1. ProducerInv
  BY InitProducers DEF Init
<1>2. /\ \A b \in Blocks : write[b] = 0 /\ read[b] = 0
      /\ read \in [Blocks -> 0 .. BLOCK_SIZE]
      /\ head_block = 1 /\ graveyard = <<>> /\ cpc = "idle" /\ write_observed = 0
      /\ taken = <<>> /\ before = {}
  BY Sizes DEF Init, ProducerInit
<1>3. \A b \in Blocks : ~(b < 1)
  BY DEF Blocks
<1>4. \A i \in Slots : ~(i < 0)
  BY DEF Slots
<1>5. TypeOK
  BY <1>1, <1>2, Sizes DEF TypeOK, ProducerInv
<1>6. ReadOK /\ HeadOK
  BY <1>2, <1>3, <1>4 DEF ReadOK, HeadOK
<1>7. SlotOK /\ MarksOK /\ BeforeOK
  BY <1>2, <1>4 DEF SlotOK, MarksOK, BeforeOK
<1> QED BY <1>1, <1>5, <1>6, <1>7 DEF Inv

\* The invariant holds of every behaviour of the queue.
THEOREM Invariance == Spec => []Inv
<1>1. Inv /\ [Next]_vars => Inv'
  <2> SUFFICES ASSUME Inv, [Next]_vars PROVE Inv'
    OBVIOUS
  <2>1. CASE \E p \in Producers : Enqueue(p)
    BY <2>1, EnqueueKeeps
  <2>2. CASE ConsumerStep
    BY <2>2, LoadWriteKeeps, TakeSlotKeeps, MoveOnKeeps, NoNextKeeps, ReturnEmptyKeeps
    DEF ConsumerStep
  <2>3. CASE UNCHANGED vars
    <3> USE DEF Inv
    <3>1. /\ UNCHANGED <<producerVars, committed, write, next, tail, ppc, pblock, pindex, sent>>
          /\ UNCHANGED <<read, head_block, graveyard, cpc, write_observed, taken, before>>
      BY <2>3 DEF vars, consumerVars, producerVars
    <3>2. ProducerInv'
      BY <3>1, ConsumersLeave DEF ProducerInv, ProducerTypeOK
    <3>3. TypeOK'
      BY <3>1, <3>2 DEF TypeOK, ProducerInv
    <3>4. ReadOK' /\ HeadOK'
      BY <3>1 DEF ReadOK, HeadOK
    <3>5. SlotOK' /\ BeforeOK'
      BY <3>1 DEF SlotOK, BeforeOK, published
    <3>6. MarksOK'
      BY <3>1 DEF MarksOK, Publishing
    <3> QED BY <3>2, <3>3, <3>4, <3>5, <3>6
  <2> QED BY <2>1, <2>2, <2>3 DEF Next
<1> QED BY <1>1, InitInv, PTL DEF Spec

-----------------------------------------------------------------------------
(* What the invariant says of the run's properties.                        *)

\* The items that have been read, as a set.
LEMMA TakenBelowRead ==
  ASSUME Inv, NEW s
  PROVE  s \in ToSet(taken) <=> s \in Blocks \X Slots /\ s[2] < read[s[1]]
<1>1. DOMAIN taken = 1 .. Len(taken)
  BY DEF Inv, TypeOK
<1>2. ASSUME s \in ToSet(taken) PROVE s \in Blocks \X Slots /\ s[2] < read[s[1]]
  BY <1>1, <1>2 DEF ToSet, Inv, ReadOK
<1>3. ASSUME s \in Blocks \X Slots, s[2] < read[s[1]] PROVE s \in ToSet(taken)
  <2>1. s = <<s[1], s[2]>> /\ s[1] \in Blocks /\ s[2] \in Slots
    BY <1>3
  <2>2. PICK k \in 1 .. Len(taken) : taken[k] = s
    BY <2>1, <1>3 DEF Inv, ReadOK
  <2> QED BY <2>2, <1>1 DEF ToSet
<1> QED BY <1>2, <1>3

\* The order of the list is one.
LEMMA PrecedesStrict ==
  ASSUME NEW s \in Blocks \X Slots, NEW t \in Blocks \X Slots, Precedes(s, t)
  PROVE  ~Precedes(t, s) /\ s # t
<1>1. s[1] \in Nat /\ s[2] \in Nat /\ t[1] \in Nat /\ t[2] \in Nat
  BY Sizes
<1> QED BY <1>1 DEF Precedes

\* Both the producers and the consumer go along the list.
LEMMA InOrder == ASSUME Inv PROVE ProducerOrder
<1>1. /\ DOMAIN taken = 1 .. Len(taken) /\ Len(taken) \in Nat
      /\ \A k \in 1 .. Len(taken) : taken[k] \in Blocks \X Slots
      /\ \A k, l \in 1 .. Len(taken) : k < l => Precedes(taken[k], taken[l])
  BY DEF Inv, TypeOK, ReadOK
<1>2. IsInjective(taken)
  <2> SUFFICES ASSUME NEW k \in 1 .. Len(taken), NEW l \in 1 .. Len(taken), taken[k] = taken[l]
               PROVE  k = l
    BY <1>1 DEF IsInjective
  <2>1. ~(k < l) /\ ~(l < k)
    BY <1>1, PrecedesStrict
  <2> QED BY <2>1, <1>1
<1>3. ASSUME NEW p \in Producers, NEW i \in 1 .. Len(taken), NEW j \in 1 .. Len(taken),
             NEW m \in 1 .. Len(sent[p]), NEW n \in 1 .. Len(sent[p]),
             taken[i] = sent[p][m], taken[j] = sent[p][n], i < j
      PROVE  m < n
  <2>1. Precedes(sent[p][m], sent[p][n]) /\ sent[p][m] # sent[p][n] /\ ~Precedes(sent[p][n], sent[p][m])
    BY <1>1, <1>3, PrecedesStrict
  <2>2. n < m => Precedes(sent[p][n], sent[p][m])
    BY DEF Inv, ProducerInv, SentOK
  <2>3. Len(sent[p]) \in Nat
    BY DEF Inv, ProducerInv, ProducerTypeOK
  <2> QED BY <2>1, <2>2, <2>3
<1> QED BY <1>2, <1>3 DEF ProducerOrder

LEMMA NothingLeftBehind == ASSUME Inv PROVE EmptyIsHonest
<1> SUFFICES ASSUME cpc = "empty", NEW s \in before, s \in Waiting PROVE FALSE
  BY DEF EmptyIsHonest
<1>1. /\ s[1] \in Blocks /\ s[2] \in Nat /\ s[1] \in Nat /\ s[1] >= 1
      /\ s[1] <= head_block /\ (s[1] = head_block => s[2] < read[head_block])
  <2>1. s \in Blocks \X Slots /\ s[1] <= head_block /\ (s[1] = head_block => s[2] < read[head_block])
    BY DEF Inv, BeforeOK
  <2>2. \A b \in Blocks : b \in Nat /\ b >= 1
    BY Sizes DEF Blocks
  <2> QED BY <2>1, <2>2, Sizes
<1>2. ~(s[2] < read[s[1]]) /\ s[1] \notin ToSet(graveyard)
  BY <1>1, HeadTypes DEF Waiting, Inv
<1>3. DOMAIN graveyard = 1 .. head_block - 1 /\ \A k \in 1 .. head_block - 1 : graveyard[k] = k
  BY DEF Inv, TypeOK, HeadOK
<1>4. s[1] < head_block
  BY <1>1, <1>2, HeadTypes DEF Inv
<1>5. s[1] \in 1 .. head_block - 1
  BY <1>1, <1>4, HeadTypes DEF Inv
<1> QED BY <1>2, <1>3, <1>5 DEF ToSet

LEMMA NothingLost == ASSUME Inv PROVE TornDown
<1> SUFFICES ASSUME \A p \in Producers : ppc[p] = "idle"
             PROVE  /\ IsInjective(Deleted) /\ ToSet(Deleted) = From(1)
                    /\ Destroyed = {s \in Claimed \ ToSet(taken) : s[1] \in From(head_block)}
                    /\ \A s \in Destroyed : committed[s[1]][s[2]]
  BY DEF TornDown
<1>1. IsInjective(Deleted) /\ ToSet(Deleted) = From(1)
  <2>1. /\ head_block \in Blocks /\ graveyard \in Seq(Blocks) /\ Len(graveyard) = head_block - 1
        /\ \A k \in 1 .. Len(graveyard) : graveyard[k] = k
        /\ \A b \in Blocks : b < head_block => next[b] # NoBlock
    BY DEF Inv, TypeOK, HeadOK
  <2> QED BY <2>1, BlocksOnce DEF Deleted
<1>2. \A s : s \in Claimed <=> s \in Blocks \X Slots /\ s[2] < write[s[1]]
  BY ClaimedBelowWrite DEF Inv, ProducerInv, ProducerTypeOK
<1>3. From(head_block) \subseteq Blocks
  BY DEF From
<1>4. \A s : s \in Destroyed <=> /\ s \in From(head_block) \X Slots
                                 /\ read[s[1]] <= s[2] /\ s[2] < published(s[1])
  BY DEF Destroyed, destroy_live_slots
<1>5. ASSUME NEW s
      PROVE  s \in Destroyed <=> s \in Claimed /\ s \notin ToSet(taken) /\ s[1] \in From(head_block)
  <2>1. CASE s \in From(head_block) \X Slots
    <3>1. s \in Blocks \X Slots /\ s[1] \in Blocks /\ s[2] \in Slots /\ s[1] \in From(head_block)
      BY <2>1, <1>3
    <3>2. s[2] < write[s[1]] <=> s[2] < published(s[1])
      BY <3>1, PublishedBound DEF Inv, TypeOK
    <3>3. read[s[1]] \in Nat /\ s[2] \in Nat
      BY <3>1, HeadTypes, Sizes DEF Inv
    <3>4. read[s[1]] <= s[2] <=> ~(s[2] < read[s[1]])
      BY <3>3
    <3> QED BY <2>1, <3>1, <3>2, <3>4, <1>2, <1>4, TakenBelowRead
  <2>2. CASE s \notin From(head_block) \X Slots
    BY <2>2, <1>2, <1>4
  <2> QED BY <2>1, <2>2
<1>6. Destroyed = {s \in Claimed \ ToSet(taken) : s[1] \in From(head_block)}
  BY <1>5
<1>7. ASSUME NEW s \in Destroyed PROVE committed[s[1]][s[2]]
  <2>1. s[1] \in Blocks /\ s[2] \in Slots /\ s[2] < write[s[1]]
    BY <1>2, <1>5
  <2>2. \A p \in Producers : ~Publishing(p, s[1], s[2])
    BY DEF Publishing
  <2> QED BY <2>1, <2>2 DEF Inv, MarksOK
<1> QED BY <1>1, <1>6, <1>7

\* Whatever enqueue and try_dequeue do between one another, a block has a successor
\* only when it is full.
THEOREM SlotsAndBlocksHolds == Spec => []SlotsAndBlocks
<1>1. Inv => SlotsAndBlocks
  BY Shapes DEF Inv, SlotsAndBlocks
<1> QED BY <1>1, Invariance, PTL

\* try_dequeue reads every item once and each producer's in their order, returns
\* false only over an empty queue, and the destructor destroys what it left.
THEOREM DequeueIsRightHolds == Spec => []DequeueIsRight
<1>1. Inv => DequeueIsRight
  BY InOrder, NothingLeftBehind, NothingLost DEF DequeueIsRight
<1> QED BY <1>1, Invariance, PTL
=============================================================================

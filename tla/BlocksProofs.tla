---------------------------- MODULE BlocksProofs ----------------------------
(***************************************************************************)
(* Proofs about the producers of the two queues, for any threads, items    *)
(* and block sizes: the invariant both queues' proofs build on.            *)
(***************************************************************************)
EXTENDS Blocks, FiniteSetTheorems, TLAPS

-----------------------------------------------------------------------------
(* The invariant, in named parts.                                          *)

\* Blocks are linked in their order and when they are full; tail has not
\* passed the last one, and nobody has claimed a slot ahead of it.
Chained ==
  /\ \A b \in Blocks : next[b] # NoBlock => next[b] = b + 1 /\ write[b] >= BLOCK_SIZE
  /\ \A b \in Blocks : b < tail => next[b] # NoBlock
  /\ \A b \in Blocks : b > tail => write[b] = 0

\* Where a producer is in enqueue, and how many items it still has.
EnqueueOK ==
  \A p \in Producers :
    /\ Len(sent[p]) <= ItemsEach
    /\ ppc[p] \in {"retry", "claim", "link", "advance"} => Len(sent[p]) < ItemsEach
    /\ ppc[p] \in {"claim", "commit", "link", "advance"} =>
         pblock[p] \in Blocks /\ pblock[p] <= tail
    /\ ppc[p] \in {"link", "advance"} => write[pblock[p]] >= BLOCK_SIZE
    /\ ppc[p] = "advance" => next[pblock[p]] # NoBlock
    /\ ppc[p] = "commit" =>
         /\ sent[p] # <<>>
         /\ pindex[p] \in Slots
         /\ sent[p][Len(sent[p])] = <<pblock[p], pindex[p]>>

\* Slots come in the order of the list, and in a block in their order.
Precedes(s, t) == s[1] < t[1] \/ (s[1] = t[1] /\ s[2] < t[2])

\* The claimed slots are those below write, each is claimed once, and a producer
\* claims them in the order of the list.
SentOK ==
  /\ \A p \in Producers : \A k \in 1 .. Len(sent[p]) :
       /\ sent[p][k] \in Blocks \X Slots
       /\ sent[p][k][2] < write[sent[p][k][1]]
       /\ ppc[p] = "claim" => sent[p][k][1] <= pblock[p]
  /\ \A b \in Blocks, i \in Slots : i < write[b] =>
       \E p \in Producers : \E k \in 1 .. Len(sent[p]) : sent[p][k] = <<b, i>>
  /\ \A p, q \in Producers : \A k \in 1 .. Len(sent[p]), l \in 1 .. Len(sent[q]) :
       sent[p][k] = sent[q][l] => p = q /\ k = l
  /\ \A p \in Producers : \A k, l \in 1 .. Len(sent[p]) :
       k < l => Precedes(sent[p][k], sent[p][l])

\* A slot is published after it is claimed, and by the one that claimed it.
CommittedOK ==
  /\ \A b \in Blocks, i \in Slots : committed[b][i] => i < write[b]
  /\ \A p \in Producers : ppc[p] = "commit" => ~committed[pblock[p]][pindex[p]]

ProducerInv == ProducerTypeOK /\ Chained /\ EnqueueOK /\ SentOK /\ CommittedOK

-----------------------------------------------------------------------------
\* What BlockAssumption says of the numbers.
LEMMA Sizes ==
  /\ BLOCK_SIZE \in Nat /\ BLOCK_SIZE > 0
  /\ MaxBlocks \in Nat /\ MaxBlocks > 0
  /\ ItemsEach \in Nat
  /\ Blocks \subseteq Nat /\ Slots \subseteq Nat /\ 1 \in Blocks
  /\ NoBlock \notin Blocks /\ NoBlock \in Nat
  BY BlockAssumption DEF Blocks, Slots, NoBlock

\* A block has a successor only if every block before it has.
LEMMA ChainedBefore ==
  ASSUME ProducerTypeOK, Chained,
         NEW b \in Blocks, NEW d \in Blocks, next[b] # NoBlock, d < b
  PROVE  next[d] # NoBlock
<1>1. write[b] > 0
  BY Sizes DEF Chained, ProducerTypeOK
<1>2. b <= tail
  BY <1>1, Sizes DEF Chained, ProducerTypeOK
<1> QED BY <1>2, Sizes DEF Chained, ProducerTypeOK

\* The claimed slots, as a set.
LEMMA ClaimedBelowWrite ==
  ASSUME SentOK, sent \in [Producers -> Seq(Blocks \X Slots)]
  PROVE  \A s : s \in Claimed <=> s \in Blocks \X Slots /\ s[2] < write[s[1]]
<1>1. ASSUME NEW s, s \in Claimed PROVE s \in Blocks \X Slots /\ s[2] < write[s[1]]
  <2>1. PICK p \in Producers : s \in ToSet(sent[p])
    BY <1>1 DEF Claimed
  <2>2. PICK k \in 1 .. Len(sent[p]) : sent[p][k] = s
    BY <2>1 DEF ToSet
  <2> QED BY <2>2 DEF SentOK
<1>2. ASSUME NEW s \in Blocks \X Slots, s[2] < write[s[1]] PROVE s \in Claimed
  <2>1. s = <<s[1], s[2]>> /\ s[1] \in Blocks /\ s[2] \in Slots
    BY <1>2
  <2>2. PICK p \in Producers : \E k \in 1 .. Len(sent[p]) : sent[p][k] = <<s[1], s[2]>>
    BY <2>1, <1>2 DEF SentOK
  <2>3. PICK k \in 1 .. Len(sent[p]) : sent[p][k] = s
    BY <2>1, <2>2
  <2>4. sent[p] \in Seq(Blocks \X Slots)
    OBVIOUS
  <2>5. k \in DOMAIN sent[p] /\ sent[p][k] = s
    BY <2>3, <2>4
  <2>6. s \in ToSet(sent[p])
    BY <2>5 DEF ToSet
  <2> QED BY <2>6 DEF Claimed
<1> QED BY <1>1, <1>2

\* A producer that finds a block full can link another one: there are blocks
\* enough for all the items, and the one it carries is not in any.
LEMMA RoomLeft ==
  ASSUME ProducerInv, NEW p \in Producers, ppc[p] = "link"
  PROVE  pblock[p] \in Blocks /\ pblock[p] + 1 \in Blocks
<1>1. /\ pblock[p] \in Blocks /\ pblock[p] <= tail /\ tail \in Blocks
      /\ write[pblock[p]] >= BLOCK_SIZE /\ Len(sent[p]) < ItemsEach
  BY DEF ProducerInv, EnqueueOK, ProducerTypeOK
<1>2. SUFFICES ASSUME pblock[p] = MaxBlocks PROVE FALSE
  BY <1>1, Sizes DEF Blocks
<1>3. \A b \in Blocks : write[b] >= BLOCK_SIZE
  BY <1>1, <1>2, Sizes, SMTT(30) DEF ProducerInv, Chained, ProducerTypeOK, Blocks
<1> DEFINE All == Blocks \X Slots
           Places == Producers \X (1 .. ItemsEach)
           At(s, x) == x[2] \in 1 .. Len(sent[x[1]]) /\ sent[x[1]][x[2]] = s
           Free == Places \ {<<p, ItemsEach>>}
           f == [s \in All |-> CHOOSE x \in Free : At(s, x)]
<1>4. ASSUME NEW s \in All PROVE \E x \in Free : At(s, x)
  <2>1. s = <<s[1], s[2]>> /\ s[1] \in Blocks /\ s[2] \in Slots
    OBVIOUS
  <2>2. s[2] < write[s[1]]
    <3>1. write[s[1]] >= BLOCK_SIZE /\ write[s[1]] \in Nat
      BY <2>1, <1>3 DEF ProducerInv, ProducerTypeOK
    <3>2. s[2] \in Nat /\ s[2] < BLOCK_SIZE
      BY <2>1, Sizes DEF Slots
    <3> QED BY <3>1, <3>2, Sizes
  <2>3. PICK q \in Producers : \E k \in 1 .. Len(sent[q]) : sent[q][k] = <<s[1], s[2]>>
    BY <2>1, <2>2 DEF ProducerInv, SentOK
  <2>4. PICK k \in 1 .. Len(sent[q]) : sent[q][k] = s
    BY <2>1, <2>3
  <2>5. Len(sent[q]) \in Nat /\ Len(sent[q]) <= ItemsEach
    BY DEF ProducerInv, EnqueueOK, ProducerTypeOK
  <2>6. k \in 1 .. ItemsEach /\ ~(q = p /\ k = ItemsEach)
    BY <2>4, <2>5, <1>1, Sizes
  <2>7. <<q, k>> \in Free /\ At(s, <<q, k>>)
    BY <2>4, <2>6
  <2> QED BY <2>7
<1>5. f \in [All -> Free] /\ \A s \in All : At(s, f[s])
  BY <1>4
<1>6. IsInjective(f)
  <2> SUFFICES ASSUME NEW s \in All, NEW t \in All, f[s] = f[t] PROVE s = t
    BY <1>5 DEF IsInjective
  <2> QED BY <1>5
<1>7. f \in Injection(All, Free)
  BY <1>5, <1>6 DEF Injection
<1>8. IsFiniteSet(1 .. ItemsEach) /\ Cardinality(1 .. ItemsEach) = ItemsEach
  BY FS_Interval, Sizes
<1>9. IsFiniteSet(Producers) /\ Cardinality(Producers) \in Nat
  BY BlockAssumption, FS_CardinalityType
<1>10. IsFiniteSet(Places) /\ Cardinality(Places) = Cardinality(Producers) * ItemsEach
  BY <1>8, <1>9, FS_Product
<1>11. ItemsEach \in 1 .. ItemsEach
  <2>1. Len(sent[p]) \in Nat
    BY DEF ProducerInv, ProducerTypeOK
  <2> QED BY <2>1, <1>1, Sizes
<1>12. IsFiniteSet(Free) /\ Cardinality(Free) = Cardinality(Places) - 1
  <2>1. <<p, ItemsEach>> \in Places
    BY <1>11
  <2> HIDE DEF Places
  <2> QED BY <1>10, <2>1, FS_RemoveElement
<1>13. Cardinality(All) <= Cardinality(Free)
  BY <1>7, <1>12, FS_Injection
<1>14. /\ IsFiniteSet(Blocks) /\ Cardinality(Blocks) = MaxBlocks
       /\ IsFiniteSet(Slots) /\ Cardinality(Slots) = BLOCK_SIZE
  <2>1. Slots = 0 .. BLOCK_SIZE - 1 /\ Blocks = 1 .. MaxBlocks
    BY DEF Slots, Blocks
  <2>2. 0 \in Int /\ 1 \in Int /\ BLOCK_SIZE - 1 \in Int /\ MaxBlocks \in Int
    BY Sizes
  <2>3. IsFiniteSet(Blocks) /\ Cardinality(Blocks) = MaxBlocks - 1 + 1
    BY <2>1, <2>2, Sizes, FS_Interval
  <2>4. IsFiniteSet(Slots) /\ Cardinality(Slots) = BLOCK_SIZE - 1 - 0 + 1
    BY <2>1, <2>2, Sizes, FS_Interval
  <2> QED BY <2>3, <2>4, Sizes
<1>15. Cardinality(All) = MaxBlocks * BLOCK_SIZE
  BY <1>14, FS_Product
<1> HIDE DEF All, Free, Places
<1>16. Cardinality(Producers) * ItemsEach <= MaxBlocks * BLOCK_SIZE
  BY BlockAssumption, Sizes
<1>17. Cardinality(Producers) * ItemsEach \in Nat /\ MaxBlocks * BLOCK_SIZE \in Nat
  BY <1>9, Sizes
<1> QED BY <1>10, <1>12, <1>13, <1>15, <1>16, <1>17

-----------------------------------------------------------------------------
(* A step of a producer preserves the invariant.                           *)

LEMMA InitProducers == ProducerInit => ProducerInv
<1> SUFFICES ASSUME ProducerInit PROVE ProducerInv
  OBVIOUS
<1>1. ProducerTypeOK
  BY Sizes DEF ProducerInit, ProducerTypeOK
<1>2. Chained
  BY Sizes DEF ProducerInit, Chained, Blocks
<1>3. EnqueueOK
  BY Sizes DEF ProducerInit, EnqueueOK
<1>4. SentOK
  <2>1. \A p \in Producers : Len(sent[p]) = 0
    BY DEF ProducerInit
  <2>2. \A b \in Blocks, i \in Slots : ~(i < write[b])
    BY Sizes DEF ProducerInit
  <2>3. \A p \in Producers : 1 .. Len(sent[p]) = {}
    BY <2>1
  <2> QED BY <2>2, <2>3 DEF SentOK
<1>5. CommittedOK
  BY DEF ProducerInit, CommittedOK
<1> QED BY <1>1, <1>2, <1>3, <1>4, <1>5 DEF ProducerInv

\* enqueue loads the tail: what it claims next comes after what it has claimed.
LEMMA LoadTailKeeps ==
  ASSUME ProducerInv, NEW p \in Producers, LoadTail(p)
  PROVE  ProducerInv'
<1> USE DEF ProducerInv
<1>1. ProducerTypeOK'
  BY DEF LoadTail, PGoto, ProducerTypeOK
<1>2. Chained'
  BY DEF LoadTail, Chained
<1>3. EnqueueOK'
  BY Sizes DEF LoadTail, PGoto, ProducerTypeOK, EnqueueOK
<1>4. \A q \in Producers : \A k \in 1 .. Len(sent[q]) : sent[q][k][1] <= tail
  <2> SUFFICES ASSUME NEW q \in Producers, NEW k \in 1 .. Len(sent[q])
               PROVE  sent[q][k][1] <= tail
    OBVIOUS
  <2>1. /\ sent[q][k] \in Blocks \X Slots
        /\ sent[q][k][2] < write[sent[q][k][1]]
    BY DEF SentOK
  <2>2. sent[q][k][1] \in Blocks /\ sent[q][k][2] \in Nat
    BY <2>1, Sizes
  <2>3. write[sent[q][k][1]] # 0
    <3>1. \A i \in Nat : ~(i < 0)
      OBVIOUS
    <3> QED BY <2>1, <2>2, <3>1
  <2>4. \A b \in Blocks : write[b] # 0 => b <= tail
    BY Sizes DEF Chained, ProducerTypeOK
  <2> QED BY <2>2, <2>3, <2>4
<1>5. SentOK'
  <2>1. UNCHANGED <<sent, write>>
    BY DEF LoadTail
  <2>2. \A q \in Producers : ppc'[q] = "claim" =>
          \/ q = p /\ pblock'[q] = tail
          \/ ppc[q] = "claim" /\ pblock'[q] = pblock[q]
    BY DEF LoadTail, PGoto, ProducerTypeOK
  <2> QED BY <1>4, <2>1, <2>2 DEF SentOK
<1>6. CommittedOK'
  BY DEF LoadTail, PGoto, ProducerTypeOK, CommittedOK
<1> QED BY <1>1, <1>2, <1>3, <1>5, <1>6

\* enqueue claims a slot, or finds the block full.
LEMMA ClaimSlotKeeps ==
  ASSUME ProducerInv, NEW p \in Producers, ClaimSlot(p)
  PROVE  ProducerInv'
<1> USE DEF ProducerInv
<1> DEFINE b == pblock[p]
           w == write[b]
<1>1. /\ b \in Blocks /\ b <= tail /\ ppc[p] = "claim" /\ Len(sent[p]) < ItemsEach
      /\ w \in Nat /\ tail \in Blocks
  BY DEF ClaimSlot, EnqueueOK, ProducerTypeOK
<1>2. /\ write' = [write EXCEPT ![b] = w + 1]
      /\ pindex' = [pindex EXCEPT ![p] = w]
      /\ UNCHANGED <<next, committed, tail, pblock>>
  BY DEF ClaimSlot
<1>3. \/ /\ w < BLOCK_SIZE
         /\ ppc' = [ppc EXCEPT ![p] = "commit"]
         /\ sent' = [sent EXCEPT ![p] = Append(@, <<b, w>>)]
      \/ /\ ~(w < BLOCK_SIZE)
         /\ ppc' = [ppc EXCEPT ![p] = "link"]
         /\ UNCHANGED sent
  BY DEF ClaimSlot, PGoto
<1>4. w < BLOCK_SIZE => w \in Slots
  BY <1>1, Sizes DEF Slots
<1>5. \A c \in Blocks : write[c] <= write'[c]
  BY <1>1, <1>2 DEF ProducerTypeOK
<1> HIDE DEF b, w
<1>6. ProducerTypeOK'
  <2>1. sent' \in [Producers -> Seq(Blocks \X Slots)]
    <3>1. w < BLOCK_SIZE => <<b, w>> \in Blocks \X Slots
      BY <1>1, <1>4
    <3>2. w < BLOCK_SIZE => Append(sent[p], <<b, w>>) \in Seq(Blocks \X Slots)
      BY <3>1 DEF ProducerTypeOK
    <3> QED BY <3>2, <1>3 DEF ProducerTypeOK
  <2>2. w \in Nat /\ w + 1 \in Nat
    BY <1>1
  <2>3. UNCHANGED <<next, committed, tail, pblock>>
    BY <1>2
  <2>4. write' \in [Blocks -> Nat] /\ pindex' \in [Producers -> Nat]
    BY <2>2, <1>2 DEF ProducerTypeOK
  <2>5. ppc' \in [Producers -> {"idle", "retry", "claim", "commit", "link", "advance"}]
    BY <1>3 DEF ProducerTypeOK
  <2> QED BY <2>1, <2>3, <2>4, <2>5 DEF ProducerTypeOK
<1>7. Chained'
  BY <1>1, <1>2, <1>5, Sizes, SMTT(30) DEF ProducerTypeOK, Chained
<1>8. EnqueueOK'
  <2> SUFFICES ASSUME NEW q \in Producers PROVE EnqueueOK!(q)'
    BY DEF EnqueueOK
  <2>1. CASE q # p
    <3>1. /\ ppc'[q] = ppc[q] /\ sent'[q] = sent[q] /\ pindex'[q] = pindex[q]
          /\ pblock'[q] = pblock[q] /\ tail' = tail /\ next' = next
      BY <2>1, <1>2, <1>3 DEF ProducerTypeOK
    <3>2. \A c \in Blocks : write[c] >= BLOCK_SIZE => write'[c] >= BLOCK_SIZE
      <4>1. \A c \in Blocks : write[c] \in Nat /\ write'[c] \in Nat
        BY <1>6 DEF ProducerTypeOK
      <4> QED BY <4>1, <1>5, Sizes
    <3> QED BY <3>1, <3>2 DEF EnqueueOK
  <2>2. CASE q = p /\ w < BLOCK_SIZE
    <3>1. sent[p] \in Seq(Blocks \X Slots) /\ sent'[p] = Append(sent[p], <<b, w>>)
      BY <2>2, <1>3 DEF ProducerTypeOK
    <3>2. /\ Len(sent'[p]) = Len(sent[p]) + 1 /\ sent'[p][Len(sent'[p])] = <<b, w>>
          /\ sent'[p] # <<>> /\ Len(sent[p]) \in Nat
      BY <3>1
    <3>3. ppc'[p] = "commit" /\ pindex'[p] = w /\ pblock'[p] = b /\ b \in Blocks /\ b <= tail'
      BY <2>2, <1>1, <1>2, <1>3 DEF ProducerTypeOK, b
    <3> QED BY <2>2, <3>2, <3>3, <1>1, <1>4, Sizes DEF b
  <2>3. CASE q = p /\ ~(w < BLOCK_SIZE)
    <3>1. ppc'[p] = "link" /\ pblock'[p] = b /\ write'[b] = w + 1 /\ sent'[p] = sent[p] /\ tail' = tail
      BY <2>3, <1>1, <1>2, <1>3 DEF ProducerTypeOK, b
    <3> QED BY <2>3, <3>1, <1>1, Sizes DEF EnqueueOK
  <2> QED BY <2>1, <2>2, <2>3
<1>9. CommittedOK'
  <2>1. \A c \in Blocks, i \in Slots : i < write[c] => i < write'[c]
    <3>1. \A c \in Blocks : write[c] \in Nat /\ write'[c] \in Nat
      BY <1>6 DEF ProducerTypeOK
    <3> QED BY <3>1, <1>5, Sizes
  <2>2. w < BLOCK_SIZE => ~committed[b][w]
    BY <1>1, <1>4 DEF CommittedOK, b, w
  <2>3. ASSUME NEW q \in Producers, ppc'[q] = "commit"
        PROVE  ~committed'[pblock'[q]][pindex'[q]]
    <3>1. CASE q = p
      BY <3>1, <2>2, <2>3, <1>2, <1>3 DEF ProducerTypeOK, b
    <3>2. CASE q # p
      BY <3>2, <2>3, <1>2, <1>3 DEF ProducerTypeOK, CommittedOK
    <3> QED BY <3>1, <3>2
  <2>4. \A c \in Blocks, i \in Slots : committed'[c][i] => i < write'[c]
    BY <2>1, <1>2 DEF CommittedOK
  <2> QED BY <2>3, <2>4 DEF CommittedOK
<1>10. SentOK'
  <2>1. CASE ~(w < BLOCK_SIZE)
    <3>1. UNCHANGED <<sent, pblock>> /\ \A q \in Producers : ppc'[q] = "claim" => ppc[q] = "claim"
      BY <2>1, <1>2, <1>3 DEF ProducerTypeOK
    <3>2. \A c \in Blocks, i \in Slots : i < write'[c] <=> i < write[c]
      BY <2>1, <1>1, <1>2, Sizes DEF ProducerTypeOK, Slots, w
    <3>3. \A s \in Blocks \X Slots : s[2] < write[s[1]] => s[2] < write'[s[1]]
      BY <3>2
    <3> QED BY <3>1, <3>2, <3>3, SMTT(30) DEF SentOK
  <2>2. CASE w < BLOCK_SIZE
    <3> DEFINE new == <<b, w>>
               n == Len(sent[p])
    <3>1. /\ sent[p] \in Seq(Blocks \X Slots) /\ sent'[p] = Append(sent[p], new)
          /\ new \in Blocks \X Slots /\ new[1] = b /\ new[2] = w
          /\ \A q \in Producers : q # p => sent'[q] = sent[q]
          /\ n \in Nat
      BY <2>2, <1>1, <1>3, <1>4 DEF ProducerTypeOK
    <3>2. /\ Len(sent'[p]) = n + 1 /\ sent'[p][n + 1] = new
          /\ \A k \in 1 .. n : sent'[p][k] = sent[p][k]
      BY <3>1
    <3> HIDE DEF n, new
    <3>3. \A q \in Producers : \A k \in 1 .. Len(sent[q]) :
            /\ k \in 1 .. Len(sent'[q]) /\ sent'[q][k] = sent[q][k]
      <4> SUFFICES ASSUME NEW q \in Producers, NEW k \in 1 .. Len(sent[q])
                   PROVE  k \in 1 .. Len(sent'[q]) /\ sent'[q][k] = sent[q][k]
        OBVIOUS
      <4>1. CASE q = p
        BY <4>1, <3>1, <3>2 DEF n
      <4>2. CASE q # p
        BY <4>2, <3>1
      <4> QED BY <4>1, <4>2
    <3>4. \A q \in Producers : \A k \in 1 .. Len(sent'[q]) :
            \/ k \in 1 .. Len(sent[q]) /\ sent'[q][k] = sent[q][k]
            \/ q = p /\ k = n + 1 /\ sent'[q][k] = new
      <4> SUFFICES ASSUME NEW q \in Producers, NEW k \in 1 .. Len(sent'[q])
                   PROVE  \/ k \in 1 .. Len(sent[q]) /\ sent'[q][k] = sent[q][k]
                          \/ q = p /\ k = n + 1 /\ sent'[q][k] = new
        OBVIOUS
      <4>1. CASE q = p
        BY <4>1, <3>1, <3>2 DEF n
      <4>2. CASE q # p
        BY <4>2, <3>1
      <4> QED BY <4>1, <4>2
    <3>5. \A q \in Producers : \A k \in 1 .. Len(sent[q]) :
            /\ sent[q][k] \in Blocks \X Slots
            /\ sent[q][k][1] \in Blocks /\ sent[q][k][2] \in Nat
            /\ sent[q][k][2] < write[sent[q][k][1]]
            /\ sent[q][k][2] < write'[sent[q][k][1]]
            /\ sent[q][k][1] = b => sent[q][k][2] < w
            /\ sent[q][k] # new
      <4> SUFFICES ASSUME NEW q \in Producers, NEW k \in 1 .. Len(sent[q])
                   PROVE  <3>5!(q)!(k)
        OBVIOUS
      <4>1. sent[q][k] \in Blocks \X Slots /\ sent[q][k][2] < write[sent[q][k][1]]
        BY DEF SentOK
      <4>2. sent[q][k][1] \in Blocks /\ sent[q][k][2] \in Nat
        BY <4>1, Sizes
      <4>3. \A c \in Blocks : write[c] \in Nat /\ write'[c] \in Nat
        BY <1>6 DEF ProducerTypeOK
      <4>4. sent[q][k][2] < write'[sent[q][k][1]]
        BY <4>1, <4>2, <4>3, <1>5
      <4>5. sent[q][k][1] = b => sent[q][k][2] < w
        BY <4>1 DEF w
      <4>6. sent[q][k] # new
        BY <4>5, <4>2, <3>1, <1>1
      <4> QED BY <4>1, <4>2, <4>4, <4>5, <4>6
    <3>6. ASSUME NEW q \in Producers, NEW k \in 1 .. Len(sent'[q])
          PROVE  /\ sent'[q][k] \in Blocks \X Slots
                 /\ sent'[q][k][2] < write'[sent'[q][k][1]]
                 /\ ppc'[q] = "claim" => sent'[q][k][1] <= pblock'[q]
      <4>1. w < write'[b]
        BY <1>1, <1>2 DEF ProducerTypeOK
      <4>2. CASE q = p /\ k = n + 1 /\ sent'[q][k] = new
        BY <4>1, <4>2, <3>1, <1>3, <2>2 DEF ProducerTypeOK
      <4>3. CASE k \in 1 .. Len(sent[q]) /\ sent'[q][k] = sent[q][k]
        <5>1. ppc'[q] = "claim" => ppc[q] = "claim"
          BY <1>3, <2>2 DEF ProducerTypeOK
        <5> QED BY <5>1, <4>3, <3>5, <1>2 DEF SentOK
      <4> QED BY <4>2, <4>3, <3>4
    <3>7. ASSUME NEW c \in Blocks, NEW i \in Slots, i < write'[c]
          PROVE  \E q \in Producers : \E k \in 1 .. Len(sent'[q]) : sent'[q][k] = <<c, i>>
      <4>1. CASE i < write[c]
        <5>1. PICK q \in Producers : \E k \in 1 .. Len(sent[q]) : sent[q][k] = <<c, i>>
          BY <4>1 DEF SentOK
        <5> QED BY <5>1, <3>3
      <4>2. CASE ~(i < write[c])
        <5>1. c = b /\ i = w
          BY <3>7, <4>2, <1>1, <1>2, Sizes DEF ProducerTypeOK, w
        <5>2. n + 1 \in 1 .. Len(sent'[p])
          BY <3>1, <3>2
        <5> QED BY <5>1, <5>2, <3>2 DEF new
      <4> QED BY <4>1, <4>2
    <3>8. ASSUME NEW q \in Producers, NEW r \in Producers,
                 NEW k \in 1 .. Len(sent'[q]), NEW l \in 1 .. Len(sent'[r]),
                 sent'[q][k] = sent'[r][l]
          PROVE  q = r /\ k = l
      <4>1. CASE k \in 1 .. Len(sent[q]) /\ l \in 1 .. Len(sent[r])
        <5>1. sent[q][k] = sent[r][l]
          BY <4>1, <3>8, <3>3
        <5> QED BY <4>1, <5>1, SMTT(30) DEF SentOK
      <4>2. CASE k \notin 1 .. Len(sent[q])
        <5>1. q = p /\ k = n + 1 /\ sent'[r][l] = new
          BY <4>2, <3>8, <3>4
        <5>2. ~(l \in 1 .. Len(sent[r]) /\ sent'[r][l] = sent[r][l])
          BY <5>1, <3>5
        <5> QED BY <5>1, <5>2, <3>4
      <4>3. CASE l \notin 1 .. Len(sent[r])
        <5>1. r = p /\ l = n + 1 /\ sent'[q][k] = new
          BY <4>3, <3>8, <3>4
        <5>2. ~(k \in 1 .. Len(sent[q]) /\ sent'[q][k] = sent[q][k])
          BY <5>1, <3>5
        <5> QED BY <5>1, <5>2, <3>4
      <4> QED BY <4>1, <4>2, <4>3
    <3>9. ASSUME NEW q \in Producers, NEW k \in 1 .. Len(sent'[q]), NEW l \in 1 .. Len(sent'[q]), k < l
          PROVE  Precedes(sent'[q][k], sent'[q][l])
      <4>1. CASE l \in 1 .. Len(sent[q]) /\ sent'[q][l] = sent[q][l]
        <5>1. k \in 1 .. Len(sent[q])
          <6>1. Len(sent[q]) \in Nat
            BY DEF ProducerTypeOK
          <6> QED BY <6>1, <3>9, <4>1
        <5>2. sent'[q][k] = sent[q][k]
          BY <5>1, <3>3
        <5> QED BY <5>1, <5>2, <4>1, <3>9 DEF SentOK
      <4>2. CASE q = p /\ l = n + 1 /\ sent'[q][l] = new
        <5>1. k \in 1 .. Len(sent[p])
          BY <3>9, <4>2, <3>1 DEF n
        <5>2. sent[p][k][1] <= b
          BY <5>1, <1>1 DEF SentOK, b
        <5>3. sent[p][k][1] \in Nat /\ b \in Nat
          BY <5>1, <3>5, <1>1, Sizes
        <5>4. sent[p][k][1] = b => sent[p][k][2] < w
          BY <5>1, <3>5
        <5>5. sent'[q][k] = sent[p][k] /\ sent'[q][l][1] = b /\ sent'[q][l][2] = w
          BY <5>1, <4>2, <3>1, <3>3
        <5> QED BY <5>2, <5>3, <5>4, <5>5 DEF Precedes
      <4> QED BY <4>1, <4>2, <3>4
    <3> QED BY <3>6, <3>7, <3>8, <3>9 DEF SentOK
  <2> QED BY <2>1, <2>2
<1> QED BY <1>6, <1>7, <1>8, <1>9, <1>10

\* The item is published in the slot its producer claimed.
LEMMA CommitKeeps ==
  ASSUME ProducerInv, NEW p \in Producers, Commit(p)
  PROVE  ProducerInv'
<1> USE DEF ProducerInv
<1> DEFINE b == pblock[p]
           i == pindex[p]
           n == Len(sent[p])
<1>1. /\ ppc[p] = "commit" /\ b \in Blocks /\ i \in Slots
      /\ n \in Nat /\ n \in 1 .. n /\ sent[p][n] = <<b, i>>
  <2>1. sent[p] \in Seq(Blocks \X Slots) /\ sent[p] # <<>>
    BY DEF Commit, EnqueueOK, ProducerTypeOK
  <2>2. n \in Nat /\ n \in 1 .. n
    BY <2>1
  <2> QED BY <2>2 DEF Commit, EnqueueOK, ProducerTypeOK
<1>2. /\ committed' = [committed EXCEPT ![b][i] = TRUE]
      /\ ppc' = [ppc EXCEPT ![p] = "idle"]
      /\ pblock' = [pblock EXCEPT ![p] = NoBlock]
      /\ pindex' = [pindex EXCEPT ![p] = 0]
      /\ UNCHANGED <<write, next, tail, sent>>
  BY DEF Commit, PLeave, PGoto
<1>3. i < write[b]
  BY <1>1 DEF SentOK
<1> HIDE DEF b, i, n
<1>4. ProducerTypeOK'
  BY <1>1, <1>2 DEF ProducerTypeOK
<1>5. Chained'
  BY <1>2 DEF Chained
<1>6. EnqueueOK'
  BY <1>2 DEF ProducerTypeOK, EnqueueOK
<1>7. SentOK'
  <2>1. \A q \in Producers : ppc'[q] = "claim" => ppc[q] = "claim" /\ pblock'[q] = pblock[q]
    BY <1>2 DEF ProducerTypeOK
  <2> QED BY <2>1, <1>2 DEF SentOK
<1>8. CommittedOK'
  <2>1. ASSUME NEW c \in Blocks, NEW j \in Slots, committed'[c][j] PROVE j < write'[c]
    BY <2>1, <1>1, <1>2, <1>3 DEF CommittedOK, ProducerTypeOK
  <2>2. ASSUME NEW q \in Producers, ppc'[q] = "commit"
        PROVE  ~committed'[pblock'[q]][pindex'[q]]
    <3> DEFINE m == Len(sent[q])
               c == pblock[q]
               j == pindex[q]
    <3>1. q # p /\ ppc[q] = "commit" /\ pblock'[q] = c /\ pindex'[q] = j
      BY <2>2, <1>2 DEF ProducerTypeOK
    <3>2. ~committed[c][j] /\ c \in Blocks /\ j \in Slots
      BY <3>1 DEF CommittedOK, EnqueueOK
    <3>3. sent[q] \in Seq(Blocks \X Slots) /\ sent[q] # <<>> /\ sent[q][m] = <<c, j>>
      BY <3>1 DEF EnqueueOK, ProducerTypeOK
    <3>4. m \in 1 .. m
      BY <3>3
    <3>5. <<c, j>> # <<b, i>>
      <4>1. n \in 1 .. Len(sent[p]) /\ sent[p][n] = <<b, i>>
        BY <1>1 DEF n
      <4>2. m \in 1 .. Len(sent[q]) /\ sent[q][m] = <<c, j>>
        BY <3>3, <3>4
      <4>3. sent[q][m] # sent[p][n]
        BY <3>1, <4>1, <4>2 DEF SentOK
      <4> QED BY <4>1, <4>2, <4>3
    <3> HIDE DEF c, j
    <3> QED BY <3>1, <3>2, <3>5, <1>1, <1>2 DEF ProducerTypeOK
  <2> QED BY <2>1, <2>2 DEF CommittedOK
<1> QED BY <1>4, <1>5, <1>6, <1>7, <1>8

\* A full block gets its one successor.
LEMMA LinkNextBlockKeeps ==
  ASSUME ProducerInv, NEW p \in Producers, LinkNextBlock(p)
  PROVE  ProducerInv'
<1> USE DEF ProducerInv
<1> DEFINE b == pblock[p]
<1>1. ppc[p] = "link" /\ b \in Blocks /\ b + 1 \in Blocks /\ write[b] >= BLOCK_SIZE
  BY RoomLeft DEF LinkNextBlock, EnqueueOK
<1>2. /\ next' = [next EXCEPT ![b] = IF @ = NoBlock THEN b + 1 ELSE @]
      /\ ppc' = [ppc EXCEPT ![p] = "advance"]
      /\ UNCHANGED <<write, committed, tail, pblock, pindex, sent>>
  BY DEF LinkNextBlock, PGoto
<1>3. next'[b] # NoBlock
  BY <1>1, <1>2, Sizes DEF ProducerTypeOK
<1>4. \A c \in Blocks : next[c] # NoBlock => next'[c] = next[c]
  BY <1>1, <1>2 DEF ProducerTypeOK
<1> HIDE DEF b
<1>5. ProducerTypeOK'
  BY <1>1, <1>2 DEF ProducerTypeOK
<1>6. Chained'
  BY <1>1, <1>2, <1>4, Sizes DEF Chained, ProducerTypeOK
<1>7. EnqueueOK'
  BY <1>1, <1>2, <1>3, <1>4 DEF EnqueueOK, ProducerTypeOK, b
<1>8. \A q \in Producers : q # p => ppc'[q] = ppc[q]
  BY <1>2 DEF ProducerTypeOK
<1>9. ppc'[p] = "advance"
  BY <1>2 DEF ProducerTypeOK
<1>10. SentOK'
  BY <1>2, <1>8, <1>9 DEF SentOK
<1>11. CommittedOK'
  BY <1>2, <1>8, <1>9 DEF CommittedOK
<1> QED BY <1>5, <1>6, <1>7, <1>10, <1>11

\* tail moves on by one block, and only past a linked one.
LEMMA AdvanceTailKeeps ==
  ASSUME ProducerInv, NEW p \in Producers, AdvanceTail(p)
  PROVE  ProducerInv'
<1> USE DEF ProducerInv
<1> DEFINE b == pblock[p]
<1>1. ppc[p] = "advance" /\ b \in Blocks /\ next[b] # NoBlock /\ tail \in Blocks
  BY DEF AdvanceTail, EnqueueOK, ProducerTypeOK
<1>2. next[b] = b + 1 /\ next[b] \in Blocks /\ b + 1 \in Blocks
  <2>1. next[b] \in Blocks
    BY <1>1 DEF ProducerTypeOK
  <2>2. next[b] = b + 1
    BY <1>1 DEF Chained
  <2> QED BY <2>1, <2>2
<1>3. /\ tail' = IF tail = b THEN next[b] ELSE tail
      /\ ppc' = [ppc EXCEPT ![p] = "retry"]
      /\ pblock' = [pblock EXCEPT ![p] = NoBlock]
      /\ pindex' = [pindex EXCEPT ![p] = 0]
      /\ UNCHANGED <<write, next, committed, sent>>
  BY DEF AdvanceTail, PLeave, PGoto
<1>4. tail' \in Blocks /\ tail <= tail'
  BY <1>1, <1>2, <1>3, Sizes
<1> HIDE DEF b
<1>5. ProducerTypeOK'
  BY <1>3, <1>4 DEF ProducerTypeOK
<1>6. Chained'
  BY <1>1, <1>2, <1>3, Sizes DEF Chained, ProducerTypeOK
<1>7. \A q \in Producers : q # p => ppc'[q] = ppc[q] /\ pblock'[q] = pblock[q] /\ pindex'[q] = pindex[q]
  BY <1>3 DEF ProducerTypeOK
<1>8. ppc'[p] = "retry"
  BY <1>3 DEF ProducerTypeOK
<1>9. EnqueueOK'
  <2> SUFFICES ASSUME NEW q \in Producers PROVE EnqueueOK!(q)'
    BY DEF EnqueueOK
  <2>1. CASE q = p
    BY <2>1, <1>1, <1>3, <1>8 DEF EnqueueOK
  <2>2. CASE q # p
    <3>1. \A c \in Blocks : c <= tail => c <= tail'
      BY <1>1, <1>4, Sizes
    <3> QED BY <2>2, <3>1, <1>3, <1>7 DEF EnqueueOK
  <2> QED BY <2>1, <2>2
<1>10. SentOK'
  BY <1>3, <1>7, <1>8 DEF SentOK
<1>11. CommittedOK'
  BY <1>3, <1>7, <1>8 DEF CommittedOK
<1> QED BY <1>5, <1>6, <1>9, <1>10, <1>11

LEMMA ProducerKeeps ==
  ASSUME ProducerInv, NEW p \in Producers, ProducerStep(p)
  PROVE  ProducerInv'
  BY LoadTailKeeps, ClaimSlotKeeps, CommitKeeps, LinkNextBlockKeeps, AdvanceTailKeeps
  DEF ProducerStep

\* The consumers leave the producers alone: all they do to them is to take back
\* the mark of a slot they have emptied.
LEMMA ConsumersLeave ==
  ASSUME ProducerInv, UNCHANGED producerVars,
         committed' \in [Blocks -> [Slots -> BOOLEAN]],
         \A b \in Blocks, i \in Slots : committed'[b][i] => committed[b][i]
  PROVE  ProducerInv'
<1> USE DEF ProducerInv, producerVars
<1>1. ProducerTypeOK'
  BY DEF ProducerTypeOK
<1>2. Chained' /\ SentOK'
  BY DEF Chained, SentOK
<1>3. EnqueueOK'
  BY DEF EnqueueOK
<1>4. CommittedOK'
  BY DEF CommittedOK, EnqueueOK
<1> QED BY <1>1, <1>2, <1>3, <1>4

-----------------------------------------------------------------------------
(* What the consumers see of a producer's step, and of the blocks.          *)

\* Slots are claimed and published, blocks linked, for good.
LEMMA ProducerEffect ==
  ASSUME ProducerInv, NEW p \in Producers, ProducerStep(p)
  PROVE  /\ \A b \in Blocks : write[b] <= write'[b]
         /\ \A b \in Blocks : next[b] # NoBlock => next'[b] = next[b]
         /\ \A b \in Blocks, i \in Slots : committed[b][i] => committed'[b][i]
<1> USE DEF ProducerInv
<1>1. CASE LoadTail(p)
  BY <1>1 DEF LoadTail, ProducerTypeOK
<1>2. CASE ClaimSlot(p)
  BY <1>2 DEF ClaimSlot, ProducerTypeOK
<1>3. CASE Commit(p)
  BY <1>3 DEF Commit, ProducerTypeOK
<1>4. CASE LinkNextBlock(p)
  BY <1>4 DEF LinkNextBlock, ProducerTypeOK
<1>5. CASE AdvanceTail(p)
  BY <1>5 DEF AdvanceTail, ProducerTypeOK
<1> QED BY <1>1, <1>2, <1>3, <1>4, <1>5 DEF ProducerStep

\* Producer p is about to publish slot i of block b.
Publishing(p, b, i) == ppc[p] = "commit" /\ pblock[p] = b /\ pindex[p] = i

\* A slot that is not published is in the hands of the producer that claimed it;
\* one that gets published was.
LEMMA PublishingEffect ==
  ASSUME ProducerInv, NEW p \in Producers, ProducerStep(p)
  PROVE  /\ \A q \in Producers, b \in Blocks, i \in Slots :
              Publishing(q, b, i) => Publishing(q, b, i)' \/ committed'[b][i]
         /\ \A b \in Blocks, i \in Slots :
              committed'[b][i] => committed[b][i] \/ \E q \in Producers : Publishing(q, b, i)
         /\ \A q \in Producers, b \in Blocks, i \in Slots :
              Publishing(q, b, i)' => Publishing(q, b, i) \/ ~(i < write[b])
         /\ \A b \in Blocks, i \in Slots :
              i < write'[b] => i < write[b] \/ \E q \in Producers : Publishing(q, b, i)'
<1> USE DEF ProducerInv, Publishing, PGoto, PLeave
<1>1. CASE LoadTail(p)
  BY <1>1 DEF LoadTail, ProducerTypeOK
<1>2. CASE ClaimSlot(p)
  <2>1. ppc[p] = "claim" /\ pblock[p] \in Blocks /\ UNCHANGED <<committed, pblock>>
    BY <1>2 DEF ClaimSlot, EnqueueOK
  <2>2. \A q \in Producers : q # p => ppc'[q] = ppc[q] /\ pindex'[q] = pindex[q]
    BY <1>2 DEF ClaimSlot, ProducerTypeOK
  <2>3. pindex'[p] = write[pblock[p]] /\ write[pblock[p]] \in Nat
    BY <1>2, <2>1 DEF ClaimSlot, ProducerTypeOK
  <2>4. ASSUME NEW b \in Blocks, NEW i \in Slots, i < write'[b], ~(i < write[b])
        PROVE  Publishing(p, b, i)'
    <3>1. b = pblock[p] /\ i = write[b]
      BY <2>4, <2>1, <1>2, Sizes DEF ClaimSlot, ProducerTypeOK
    <3>2. write[b] < BLOCK_SIZE
      BY <3>1, Sizes DEF Slots
    <3> QED BY <3>1, <3>2, <2>1, <2>3, <1>2 DEF ClaimSlot, ProducerTypeOK
  <2> QED BY <2>1, <2>2, <2>3, <2>4
<1>3. CASE Commit(p)
  <2>1. \A q \in Producers : q # p => ppc'[q] = ppc[q] /\ pblock'[q] = pblock[q] /\ pindex'[q] = pindex[q]
    BY <1>3 DEF Commit, ProducerTypeOK
  <2>2. ppc'[p] = "idle" /\ Publishing(p, pblock[p], pindex[p]) /\ write' = write
    BY <1>3 DEF Commit, ProducerTypeOK
  <2>3. pblock[p] \in Blocks /\ pindex[p] \in Slots
    BY <1>3 DEF Commit, EnqueueOK
  <2>4. committed'[pblock[p]][pindex[p]]
    BY <1>3, <2>3 DEF Commit, ProducerTypeOK
  <2>5. \A b \in Blocks, i \in Slots : committed'[b][i] => committed[b][i] \/ (b = pblock[p] /\ i = pindex[p])
    BY <1>3, <2>3 DEF Commit, ProducerTypeOK
  <2> QED BY <2>1, <2>2, <2>4, <2>5
<1>4. CASE LinkNextBlock(p)
  BY <1>4 DEF LinkNextBlock, ProducerTypeOK
<1>5. CASE AdvanceTail(p)
  BY <1>5 DEF AdvanceTail, ProducerTypeOK
<1> QED BY <1>1, <1>2, <1>3, <1>4, <1>5 DEF ProducerStep

\* The shape of the list that both queues' runs check.
LEMMA Shapes == ASSUME ProducerInv PROVE SlotOwnedOnce /\ LinkedWhenFull
<1> USE DEF ProducerInv
<1>1. sent \in [Producers -> Seq(Blocks \X Slots)]
  BY DEF ProducerTypeOK
<1>2. \A p \in Producers : DOMAIN sent[p] = 1 .. Len(sent[p])
  BY <1>1
<1>3. ASSUME NEW p \in Producers, NEW q \in Producers, p # q
      PROVE  ToSet(sent[p]) \cap ToSet(sent[q]) = {}
  <2> SUFFICES ASSUME NEW s, s \in ToSet(sent[p]), s \in ToSet(sent[q]) PROVE FALSE
    OBVIOUS
  <2>1. PICK k \in 1 .. Len(sent[p]) : sent[p][k] = s
    BY <1>2 DEF ToSet
  <2>2. PICK l \in 1 .. Len(sent[q]) : sent[q][l] = s
    BY <1>2 DEF ToSet
  <2> QED BY <2>1, <2>2, <1>3 DEF SentOK
<1>4. \A p \in Producers : IsInjective(sent[p])
  BY <1>2 DEF IsInjective, SentOK
<1>5. ASSUME NEW b \in Blocks, NEW i \in Slots, i < write[b] PROVE <<b, i>> \in Claimed
  BY <1>1, <1>5, ClaimedBelowWrite
<1>6. \A b \in Blocks : next[b] # NoBlock => \A i \in Slots : i < write[b]
  BY Sizes DEF Chained, Slots, ProducerTypeOK
<1>7. SlotOwnedOnce
  BY <1>3, <1>4, <1>5 DEF SlotOwnedOnce, CommittedOK
<1>8. LinkedWhenFull
  BY <1>5, <1>6 DEF LinkedWhenFull
<1> QED BY <1>7, <1>8

-----------------------------------------------------------------------------
(* What the destructors delete.                                            *)

\* The elements of a finite set in some order, each once.
LEMMA SetToSeqLists ==
  ASSUME NEW S, IsFiniteSet(S)
  PROVE  /\ SetToSeq(S) \in Seq(S)
         /\ IsInjective(SetToSeq(S)) /\ ToSet(SetToSeq(S)) = S
<1> DEFINE N == 1 .. Cardinality(S)
           f == SetToSeq(S)
<1>1. Cardinality(S) \in Nat /\ ExistsBijection(N, S)
  BY FS_CardinalityType
<1>2. \E g \in [N -> S] : IsInjective(g)
  BY <1>1 DEF ExistsBijection, Bijection, Injection
<1>3. f \in [N -> S] /\ IsInjective(f)
  BY <1>2 DEF SetToSeq
<1>4. f \in Seq(S)
  BY <1>1, <1>3
<1>5. Cardinality(N) = Cardinality(S) /\ IsFiniteSet(N)
  BY <1>1, FS_Interval
<1>6. f \in Injection(N, S)
  BY <1>3 DEF Injection
<1>7. f \in Surjection(N, S)
  BY <1>5, <1>6, FS_Injection
<1>8. ToSet(f) = S
  BY <1>3, <1>7 DEF ToSet, Surjection
<1> QED BY <1>3, <1>4, <1>8

\* With the blocks before h in the graveyard, and linked, the list from h on and
\* the graveyard are every block there is, once.
LEMMA BlocksOnce ==
  ASSUME NEW h \in Blocks, NEW g \in Seq(Blocks),
         Len(g) = h - 1, \A k \in 1 .. Len(g) : g[k] = k,
         \A b \in Blocks : b < h => next[b] # NoBlock
  PROVE  /\ IsInjective(SetToSeq(From(h)) \o g)
         /\ ToSet(SetToSeq(From(h)) \o g) = From(1)
<1> DEFINE F == From(h)
           f == SetToSeq(F)
           n == Len(f)
           all == f \o g
<1>1. h \in Nat /\ h >= 1 /\ h <= MaxBlocks /\ MaxBlocks \in Nat
  BY Sizes DEF Blocks
<1>2. F \subseteq Blocks /\ \A b \in F : b >= h
  BY DEF From
<1>3. IsFiniteSet(F)
  <2>1. IsFiniteSet(Blocks)
    BY Sizes, FS_Interval DEF Blocks
  <2> QED BY <1>2, <2>1, FS_Subset
<1>4. f \in Seq(F) /\ IsInjective(f) /\ ToSet(f) = F
  BY <1>3, SetToSeqLists
<1> HIDE DEF f
<1>5. n \in Nat /\ DOMAIN f = 1 .. n
  BY <1>4
<1>6. /\ \A j \in 1 .. n : f[j] \in F
      /\ \A j, k \in 1 .. n : f[j] = f[k] => j = k
      /\ \A b \in F : \E j \in 1 .. n : f[j] = b
  BY <1>4, <1>5 DEF IsInjective, ToSet
<1>7. /\ Len(all) = n + (h - 1) /\ DOMAIN all = 1 .. n + (h - 1)
      /\ \A j \in 1 .. n : all[j] = f[j]
      /\ \A k \in 1 .. h - 1 : all[n + k] = k
  <2>1. f \in Seq(Blocks)
    BY <1>2, <1>4
  <2> QED BY <2>1, <1>1, <1>5
<1>8. \A j \in DOMAIN all : j \in 1 .. n \/ \E k \in 1 .. h - 1 : j = n + k
  <2>1. ASSUME NEW j \in 1 .. n + (h - 1), j \notin 1 .. n
        PROVE  j - n \in 1 .. h - 1 /\ j = n + (j - n)
    BY <2>1, <1>1, <1>5
  <2> QED BY <2>1, <1>7
<1>9. \A k \in 1 .. h - 1 : k \notin F /\ k \in Blocks /\ k < h
  BY <1>1, <1>2, Sizes DEF Blocks
<1> HIDE DEF all, F
<1>10. IsInjective(all)
  <2> SUFFICES ASSUME NEW i \in DOMAIN all, NEW j \in DOMAIN all, all[i] = all[j] PROVE i = j
    BY DEF IsInjective
  <2>1. CASE i \in 1 .. n /\ j \in 1 .. n
    BY <2>1, <1>6, <1>7
  <2>2. CASE \E k, l \in 1 .. h - 1 : i = n + k /\ j = n + l
    BY <2>2, <1>7
  <2>3. CASE i \in 1 .. n /\ \E k \in 1 .. h - 1 : j = n + k
    BY <2>3, <1>6, <1>7, <1>9
  <2>4. CASE j \in 1 .. n /\ \E k \in 1 .. h - 1 : i = n + k
    BY <2>4, <1>6, <1>7, <1>9
  <2> QED BY <2>1, <2>2, <2>3, <2>4, <1>8
<1>11. F \cup (1 .. h - 1) = From(1)
  <2>1. ASSUME NEW b \in F PROVE b \in From(1)
    <3>1. b \in Blocks /\ b >= h /\ \A d \in h .. b - 1 : next[d] # NoBlock
      BY DEF F, From
    <3>2. \A d \in 1 .. b - 1 : d \in Blocks /\ (d < h \/ d \in h .. b - 1)
      BY <3>1, <1>1, Sizes DEF Blocks
    <3> QED BY <3>1, <3>2, Sizes DEF From, Blocks
  <2>2. ASSUME NEW b \in 1 .. h - 1 PROVE b \in From(1)
    <3>1. \A d \in 1 .. b - 1 : d \in Blocks /\ d < h
      BY <1>1, Sizes DEF Blocks
    <3> QED BY <3>1, <1>1, <1>9 DEF From
  <2>3. ASSUME NEW b \in From(1), b \notin 1 .. h - 1 PROVE b \in F
    <3>1. b \in Blocks /\ b >= h /\ \A d \in 1 .. b - 1 : next[d] # NoBlock
      BY <2>3, <1>1, Sizes DEF From, Blocks
    <3>2. \A d \in h .. b - 1 : d \in 1 .. b - 1
      BY <3>1, <1>1, Sizes DEF Blocks
    <3> QED BY <3>1, <3>2 DEF F, From
  <2> QED BY <2>1, <2>2, <2>3
<1>12. ToSet(all) = F \cup (1 .. h - 1)
  <2>1. ASSUME NEW x \in ToSet(all) PROVE x \in F \cup (1 .. h - 1)
    <3>1. PICK j \in DOMAIN all : all[j] = x
      BY DEF ToSet
    <3> QED BY <3>1, <1>6, <1>7, <1>8
  <2>2. ASSUME NEW x \in F PROVE x \in ToSet(all)
    <3>1. PICK j \in 1 .. n : f[j] = x
      BY <1>6
    <3>2. j \in DOMAIN all /\ all[j] = x
      BY <3>1, <1>1, <1>5, <1>7
    <3> QED BY <3>2 DEF ToSet
  <2>3. ASSUME NEW x \in 1 .. h - 1 PROVE x \in ToSet(all)
    <3>1. n + x \in DOMAIN all /\ all[n + x] = x
      BY <1>1, <1>5, <1>7
    <3> QED BY <3>1 DEF ToSet
  <2> QED BY <2>1, <2>2, <2>3
<1> QED BY <1>10, <1>11, <1>12 DEF all, f, F
=============================================================================

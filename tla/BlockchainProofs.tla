-------------------------- MODULE BlockchainProofs --------------------------
(* Proofs about Blockchain: the tree of blocks, its canonical chain,         *)
(* finality and the epoch snapshots, for any validators, stakes,             *)
(* transactions and ChainConfig.                                             *)
EXTENDS Blockchain, LedgerProofs

(***************************************************************************)
(* The inductive invariant.  Every attempt to make a block takes a new     *)
(* slot, so the block is ahead of all others in slots; that is what makes  *)
(* a branch increase in slots, keeps two blocks out of one slot, and lets  *)
(* the tip's slot, and finality with it, only move forward.                *)
(***************************************************************************)

LastSlot(hash) == hash[Len(hash)].Slot

\* A branch from genesis with rising slots.
IsBranch(hash) ==
  /\ hash \in Seq({hash[i] : i \in DOMAIN hash})
  /\ Len(hash) >= 1
  /\ hash[1] = GenesisHeader
  /\ \A i \in 1..Len(hash) : hash[i].Slot \in Nat
  /\ \A i, j \in 1..Len(hash) : i < j => hash[i].Slot < hash[j].Slot

\* Nothing that was inserted lacks an ancestor.
Rooted == \A hash \in blocks : \A i \in 1..Len(hash) : SubSeq(hash, 1, i) \in blocks

TreeInv ==
  /\ tick \in Nat
  /\ Rooted
  /\ \A hash \in blocks : IsBranch(hash) /\ LastSlot(hash) <= Slot(tick)
  /\ \A a, b \in blocks : LastSlot(a) = LastSlot(b) => a = b

ProducersInv ==
  /\ equivocations = <<>>
  /\ \A key \in DOMAIN slotProducers : key[1] \in Nat /\ key[1] <= Slot(tick)

CanonicalInv ==
  /\ tip \in blocks
  /\ chain = tip
  /\ finalized \in Nat
  /\ TipNeverBehind

ChainInv == TreeInv /\ ProducersInv /\ CanonicalInv

-----------------------------------------------------------------------------
(* Lemmas about the operators.                                               *)

\* One slot is TicksPerSlot ticks.
LEMMA NextSlotIsNext ==
  ASSUME tick \in Nat
  PROVE  NextTick \in Nat /\ Slot(NextTick) = Slot(tick) + 1 /\ Slot(tick) \in Nat
BY DEF NextTick, Slot, TicksPerSlot

\* A branch has a last slot.
LEMMA BranchLastSlot ==
  ASSUME NEW hash, IsBranch(hash)
  PROVE  Len(hash) \in 1..Len(hash) /\ LastSlot(hash) \in Nat
<1>1. hash \in Seq({hash[i] : i \in DOMAIN hash}) /\ Len(hash) >= 1
  BY DEF IsBranch
<1>2. Len(hash) \in Nat
  BY <1>1
<1>3. Len(hash) \in 1..Len(hash)
  BY <1>1, <1>2
<1>4. \A i \in 1..Len(hash) : hash[i].Slot \in Nat
  BY DEF IsBranch
<1>5. hash[Len(hash)].Slot \in Nat
  BY <1>3, <1>4
<1> QED
  BY <1>3, <1>5 DEF LastSlot

\* A block with a later slot than its parent makes a longer branch.
LEMMA AppendBranch ==
  ASSUME NEW parent, IsBranch(parent), NEW header,
         header.Slot \in Nat, LastSlot(parent) < header.Slot
  PROVE  LET hash == Append(parent, header)
         IN /\ IsBranch(hash)
            /\ Len(hash) = Len(parent) + 1
            /\ hash[Len(hash)] = header
            /\ \A i \in 1..Len(parent) : hash[i] = parent[i]
<1> DEFINE hash == Append(parent, header)
           Old == {parent[i] : i \in DOMAIN parent}
           New == {hash[i] : i \in DOMAIN hash}
<1>1. parent \in Seq(Old \cup {header}) /\ Len(parent) \in Nat
  BY DEF IsBranch
<1>2. /\ hash \in Seq(Old \cup {header})
      /\ Len(hash) = Len(parent) + 1
      /\ hash[Len(parent) + 1] = header
      /\ \A i \in 1..Len(parent) : hash[i] = parent[i]
  BY <1>1
<1>3. DOMAIN hash = 1..Len(hash)
  BY <1>2
<1>4. hash \in Seq(New)
  BY <1>2, <1>3
<1>5. hash[1] = GenesisHeader
  BY <1>1, <1>2 DEF IsBranch
<1>6. \A i \in 1..Len(hash) : hash[i].Slot \in Nat
  BY <1>1, <1>2 DEF IsBranch
<1>7. \A i \in 1..Len(parent) : parent[i].Slot <= LastSlot(parent)
  BY <1>1 DEF IsBranch, LastSlot
<1>8. \A i, j \in 1..Len(hash) : i < j => hash[i].Slot < hash[j].Slot
  <2> SUFFICES ASSUME NEW i \in 1..Len(hash), NEW j \in 1..Len(hash), i < j
               PROVE  hash[i].Slot < hash[j].Slot
    OBVIOUS
  <2>1. i \in 1..Len(parent) /\ hash[i] = parent[i]
    BY <1>1, <1>2
  <2>2. CASE j \in 1..Len(parent)
    BY <1>2, <2>1, <2>2 DEF IsBranch
  <2>3. CASE j = Len(parent) + 1
    <3>1. hash[j] = header
      BY <1>2, <2>3
    <3>2. parent[i].Slot <= LastSlot(parent) /\ parent[i].Slot \in Nat
      BY <1>7, <2>1 DEF IsBranch
    <3>3. LastSlot(parent) \in Nat
      BY BranchLastSlot
    <3> QED
      BY <2>1, <3>1, <3>2, <3>3
  <2> QED
    BY <1>1, <1>2, <2>2, <2>3
<1>9. Len(hash) >= 1
  BY <1>1, <1>2
<1>10. IsBranch(hash)
  BY <1>4, <1>5, <1>6, <1>8, <1>9 DEF IsBranch
<1> QED
  BY <1>1, <1>2, <1>10

\* Before the position computeReorgDepthAndSlot finds, the branches agree.
LEMMA DivergenceProperties ==
  ASSUME NEW old, NEW new, IsBranch(old), IsBranch(new)
  PROVE  LET d == Divergence(old, new)
         IN /\ d \in Nat \ {0}
            /\ d <= Len(old) + 1
            /\ d <= Len(new) + 1
            /\ \A i \in Nat \ {0} : i < d => old[i] = new[i]
<1> DEFINE shorter == IF Len(new) < Len(old) THEN Len(new) ELSE Len(old)
           differ == {i \in 1..shorter : old[i] # new[i]}
           d == Divergence(old, new)
<1>1. Len(old) \in Nat /\ Len(new) \in Nat
  BY DEF IsBranch
<1>2. shorter \in Nat /\ shorter <= Len(old) /\ shorter <= Len(new)
  BY <1>1
<1>3. CASE differ = {}
  <2>1. d = shorter + 1
    BY <1>3 DEF Divergence
  <2> QED
    BY <1>1, <1>2, <1>3, <2>1
<1>4. CASE differ # {}
  <2>1. d = Min(differ)
    BY <1>4 DEF Divergence
  <2>2. differ \in SUBSET Nat
    BY <1>2
  <2>3. d \in differ /\ \A y \in differ : d <= y
    BY <1>4, <2>1, <2>2, MinProperties
  <2>4. d \in 1..shorter
    BY <2>3
  <2>5. \A i \in Nat \ {0} : i < d => old[i] = new[i]
    BY <1>2, <2>3, <2>4
  <2> QED
    BY <1>1, <1>2, <2>4, <2>5
<1> QED
  BY <1>3, <1>4

\* A branch that differs from the canonical one only after the finalized slot
\* keeps every finalized block.
LEMMA LateDivergenceKeepsFinalized ==
  ASSUME NEW old, NEW new, IsBranch(old), IsBranch(new), finalized \in Nat,
         ~ (finalized > 0 /\ DivergeSlot(old, new) <= finalized),
         NEW i \in 1..Len(old), old[i].Slot <= finalized
  PROVE  i \in 1..Len(new) /\ new[i] = old[i]
<1> DEFINE d == Divergence(old, new)
<1>1. Len(old) \in Nat /\ Len(new) \in Nat /\ Len(old) >= 1 /\ Len(new) >= 1
  BY DEF IsBranch
<1>2. /\ d \in Nat \ {0}
      /\ d <= Len(old) + 1
      /\ d <= Len(new) + 1
      /\ \A k \in Nat \ {0} : k < d => old[k] = new[k]
  BY DivergenceProperties
<1>3. CASE finalized = 0
  <2>1. old[1].Slot = 0
    BY DEF IsBranch, GenesisHeader
  <2>2. old[i].Slot \in Nat /\ (1 < i => old[1].Slot < old[i].Slot)
    BY <1>1 DEF IsBranch
  <2>3. i = 1
    BY <1>1, <1>3, <2>1, <2>2
  <2> QED
    BY <1>1, <2>3 DEF IsBranch
<1>4. CASE finalized > 0 /\ d <= Len(old)
  <2>1. DivergeSlot(old, new) = old[d].Slot
    <3> HIDE DEF d
    <3>1. DivergeSlot(old, new)
            = CASE d <= Len(old) -> old[d].Slot
                [] d > Len(old) /\ d <= Len(new) -> new[d].Slot
                [] OTHER -> 0
      BY DEF DivergeSlot, d
    <3> QED
      BY <1>1, <1>2, <1>4, <3>1
  <2>2. d \in 1..Len(old) /\ old[d].Slot \in Nat /\ old[i].Slot \in Nat
    <3> HIDE DEF d
    <3>1. d \in 1..Len(old)
      BY <1>1, <1>2, <1>4
    <3> QED
      BY <3>1 DEF IsBranch
  <2>3. old[i].Slot < old[d].Slot
    BY <1>4, <2>1, <2>2
  <2>4. i < d
    <3>1. d < i => old[d].Slot < old[i].Slot
      BY <2>2 DEF IsBranch
    <3> QED
      BY <1>1, <1>2, <2>2, <2>3, <3>1
  <2> QED
    BY <1>1, <1>2, <2>4
<1>5. CASE d > Len(old)
  BY <1>1, <1>2, <1>5
<1> QED
  BY <1>1, <1>2, <1>3, <1>4, <1>5

\* updateCanonical adopts no branch that differs in a finalized slot.
LEMMA AdoptedIsLate ==
  ASSUME NEW old, NEW new, NEW snaps, Verdict(old, new, snaps) = "adopt"
  PROVE  ~ (finalized > 0 /\ DivergeSlot(old, new) <= finalized)
BY DEF Verdict

-----------------------------------------------------------------------------
(* The step that inserts a block.                                            *)

\* What a step may do to the canonical chain.
ChainStep ==
  /\ \A i \in DOMAIN chain : chain[i].Slot <= finalized =>
       i \in DOMAIN chain' /\ chain'[i] = chain[i]
  /\ finalized <= finalized'

\* The prefixes of a branch and of the branch one block longer.
LEMMA AppendPrefixes ==
  ASSUME NEW parent, IsBranch(parent), NEW header, NEW i \in 1..Len(parent)
  PROVE  SubSeq(Append(parent, header), 1, i) = SubSeq(parent, 1, i)
<1> DEFINE S == {parent[j] : j \in DOMAIN parent} \cup {header}
           hash == Append(parent, header)
<1>1. parent \in Seq(S) /\ Len(parent) \in Nat
  BY DEF IsBranch
<1>2. hash \in Seq(S) /\ \A j \in 1..Len(parent) : hash[j] = parent[j] /\ parent[j] \in S
  BY <1>1
<1> HIDE DEF S, hash
<1>3. \A j \in 1..i : j \in 1..Len(parent) /\ hash[j] = parent[j] /\ parent[j] \in S
  BY <1>1, <1>2
<1>4. 1 \in Int /\ i \in Int /\ 1 <= i /\ i - 1 + 1 = i
  BY <1>1
<1>5. ASSUME NEW s, \A j \in 1..i : s[j] \in S
      PROVE  /\ SubSeq(s, 1, i) \in Seq(S)
             /\ Len(SubSeq(s, 1, i)) = i
             /\ \A j \in 1..i : SubSeq(s, 1, i)[j] = s[j]
  <2>1. /\ SubSeq(s, 1, i) \in Seq(S)
        /\ Len(SubSeq(s, 1, i)) = IF 1 <= i THEN i - 1 + 1 ELSE 0
        /\ \A j \in 1..(i - 1 + 1) : SubSeq(s, 1, i)[j] = s[1 + j - 1]
    BY <1>4, <1>5, SubSeqProperties
  <2>2. \A j \in 1..i : 1 + j - 1 = j
    BY <1>4
  <2> QED
    BY <1>4, <2>1, <2>2
<1>6. /\ SubSeq(parent, 1, i) \in Seq(S)
      /\ Len(SubSeq(parent, 1, i)) = i
      /\ \A j \in 1..i : SubSeq(parent, 1, i)[j] = parent[j]
  BY <1>3, <1>5
<1>7. /\ SubSeq(hash, 1, i) \in Seq(S)
      /\ Len(SubSeq(hash, 1, i)) = i
      /\ \A j \in 1..i : SubSeq(hash, 1, i)[j] = hash[j]
  BY <1>3, <1>5
<1>8. SubSeq(hash, 1, i) = SubSeq(parent, 1, i)
  BY <1>3, <1>6, <1>7, SeqEqual
<1> QED
  BY <1>8 DEF hash

\* The new block's ancestors are all there.
LEMMA InsertKeepsRooted ==
  ASSUME Rooted, NEW parent \in blocks, IsBranch(parent), NEW header,
         IsBranch(Append(parent, header)),
         blocks' = blocks \cup {Append(parent, header)}
  PROVE  Walk(blocks, Append(parent, header)) = Append(parent, header) /\ Rooted'
<1> DEFINE hash == Append(parent, header)
<1>1. Len(parent) \in Nat /\ Len(hash) = Len(parent) + 1
  BY DEF IsBranch
<1>2. ASSUME NEW i \in 1..Len(parent)
      PROVE  SubSeq(hash, 1, i) \in blocks
  <2>1. SubSeq(parent, 1, i) \in blocks
    BY DEF Rooted
  <2>2. SubSeq(hash, 1, i) = SubSeq(parent, 1, i)
    BY AppendPrefixes
  <2> HIDE DEF hash
  <2> QED
    BY <2>1, <2>2
<1>3. SubSeq(hash, 1, Len(hash)) = hash
  BY SubSeqFull DEF IsBranch
<1> HIDE DEF hash
<1>4. \A i \in 2..Len(hash) : SubSeq(hash, 1, i - 1) \in blocks
  BY <1>1, <1>2
<1>5. Walk(blocks, hash) = hash
  BY <1>4 DEF Walk
<1>6. \A i \in 1..Len(hash) : SubSeq(hash, 1, i) \in blocks'
  <2> SUFFICES ASSUME NEW i \in 1..Len(hash) PROVE SubSeq(hash, 1, i) \in blocks'
    OBVIOUS
  <2>1. i \in 1..Len(parent) \/ i = Len(hash)
    BY <1>1
  <2> QED
    BY <1>2, <1>3, <2>1 DEF hash
<1> QED
  BY <1>5, <1>6 DEF Rooted, hash

\* So the walk from the canonical tip is the canonical chain.
LEMMA TipWalkIsChain ==
  ASSUME ChainInv, NEW hash
  PROVE  TipWalk(hash) = chain
<1>1. tip \in blocks /\ chain = tip
  BY DEF ChainInv, CanonicalInv
<1>2. IsBranch(tip) /\ Rooted
  BY <1>1 DEF ChainInv, TreeInv
<1>3. \A i \in 2..Len(tip) : SubSeq(tip, 1, i - 1) \in blocks \cup {hash}
  BY <1>1, <1>2 DEF Rooted, IsBranch
<1> QED
  BY <1>1, <1>3 DEF TipWalk, Walk

\* A block of the new slot on any known parent, adopted or not.
LEMMA AcceptStep ==
  ASSUME ChainInv, NEW parent \in blocks, NEW header,
         header.Slot = Slot(NextTick), tick' = NextTick,
         Accept(Append(parent, header))
  PROVE  ChainInv' /\ ChainStep
<1> DEFINE hash == Append(parent, header)
           key == <<header.Slot, header.Validator>>
<1>1. /\ tick \in Nat /\ NextTick \in Nat /\ Slot(tick) \in Nat
      /\ header.Slot = Slot(tick) + 1 /\ Slot(tick') = Slot(tick) + 1
  BY NextSlotIsNext DEF ChainInv, TreeInv
<1>2. IsBranch(parent) /\ LastSlot(parent) <= Slot(tick)
  BY DEF ChainInv, TreeInv
<1>3. LastSlot(parent) \in Nat
  BY <1>2, BranchLastSlot
<1>4. IsBranch(hash) /\ hash[Len(hash)] = header
  BY <1>1, <1>2, <1>3, AppendBranch
<1>5. LastSlot(hash) = Slot(tick) + 1
  BY <1>1, <1>4 DEF LastSlot
<1>6. key \notin DOMAIN slotProducers
  BY <1>1 DEF ChainInv, ProducersInv
<1>7. ~ Equivocates(hash)
  BY <1>4, <1>6 DEF Equivocates
<1> HIDE DEF hash
<1>8. PICK verdict, vals, snaps :
        /\ verdict = "adopt" => Verdict(chain, hash, snaps) = "adopt"
        /\ slotProducers' = Put(slotProducers, key, hash)
        /\ equivocations' = equivocations
        /\ blocks' = blocks \cup {hash}
        /\ updateCanonical(hash, verdict, vals)
        /\ LET target == LastSlot(IF verdict = "adopt" THEN hash ELSE chain)
           IN lastProcessed' = IF target > lastProcessed THEN target ELSE lastProcessed
  BY <1>4, <1>7 DEF Accept, LastSlot, hash
<1>9. TreeInv'
  <2>1. \A a \in blocks' : a = hash \/ (a \in blocks /\ LastSlot(a) <= Slot(tick))
    BY <1>8 DEF ChainInv, TreeInv
  <2>2. \A a \in blocks : IsBranch(a) /\ LastSlot(a) \in Nat
    BY DEF ChainInv, TreeInv, IsBranch, LastSlot
  <2>3. \A a \in blocks' : IsBranch(a) /\ LastSlot(a) <= Slot(tick')
    BY <1>1, <1>4, <1>5, <2>1, <2>2
  <2>4. ASSUME NEW a \in blocks', NEW b \in blocks', LastSlot(a) = LastSlot(b)
        PROVE  a = b
    BY <1>1, <1>5, <2>1, <2>2, <2>4 DEF ChainInv, TreeInv
  <2>5. Rooted'
    BY <1>2, <1>4, <1>8, InsertKeepsRooted DEF ChainInv, TreeInv, hash
  <2> QED
    BY <1>1, <2>3, <2>4, <2>5 DEF TreeInv, IsBranch, LastSlot
<1>10. ProducersInv'
  <2>1. DOMAIN slotProducers' = DOMAIN slotProducers \cup {key}
    BY <1>8 DEF Put
  <2>2. \A k \in DOMAIN slotProducers' : k[1] \in Nat /\ k[1] <= Slot(tick')
    BY <1>1, <2>1 DEF ChainInv, ProducersInv
  <2> QED
    BY <1>8, <2>2 DEF ChainInv, ProducersInv
<1>11. /\ IsBranch(chain) /\ finalized \in Nat
       /\ LastSlot(chain) \in Nat /\ LastSlot(chain) < LastSlot(hash)
       /\ lastProcessed = LastSlot(chain)
       /\ finalized = IF LastSlot(chain) >= FinalitySlots
                      THEN LastSlot(chain) - FinalitySlots ELSE 0
  <2>1. IsBranch(chain) /\ LastSlot(chain) <= Slot(tick) /\ finalized \in Nat
    BY DEF ChainInv, CanonicalInv, TreeInv
  <2>2. LastSlot(chain) \in Nat
    BY <2>1, BranchLastSlot
  <2>3. LastSlot(chain) < LastSlot(hash)
    BY <1>1, <1>5, <2>1, <2>2
  <2> QED
    BY <2>1, <2>2, <2>3
       DEF ChainInv, CanonicalInv, LastSlot, TipNeverBehind, TipSlot
<1>12. CASE verdict = "adopt"
  <2>1. tip' = hash /\ chain' = hash /\ finalized' = FinalizedBy(LastSlot(hash))
    BY <1>8, <1>12 DEF updateCanonical, LastSlot
  <2>2. lastProcessed' = LastSlot(hash)
    BY <1>5, <1>8, <1>11, <1>12
  <2>3. finalized' = IF LastSlot(hash) >= FinalitySlots
                     THEN LastSlot(hash) - FinalitySlots ELSE 0
    BY <1>5, <1>11, <2>1, <1>1, ConfigAssumption DEF FinalizedBy
  <2>4. finalized' \in Nat
    BY <1>1, <1>5, <2>3, ConfigAssumption
  <2>5. CanonicalInv'
    BY <1>8, <2>1, <2>2, <2>3, <2>4
       DEF CanonicalInv, TipNeverBehind, TipSlot, LastSlot
  <2>6. ChainStep
    <3>1. ~ (finalized > 0 /\ DivergeSlot(chain, hash) <= finalized)
      BY <1>8, <1>12, AdoptedIsLate
    <3>2. DOMAIN chain = 1..Len(chain) /\ DOMAIN hash = 1..Len(hash)
      BY <1>4, <1>11 DEF IsBranch
    <3>3. \A i \in 1..Len(chain) : chain[i].Slot <= finalized
             => i \in 1..Len(hash) /\ hash[i] = chain[i]
      BY <1>4, <1>11, <3>1, LateDivergenceKeepsFinalized
    <3>4. finalized <= finalized'
      BY <1>1, <1>5, <1>11, <2>1, ConfigAssumption DEF FinalizedBy
    <3> QED
      BY <2>1, <3>2, <3>3, <3>4 DEF ChainStep
  <2> QED
    BY <1>9, <1>10, <2>5, <2>6 DEF ChainInv
<1>13. CASE verdict # "adopt"
  <2>1. UNCHANGED <<tip, chain, finalized>>
    BY <1>8, <1>13 DEF updateCanonical
  <2>2. lastProcessed' = lastProcessed
    BY <1>8, <1>11, <1>13
  <2>3. CanonicalInv'
    BY <1>8, <2>1, <2>2 DEF ChainInv, CanonicalInv, TipNeverBehind, TipSlot
  <2>4. ChainStep
    BY <1>11, <2>1 DEF ChainStep
  <2> QED
    BY <1>9, <1>10, <2>3, <2>4 DEF ChainInv
<1> QED
  BY <1>12, <1>13

-----------------------------------------------------------------------------
(* All steps.                                                                *)

\* A step that adds no block leaves the invariant alone, even if time passes.
LEMMA QuietStep ==
  ASSUME ChainInv, tick' \in Nat, Slot(tick) <= Slot(tick'), Slot(tick') \in Nat,
         Slot(tick) \in Nat,
         UNCHANGED <<blocks, tip, chain, finalized, slotProducers,
                     equivocations, lastProcessed>>
  PROVE  ChainInv' /\ ChainStep
<1>1. \A hash \in blocks : IsBranch(hash) /\ LastSlot(hash) \in Nat
                           /\ LastSlot(hash) <= Slot(tick)
  BY DEF ChainInv, TreeInv, IsBranch, LastSlot
<1>2. TreeInv'
  <2>1. \A hash \in blocks' : IsBranch(hash) /\ LastSlot(hash) <= Slot(tick')
    BY <1>1
  <2>2. \A a, b \in blocks' : LastSlot(a) = LastSlot(b) => a = b
    BY DEF ChainInv, TreeInv
  <2>3. Rooted'
    BY DEF ChainInv, TreeInv, Rooted
  <2> QED
    BY <2>1, <2>2, <2>3 DEF TreeInv, IsBranch, LastSlot
<1>3. ProducersInv'
  BY DEF ChainInv, ProducersInv
<1>4. CanonicalInv'
  BY DEF ChainInv, CanonicalInv, TipNeverBehind, TipSlot
<1>5. ChainStep
  BY DEF ChainStep, ChainInv, CanonicalInv
<1> QED
  BY <1>2, <1>3, <1>4, <1>5 DEF ChainInv

\* ChainInv holds at NewBlockchain.
LEMMA ChainInvInit == Init => ChainInv
<1> SUFFICES ASSUME Init PROVE ChainInv
  OBVIOUS
<1>1. Len(GenesisBlock) = 1 /\ GenesisBlock[1] = GenesisHeader
  BY DEF GenesisBlock
<1>2. GenesisHeader.Slot = 0
  BY DEF GenesisHeader
<1>3. IsBranch(GenesisBlock)
  BY <1>1, <1>2 DEF IsBranch, GenesisBlock
<1>4. Slot(0) = 0
  BY DEF Slot, TicksPerSlot
<1>5. LastSlot(GenesisBlock) = 0
  BY <1>1, <1>2 DEF LastSlot
<1>6. TreeInv
  <2>1. SubSeq(GenesisBlock, 1, 1) = GenesisBlock
    <3>1. GenesisBlock \in Seq({GenesisHeader})
      BY DEF GenesisBlock
    <3> QED
      BY <1>1, <3>1, SubSeqFull
  <2>2. \A i \in 1..Len(GenesisBlock) : i = 1
    BY <1>1
  <2>3. Rooted
    BY <2>1, <2>2 DEF Init, Rooted
  <2> QED
    BY <1>3, <1>4, <1>5, <2>3 DEF Init, TreeInv
<1>7. ProducersInv
  BY DEF Init, ProducersInv, EmptyMap
<1>8. CanonicalInv
  BY <1>5, ConfigAssumption
     DEF Init, RegistryInit, CanonicalInv, TipNeverBehind, TipSlot, LastSlot
<1> QED
  BY <1>6, <1>7, <1>8 DEF ChainInv

\* Every call preserves ChainInv and keeps the finalized blocks.
LEMMA ChainInvNext == ChainInv /\ [Next]_vars => ChainInv' /\ ChainStep
<1> SUFFICES ASSUME ChainInv, [Next]_vars PROVE ChainInv' /\ ChainStep
  OBVIOUS
<1>1. tick \in Nat /\ tip \in blocks /\ chain = tip
  BY DEF ChainInv, TreeInv, CanonicalInv
<1>2. /\ NextTick \in Nat /\ Slot(tick) \in Nat
      /\ Slot(NextTick) = Slot(tick) + 1
  BY <1>1, NextSlotIsNext
<1>3. ASSUME NEW leader, tick' = NextTick, Refuse(leader)
      PROVE  ChainInv' /\ ChainStep
  BY <1>2, <1>3, QuietStep DEF Refuse, chainVars
<1>4. ASSUME NEW batch, NEW draw, AddBlock(batch, draw)
      PROVE  ChainInv' /\ ChainStep
  <2>1. tick' = NextTick
    BY <1>4 DEF AddBlock, TickSlot
  <2>2. ASSUME NEW txs, Accept(Append(tip, NewHeader(state, txs, draw)))
        PROVE  ChainInv' /\ ChainStep
    <3>1. NewHeader(state, txs, draw).Slot = Slot(NextTick)
      BY DEF NewHeader
    <3> QED
      BY <1>1, <2>1, <2>2, <3>1, AcceptStep
  <2>3. \/ \E txs : Accept(Append(tip, NewHeader(state, txs, draw)))
        \/ Refuse(LeaderNow(draw))
    BY <1>4 DEF AddBlock
  <2> QED
    BY <1>3, <2>1, <2>2, <2>3
<1>5. ASSUME NEW parent \in blocks, NEW batch, NEW draw,
             AddBlockExternal(parent, batch, draw)
      PROVE  ChainInv' /\ ChainStep
  <2> DEFINE base == stateAtTip(parent)
  <2>1. tick' = NextTick
    BY <1>5 DEF AddBlockExternal, TickSlot
  <2>2. CASE Accept(Append(parent, NewHeader(base.st, batch, draw)))
    <3>1. NewHeader(base.st, batch, draw).Slot = Slot(NextTick)
      BY DEF NewHeader
    <3> HIDE DEF base
    <3> QED
      BY <2>1, <2>2, <3>1, AcceptStep
  <2>3. CASE Refuse(LeaderNow(draw))
    BY <1>3, <2>1, <2>3
  <2>4. CASE UNCHANGED <<registryVars, chainVars, genesis, slotProducers,
                         equivocations>>
    BY <1>2, <2>1, <2>4, QuietStep DEF registryVars, chainVars
  <2> QED
    BY <1>5, <2>2, <2>3, <2>4 DEF AddBlockExternal
<1>6. ASSUME UNCHANGED <<tick, blocks, tip, chain, finalized, slotProducers,
                         equivocations, lastProcessed>>
      PROVE  ChainInv' /\ ChainStep
  BY <1>1, <1>2, <1>6, QuietStep
<1>7. CASE VerifyChain
  BY <1>6, <1>7 DEF VerifyChain, chainVars
<1>8. ASSUME NEW addr, NEW amount, SetBalance(addr, amount)
      PROVE  ChainInv' /\ ChainStep
  BY <1>6, <1>8 DEF SetBalance, registryVars
<1>9. ASSUME NEW tx, AddTx(tx)
      PROVE  ChainInv' /\ ChainStep
  BY <1>6, <1>9 DEF AddTx, registryVars, chainVars
<1>10. ASSUME NEW epochs, Freeze(epochs)
       PROVE  ChainInv' /\ ChainStep
  BY <1>6, <1>10 DEF Freeze, registryVars, chainVars
<1>11. CASE \/ \E slot \in Slots : GetEpochSnapshot(slot)
            \/ \E hash \in blocks : ScoreTip(hash)
            \/ WeightDeltaRequired
            \/ GetForkCandidates
  BY <1>10, <1>11 DEF GetEpochSnapshot, ScoreTip, WeightDeltaRequired,
                      GetForkCandidates
<1>12. CASE ResetReorgStats
  BY <1>6, <1>12 DEF ResetReorgStats, registryVars
<1>13. CASE ChangeValidators
  <2>1. lastProcessed' = lastProcessed
    BY <1>13 DEF ChangeValidators, AddValidator, AddStake, Unstake
  <2> QED
    BY <1>6, <1>13, <2>1 DEF ChangeValidators, chainVars
<1>14. CASE UNCHANGED vars
  BY <1>6, <1>14 DEF vars, registryVars, chainVars
<1> QED
  BY <1>4, <1>5, <1>7, <1>8, <1>9, <1>11, <1>12, <1>13, <1>14
     DEF Next, OtherCall

-----------------------------------------------------------------------------
(* Theorems.                                                                 *)

\* ChainInv, the strengthening the safety properties below rest on.
THEOREM ChainInvariant == Spec => []ChainInv
<1>1. ChainInv /\ [Next]_vars => ChainInv'
  BY ChainInvNext
<1> QED
  BY <1>1, ChainInvInit, PTL DEF Spec

\* Whatever parents callers of AddBlockExternal choose, no slot ever holds two
\* blocks and registerSlotProducer never meets an equivocation.
THEOREM OneBlockPerSlotHolds == Spec => []OneBlockPerSlot
<1>1. ChainInv => OneBlockPerSlot
  BY DEF ChainInv, TreeInv, ProducersInv, OneBlockPerSlot, LastSlot
<1> QED
  BY <1>1, ChainInvariant, PTL

\* updateFinality and processMissedSlots follow the tip exactly: the finalized
\* slot is FinalitySlots behind it and the slots up to it have been judged.
THEOREM TipNeverBehindHolds == Spec => []TipNeverBehind
<1>1. ChainInv => TipNeverBehind
  BY DEF ChainInv, CanonicalInv
<1> QED
  BY <1>1, ChainInvariant, PTL

\* updateCanonical never removes or replaces a finalized block, for any stakes,
\* any FinalitySlots, MaxReorgDepth and weight threshold, and any forks.
THEOREM FinalizedBlocksStayHolds == Spec => FinalizedBlocksStay
<1>1. ChainInv /\ [Next]_vars =>
        [\A i \in DOMAIN chain : chain[i].Slot <= finalized =>
           i \in DOMAIN chain' /\ chain'[i] = chain[i]]_vars
  BY ChainInvNext DEF ChainStep
<1> QED
  BY <1>1, ChainInvariant, PTL DEF Spec, FinalizedBlocksStay

\* The finalized headers are a prefix of the branch, genesis at least.
LEMMA FinalizedPrefix ==
  ASSUME NEW c, IsBranch(c), NEW f \in Nat
  PROVE  LET final == {j \in DOMAIN c : c[j].Slot <= f}
         IN 1 \in final /\ \E n \in final : final = 1..n
<1> DEFINE final == {j \in DOMAIN c : c[j].Slot <= f}
           above == {j \in 1..Len(c) + 1 : j \in 1..Len(c) => c[j].Slot > f}
           m == Min(above)
<1>1. Len(c) \in Nat /\ Len(c) >= 1 /\ DOMAIN c = 1..Len(c)
  BY DEF IsBranch
<1>2. c[1].Slot = 0
  BY DEF IsBranch, GenesisHeader
<1>3. Len(c) + 1 \in above /\ above \in SUBSET Nat
  BY <1>1
<1>4. m \in above /\ \A y \in above : m <= y
  BY <1>3, MinProperties
<1> HIDE DEF m
<1>5. m \in 2..Len(c) + 1
  BY <1>1, <1>2, <1>4
<1>6. \A j \in 1..m - 1 : j \in final
  <2> SUFFICES ASSUME NEW j \in 1..m - 1 PROVE c[j].Slot <= f
    BY <1>1, <1>5
  <2>1. j \in 1..Len(c) /\ j \notin above /\ c[j].Slot \in Nat
    BY <1>1, <1>4, <1>5 DEF IsBranch
  <2> QED
    BY <1>1, <2>1
<1>7. \A j \in final : j \in 1..m - 1
  <2> SUFFICES ASSUME NEW j \in 1..Len(c), c[j].Slot <= f, m <= j PROVE FALSE
    BY <1>1, <1>5
  <2>1. m \in 1..Len(c) /\ c[m].Slot > f /\ c[m].Slot \in Nat /\ c[j].Slot \in Nat
    BY <1>1, <1>4, <1>5 DEF IsBranch
  <2>2. m < j => c[m].Slot < c[j].Slot
    BY <2>1 DEF IsBranch
  <2> QED
    BY <1>1, <1>5, <2>1, <2>2
<1>8. m - 1 \in final /\ 1 \in final /\ final = 1..m - 1
  <2> HIDE DEF final
  <2>1. m \in Int /\ m >= 2
    BY <1>1, <1>5
  <2>2. 1 \in 1..m - 1 /\ m - 1 \in 1..m - 1
    BY <2>1
  <2>3. final = 1..m - 1
    BY <1>6, <1>7
  <2> QED
    BY <2>2, <2>3
<1> QED
  BY <1>8

\* The engine implements FinalizedLog: what is finalized is an append-only log
\* of headers that starts with genesis.
THEOREM EngineImplementsFinalizedLog == Spec => ImplementsFinalizedLog
<1>1. Init => Log!LogInit
  <2> SUFFICES ASSUME Init PROVE Log!LogInit
    OBVIOUS
  <2>1. chain = GenesisBlock /\ finalized = 0
    BY DEF Init
  <2>2. GenesisHeader.Slot = 0
    BY DEF GenesisHeader
  <2>3. DOMAIN chain = {1} /\ chain[1] = GenesisHeader
    BY <2>1 DEF GenesisBlock
  <2> QED
    BY <2>1, <2>2, <2>3 DEF Log!LogInit, FinalizedChain
<1>2. ChainInv /\ ChainInv' /\ [Next]_vars => [Log!LogExtend]_FinalizedChain
  <2> SUFFICES ASSUME ChainInv, ChainInv', [Next]_vars PROVE Log!LogExtend
    OBVIOUS
  <2> DEFINE final == {j \in DOMAIN chain : chain[j].Slot <= finalized}
  <2>1. ChainStep
    BY ChainInvNext
  <2>2. /\ IsBranch(chain) /\ finalized \in Nat
        /\ IsBranch(chain') /\ finalized' \in Nat
    <3>1. \A hash \in blocks' : IsBranch(hash)
      BY DEF ChainInv, TreeInv, IsBranch
    <3>2. chain' \in blocks' /\ finalized' \in Nat
      BY DEF ChainInv, CanonicalInv
    <3> QED
      BY <3>1, <3>2 DEF ChainInv, TreeInv, CanonicalInv
  <2>3. \E n \in final' : final' = 1..n
    BY <2>2, FinalizedPrefix
  <2>4. \A i \in final : i \in final' /\ chain'[i] = chain[i]
    <3> SUFFICES ASSUME NEW i \in DOMAIN chain, chain[i].Slot <= finalized
                 PROVE  i \in final' /\ chain'[i] = chain[i]
      OBVIOUS
    <3>1. i \in DOMAIN chain' /\ chain'[i] = chain[i] /\ finalized <= finalized'
      BY <2>1 DEF ChainStep
    <3>2. chain[i].Slot \in Nat
      BY <2>2 DEF IsBranch
    <3> QED
      BY <2>2, <3>1, <3>2
  <2>5. FinalizedChain = [i \in final |-> chain[i]]
    BY DEF FinalizedChain
  <2>6. FinalizedChain' = [i \in final' |-> chain'[i]]
    BY DEF FinalizedChain
  <2> HIDE DEF final
  <2> QED
    BY <2>3, <2>4, <2>5, <2>6 DEF Log!LogExtend
<1> QED
  BY <1>1, <1>2, ChainInvariant, PTL DEF Spec, ImplementsFinalizedLog, Log!LogSpec

-----------------------------------------------------------------------------
(* The epoch snapshots and the leaders they elect, for any epochs and slots. *)

(***************************************************************************)
(* A snapshot, once frozen, is passed from one ensureSnapshot to the next  *)
(* through the whole of a call, the loop over the missed slots included.   *)
(* So the leader a block was accepted from is the leader of its slot for   *)
(* ever.                                                                   *)
(***************************************************************************)

\* Every snapshot frozen in old is the same in new.
Extends(old, new) == \A e \in DOMAIN old : e \in DOMAIN new /\ new[e] = old[e]

\* A snapshot holds validators with stakes that count.
IsSnapshot(stakes) ==
  /\ DOMAIN stakes \subseteq Names
  /\ stakes = [n \in DOMAIN stakes |-> stakes[n]]
  /\ \A n \in DOMAIN stakes : stakes[n] >= MinStake

SnapsOk(snaps) ==
  /\ DOMAIN snaps \subseteq Nat
  /\ \A e \in DOMAIN snaps : IsSnapshot(snaps[e])

\* What BlocksByLeaders says of one header.
ByLeader(snaps, drawn, header) ==
  /\ epochForSlot(header.Slot) \in DOMAIN snaps
  /\ header.Validator = leaderForSlot(snaps, header.Slot, drawn[header.Slot])
  /\ header.Validator # NoLeader => snapshotStake(snaps, header) >= MinStake

SnapshotInv ==
  /\ ChainInv
  /\ DOMAIN validators \subseteq Names
  /\ SnapsOk(snapshots)
  /\ \A slot \in DOMAIN draws : slot \in Nat /\ slot <= Slot(tick)
  /\ \A hash \in blocks : \A i \in 2..Len(hash) :
       hash[i].Slot \in DOMAIN draws /\ ByLeader(snapshots, draws, hash[i])

-----------------------------------------------------------------------------
(* Freezing.                                                                 *)

LEMMA ExtendsTrans ==
  ASSUME NEW a, NEW b, NEW c, Extends(a, b), Extends(b, c)
  PROVE  Extends(a, c)
BY DEF Extends

\* ensureSnapshot freezes what is asked for and changes nothing else.
LEMMA EnsureKeeps ==
  ASSUME NEW snaps, SnapsOk(snaps), NEW vals, DOMAIN vals \subseteq Names,
         NEW sts, NEW epochs \in SUBSET Nat
  PROVE  LET next == ensureSnapshots(snaps, vals, sts, epochs)
         IN /\ Extends(snaps, next)
            /\ SnapsOk(next)
            /\ epochs \subseteq DOMAIN next
<1> DEFINE next == ensureSnapshots(snaps, vals, sts, epochs)
<1>1. /\ DOMAIN next = DOMAIN snaps \cup epochs
      /\ \A e \in DOMAIN snaps : next[e] = snaps[e]
      /\ \A e \in DOMAIN next \ DOMAIN snaps :
           next[e] = ActiveStakes(vals, sts, e * EpochLength)
  BY DEF ensureSnapshots
<1>2. ASSUME NEW slot
      PROVE  IsSnapshot(ActiveStakes(vals, sts, slot))
  BY DEF ActiveStakes, IsSnapshot
<1> HIDE DEF next
<1>3. SnapsOk(next)
  <2> SUFFICES ASSUME NEW e \in DOMAIN next
               PROVE  IsSnapshot(next[e])
    BY <1>1 DEF SnapsOk
  <2>1. CASE e \in DOMAIN snaps
    BY <1>1, <2>1 DEF SnapsOk
  <2>2. CASE e \notin DOMAIN snaps
    BY <1>1, <1>2, <2>2
  <2> QED
    BY <2>1, <2>2
<1>4. Extends(snaps, next)
  BY <1>1 DEF Extends
<1>5. epochs \subseteq DOMAIN next
  BY <1>1
<1> QED
  BY <1>3, <1>4, <1>5 DEF next

LEMMA EpochNat ==
  ASSUME NEW slot \in Nat
  PROVE  epochForSlot(slot) \in Nat
<1>1. EpochLength \in Nat \ {0}
  BY ConfigAssumption
<1> QED
  BY <1>1 DEF epochForSlot

LEMMA BranchEpochs ==
  ASSUME NEW hash, IsBranch(hash)
  PROVE  EpochsOf(hash) \subseteq Nat /\ epochForSlot(hash[Len(hash)].Slot) \in Nat
<1>1. /\ DOMAIN hash = 1..Len(hash) /\ Len(hash) \in 1..Len(hash)
      /\ \A i \in 1..Len(hash) : hash[i].Slot \in Nat
  BY DEF IsBranch
<1>2. \A i \in 1..Len(hash) : epochForSlot(hash[i].Slot) \in Nat
  BY <1>1, EpochNat
<1> QED
  BY <1>1, <1>2 DEF EpochsOf

\* Also where the walk stops short of genesis.
LEMMA WalkEpochs ==
  ASSUME NEW known, NEW hash, IsBranch(hash)
  PROVE  EpochsOf(Walk(known, hash)) \subseteq Nat
<1> DEFINE orphans == {i \in 2..Len(hash) : SubSeq(hash, 1, i - 1) \notin known}
           n == Len(hash)
           all == {hash[i] : i \in DOMAIN hash}
<1>1. n \in Nat /\ hash \in Seq(all) /\ \A h \in all : h.Slot \in Nat
  BY DEF IsBranch
<1>2. ASSUME NEW m \in 1..n PROVE SubSeq(hash, m, n) \in Seq(all)
  <2> HIDE DEF all
  <2>1. m \in 1..(Len(hash) + 1) /\ n \in m - 1..Len(hash)
    BY <1>1
  <2> QED
    BY <1>1, <2>1, SubSeqProperties
<1>3. Walk(known, hash) \in Seq(all)
  <2>1. CASE orphans = {}
    BY <1>1, <2>1 DEF Walk
  <2>2. CASE orphans # {}
    <3>1. orphans \in SUBSET (0..n)
      BY <1>1
    <3>2. Walk(known, hash) = SubSeq(hash, Max(orphans), n)
      BY <2>2 DEF Walk
    <3> DEFINE m == Max(orphans)
    <3>3. m \in orphans
      <4> HIDE DEF orphans, n
      <4> QED
        BY <1>1, <2>2, <3>1, MaxProperties
    <3> HIDE DEF m
    <3>4. m \in 1..n
      BY <1>1, <3>3
    <3> QED
      BY <1>2, <3>2, <3>4 DEF m
  <2> QED
    BY <2>1, <2>2
<1> HIDE DEF all
<1>4. \A i \in DOMAIN Walk(known, hash) : Walk(known, hash)[i].Slot \in Nat
  BY <1>1, <1>3
<1> QED
  BY <1>4, EpochNat DEF EpochsOf

\* The snapshot of the slot a new block is to have.
LEMMA NowKeeps ==
  ASSUME SnapsOk(snapshots), DOMAIN validators \subseteq Names, tick \in Nat
  PROVE  /\ Extends(snapshots, SnapshotsNow)
         /\ SnapsOk(SnapshotsNow)
         /\ epochForSlot(Slot(NextTick)) \in DOMAIN SnapshotsNow
<1>1. Slot(NextTick) \in Nat
  BY NextSlotIsNext
<1>2. {epochForSlot(Slot(NextTick))} \in SUBSET Nat
  BY <1>1, EpochNat
<1> QED
  BY <1>2, EnsureKeeps DEF SnapshotsNow

\* A penalty registers nobody.
LEMMA SlashDomain ==
  ASSUME NEW vals, NEW name, NEW amount
  PROVE  DOMAIN SlashValidator(vals, name, amount) \subseteq DOMAIN vals
BY DEF SlashValidator, Delete

\* VerifyChain freezes epochs of the chain and slashes a producer, or nobody.
LEMMA VerifyChainEffect ==
  ASSUME VerifyChain
  PROVE  /\ \E epochs \in SUBSET {epochForSlot(chain[i].Slot) : i \in 2..Len(chain)} :
              snapshots' = ensureSnapshots(snapshots, validators, stats, epochs)
         /\ \/ validators' = validators
            \/ \E name : validators' = SlashValidator(validators, name, SlashPenalty)
         /\ UNCHANGED <<stats, lastProcessed, mempoolVars, chainVars, tick, draws,
                        genesis, slotProducers, equivocations>>
<1> DEFINE frozen(epochs) == ensureSnapshots(snapshots, validators, stats, epochs)
           bad == {i \in 2..Len(chain) : ~ BlockVerifies(i, frozen(EpochsOf(chain)))}
           reached == {i \in 2..Len(chain) : Linked(i) /\ \A j \in bad : i <= j}
           epochs == {epochForSlot(chain[i].Slot) : i \in reached}
<1>1. /\ validators' = IF bad = {} THEN validators
                       ELSE SlashValidator(validators, chain[Min(bad)].Validator,
                                           SlashPenalty)
      /\ snapshots' = frozen(epochs)
      /\ UNCHANGED <<stats, lastProcessed, mempoolVars, chainVars, tick, draws,
                     genesis, slotProducers, equivocations>>
  BY DEF VerifyChain
<1>2. epochs \subseteq {epochForSlot(chain[i].Slot) : i \in 2..Len(chain)}
  OBVIOUS
<1> HIDE DEF bad, epochs
<1> QED
  BY <1>1, <1>2

LEMMA JudgedDomain ==
  ASSUME NEW vals, NEW sts, NEW leader, NEW producer, NEW slot
  PROVE  DOMAIN Judged(vals, sts, leader, producer, slot).vals \subseteq DOMAIN vals
<1>1. DOMAIN SlashValidatorPercent(vals, leader) \subseteq DOMAIN vals
  BY SlashDomain DEF SlashValidatorPercent
<1>2. Judged(vals, sts, leader, producer, slot).vals
        \in {vals, SlashValidatorPercent(vals, leader)}
  <2>1. MissSlot(vals, sts, leader, slot).vals
          \in {vals, SlashValidatorPercent(vals, leader)}
    BY DEF MissSlot
  <2> QED
    BY <2>1 DEF Judged
<1> QED
  BY <1>1, <1>2

\* What one turn of the loop of processMissedSlots, or all of it, makes of r.
Keeps(r, next) ==
  /\ Extends(r.snaps, next.snaps)
  /\ SnapsOk(next.snaps)
  /\ DOMAIN next.vals \subseteq Names

LEMMA JudgedNextKeeps ==
  ASSUME NEW r, SnapsOk(r.snaps), DOMAIN r.vals \subseteq Names,
         NEW headers, NEW slot \in Nat, NEW drawn
  PROVE  Keeps(r, JudgedNext(r, headers, slot, drawn))
<1> DEFINE frozen == ensureSnapshots(r.snaps, r.vals, r.sts, {epochForSlot(slot)})
           leader == leaderForSlot(frozen, slot, drawn[slot])
           next == Judged(r.vals, r.sts, leader, SlotProduced(headers, slot), slot)
<1>1. Extends(r.snaps, frozen) /\ SnapsOk(frozen)
  BY EnsureKeeps, EpochNat
<1>2. DOMAIN next.vals \subseteq DOMAIN r.vals
  BY JudgedDomain
<1>3. /\ JudgedNext(r, headers, slot, drawn).snaps = frozen
      /\ JudgedNext(r, headers, slot, drawn).vals = next.vals
  BY DEF JudgedNext
<1> HIDE DEF frozen, next
<1> QED
  BY <1>1, <1>2, <1>3 DEF Keeps

-----------------------------------------------------------------------------
(* The loop over the missed slots.  It is a recursive function: that it      *)
(* exists, and what all its values have, is shown by looking at the first    *)
(* slot for which it does not.                                               *)

IsRun(run, lo, hi, base, headers, drawn) ==
  run = [slot \in lo..hi |->
           IF slot = lo THEN base ELSE JudgedNext(run[slot - 1], headers, slot, drawn)]

LEMMA RunExists ==
  ASSUME NEW lo \in Nat, NEW hi \in Nat, lo <= hi, NEW base, NEW headers, NEW drawn
  PROVE  \E run : IsRun(run, lo, hi, base, headers, drawn)
<1> DEFINE Run(n) == \E run : IsRun(run, lo, n, base, headers, drawn)
           bad == {n \in Nat : lo <= n /\ ~ Run(n)}
           m == Min(bad)
<1> SUFFICES ASSUME ~ Run(hi) PROVE FALSE
  OBVIOUS
<1>1. m \in bad /\ \A n \in bad : m <= n
  BY MinProperties
<1> HIDE DEF m
<1>2. Run(lo)
  <2> DEFINE run == [slot \in lo..lo |-> base]
  <2>1. IsRun(run, lo, lo, base, headers, drawn)
    <3>1. \A slot \in lo..lo : slot = lo
      OBVIOUS
    <3> QED
      BY <3>1 DEF IsRun
  <2> QED
    BY <2>1
<1>3. m - 1 \in Nat /\ lo <= m - 1 /\ Run(m - 1)
  BY <1>1, <1>2
<1>4. PICK run : IsRun(run, lo, m - 1, base, headers, drawn)
  BY <1>3
<1> DEFINE next == [slot \in lo..m |->
             IF slot = m THEN JudgedNext(run[m - 1], headers, m, drawn) ELSE run[slot]]
           again == [slot \in lo..m |->
             IF slot = lo THEN base
             ELSE JudgedNext(next[slot - 1], headers, slot, drawn)]
<1>5. ASSUME NEW slot \in lo..m
      PROVE  next[slot] = again[slot]
  <2>1. CASE slot = m
    <3>1. m \in lo..m /\ m - 1 \in lo..m /\ m # lo /\ m - 1 # m
      BY <1>1, <1>3
    <3>2. next[m] = JudgedNext(run[m - 1], headers, m, drawn) /\ next[m - 1] = run[m - 1]
      BY <3>1
    <3> QED
      BY <2>1, <3>1, <3>2
  <2>2. CASE slot # m
    <3>1. slot \in lo..m - 1 /\ (slot # lo => slot - 1 \in lo..m /\ slot - 1 # m)
      BY <1>1, <1>3, <2>2
    <3>2. run[slot] = IF slot = lo THEN base
                      ELSE JudgedNext(run[slot - 1], headers, slot, drawn)
      BY <1>4, <3>1 DEF IsRun
    <3>3. slot # lo => next[slot - 1] = run[slot - 1]
      BY <3>1
    <3> QED
      BY <2>2, <3>2, <3>3
  <2> QED
    BY <2>1, <2>2
<1>6. next = again
  <2>1. DOMAIN next = lo..m /\ DOMAIN again = lo..m
    OBVIOUS
  <2>2. /\ next = [slot \in lo..m |-> next[slot]]
        /\ again = [slot \in lo..m |-> again[slot]]
    OBVIOUS
  <2> HIDE DEF next, again
  <2> QED
    BY <1>5, <2>2
<1>7. IsRun(next, lo, m, base, headers, drawn)
  BY <1>6 DEF IsRun
<1> QED
  BY <1>1, <1>7

LEMMA RunKeeps ==
  ASSUME NEW lo \in Nat, NEW hi \in Nat, NEW base, NEW headers, NEW drawn, NEW run,
         IsRun(run, lo, hi, base, headers, drawn),
         SnapsOk(base.snaps), DOMAIN base.vals \subseteq Names
  PROVE  \A n \in lo..hi : Keeps(base, run[n])
<1> DEFINE bad == {n \in lo..hi : ~ Keeps(base, run[n])}
           m == Min(bad)
<1> SUFFICES ASSUME bad # {} PROVE FALSE
  OBVIOUS
<1>1. m \in bad /\ \A n \in bad : m <= n
  BY MinProperties
<1> HIDE DEF m
<1>2. \A n \in lo..hi : run[n] = IF n = lo THEN base
                                 ELSE JudgedNext(run[n - 1], headers, n, drawn)
  BY DEF IsRun
<1>3. CASE m = lo
  BY <1>1, <1>2, <1>3 DEF Keeps, Extends
<1>4. CASE m # lo
  <2>1. m \in Nat /\ m - 1 \in lo..hi /\ m - 1 < m
    BY <1>1, <1>4
  <2>2. Keeps(base, run[m - 1])
    BY <1>1, <2>1
  <2>3. Keeps(run[m - 1], JudgedNext(run[m - 1], headers, m, drawn))
    BY <2>1, <2>2, JudgedNextKeeps DEF Keeps
  <2>4. Keeps(base, run[m])
    BY <1>1, <1>2, <1>4, <2>2, <2>3, ExtendsTrans DEF Keeps
  <2> QED
    BY <1>1, <2>4
<1> QED
  BY <1>3, <1>4

LEMMA MissedSlotsKeep ==
  ASSUME lastProcessed \in Nat, NEW target \in Nat, NEW headers, NEW vals, NEW sts,
         NEW snaps, NEW drawn, SnapsOk(snaps), DOMAIN vals \subseteq Names
  PROVE  LET next == processMissedSlots(headers, target, vals, sts, snaps, drawn)
         IN /\ Extends(snaps, next.snaps)
            /\ SnapsOk(next.snaps)
            /\ DOMAIN next.vals \subseteq Names
<1> DEFINE base == [vals |-> vals, sts |-> sts, snaps |-> snaps]
           next == processMissedSlots(headers, target, vals, sts, snaps, drawn)
           run == CHOOSE f : IsRun(f, lastProcessed, target, base, headers, drawn)
<1>1. base.snaps = snaps /\ base.vals = vals
  OBVIOUS
<1>2. CASE target <= lastProcessed
  BY <1>2 DEF processMissedSlots, Extends
<1>3. CASE ~ (target <= lastProcessed)
  <2>1. next = run[target]
    BY <1>3 DEF processMissedSlots, IsRun
  <2> HIDE DEF next, base
  <2>2. \E f : IsRun(f, lastProcessed, target, base, headers, drawn)
    BY <1>3, RunExists
  <2>3. IsRun(run, lastProcessed, target, base, headers, drawn)
    BY <2>2
  <2> HIDE DEF run
  <2>4. \A n \in lastProcessed..target : Keeps(base, run[n])
    BY <1>1, <2>3, RunKeeps
  <2>5. Keeps(base, run[target])
    BY <1>3, <2>4
  <2> QED
    BY <1>1, <2>1, <2>5 DEF Keeps, next
<1> QED
  BY <1>2, <1>3

-----------------------------------------------------------------------------
(* Leaders.                                                                  *)

\* A leader the snapshot elects, other than nobody, holds stake in it.
LEMMA LeaderHasStake ==
  ASSUME NEW draw, NEW stakes, DOMAIN stakes \subseteq Names,
         LeaderFromSnapshot(draw, stakes) # NoLeader
  PROVE  LeaderFromSnapshot(draw, stakes) \in DOMAIN stakes
<1> DEFINE reached == {n \in DOMAIN stakes :
             deterministicDraw(draw, TotalStake(stakes)) < StakeUpTo(stakes, n)}
<1>1. LeaderFromSnapshot(draw, stakes) = Min(reached) /\ reached # {}
  BY DEF LeaderFromSnapshot
<1>2. reached \subseteq DOMAIN stakes /\ reached \in SUBSET Nat
  BY NamesAssumption
<1> HIDE DEF reached
<1>3. Min(reached) \in reached
  BY <1>1, <1>2, MinProperties
<1> QED
  BY <1>1, <1>2, <1>3

\* A block that passes verifyBlockOnAccept was made by the leader of its slot.
LEMMA NewHeaderByLeader ==
  ASSUME SnapshotInv, NEW st, NEW txs, NEW draw, CanMakeBlock(st, txs, draw)
  PROVE  LET header == NewHeader(st, txs, draw)
         IN /\ epochForSlot(header.Slot) \in DOMAIN SnapshotsNow
            /\ header.Validator = leaderForSlot(SnapshotsNow, header.Slot, draw)
            /\ header.Validator # NoLeader
                 => snapshotStake(SnapshotsNow, header) >= MinStake
<1> DEFINE header == NewHeader(st, txs, draw)
           stakes == SnapshotsNow[epochForSlot(header.Slot)]
<1>1. header.Slot = Slot(NextTick) /\ header.Validator = LeaderNow(draw)
  BY DEF NewHeader
<1> HIDE DEF header
<1>4. SnapsOk(SnapshotsNow) /\ epochForSlot(header.Slot) \in DOMAIN SnapshotsNow
  BY <1>1, NowKeeps DEF SnapshotInv, ChainInv, TreeInv
<1>5. header.Validator = LeaderFromSnapshot(draw, stakes)
  BY <1>1 DEF LeaderNow, leaderForSlot
<1>6. /\ DOMAIN stakes \subseteq Names
      /\ \A n \in DOMAIN stakes : stakes[n] >= MinStake
  BY <1>4 DEF SnapsOk, IsSnapshot
<1>7. header.Validator # NoLeader => header.Validator \in DOMAIN stakes
  <2> HIDE DEF stakes
  <2> QED
    BY <1>5, <1>6, LeaderHasStake
<1>8. header.Validator # NoLeader => snapshotStake(SnapshotsNow, header) >= MinStake
  BY <1>6, <1>7 DEF snapshotStake
<1> QED
  BY <1>1, <1>4, <1>5, <1>8 DEF header, leaderForSlot

\* Later snapshots and draws take no block from its leader.
LEMMA ByLeaderStays ==
  ASSUME NEW snaps, NEW later, Extends(snaps, later), NEW drawn, NEW header,
         NEW laterDrawn, laterDrawn[header.Slot] = drawn[header.Slot],
         ByLeader(snaps, drawn, header)
  PROVE  ByLeader(later, laterDrawn, header)
BY DEF Extends, ByLeader, leaderForSlot, snapshotStake

-----------------------------------------------------------------------------
(* Steps.                                                                    *)

\* Draws are fixed once their slot has come.
DrawsStand ==
  /\ \A slot \in DOMAIN draws : slot \in DOMAIN draws' /\ draws'[slot] = draws[slot]
  /\ \A slot \in DOMAIN draws' : slot \in Nat /\ slot <= Slot(tick')

LEMMA TickKeepsDraws ==
  ASSUME SnapshotInv, NEW draw, TickSlot(draw)
  PROVE  DrawsStand /\ Slot(NextTick) \in DOMAIN draws' /\ draws'[Slot(NextTick)] = draw
<1>1. Slot(NextTick) = Slot(tick) + 1 /\ Slot(tick) \in Nat
  BY NextSlotIsNext DEF SnapshotInv, ChainInv, TreeInv
<1>2. draws' = Put(draws, Slot(NextTick), draw) /\ tick' = NextTick
  BY DEF TickSlot
<1>3. \A slot \in DOMAIN draws : slot \in Nat /\ slot <= Slot(tick)
  BY DEF SnapshotInv
<1> QED
  BY <1>1, <1>2, <1>3 DEF Put, DrawsStand

\* A step that adds no block: snapshots may be frozen and slots drawn.
LEMMA NoBlockStep ==
  ASSUME SnapshotInv, ChainInv', blocks' = blocks,
         Extends(snapshots, snapshots'), SnapsOk(snapshots'),
         DOMAIN validators' \subseteq Names,
         (draws' = draws /\ tick' = tick) \/ DrawsStand
  PROVE  SnapshotInv'
<1>1. DrawsStand
  BY DEF SnapshotInv, DrawsStand
<1>2. ASSUME NEW hash \in blocks', NEW i \in 2..Len(hash)
      PROVE  hash[i].Slot \in DOMAIN draws' /\ ByLeader(snapshots', draws', hash[i])
  <2>1. hash[i].Slot \in DOMAIN draws /\ ByLeader(snapshots, draws, hash[i])
    BY DEF SnapshotInv
  <2> QED
    BY <1>1, <2>1, ByLeaderStays DEF DrawsStand
<1> QED
  BY <1>1, <1>2 DEF SnapshotInv, SnapsOk, ByLeader, DrawsStand

\* What an accepted block does to the validators: its leader is rewarded and
\* the slots up to the tip are judged, with the snapshots frozen by then.
LEMMA AcceptJudges ==
  ASSUME SnapshotInv, NEW parent \in blocks, NEW st, NEW txs, NEW draw,
         Accept(Append(parent, NewHeader(st, txs, draw)))
  PROVE  \E epochs, headers, name, target :
           LET snaps == ensureSnapshots(SnapshotsNow, validators, stats, epochs)
               judged == processMissedSlots(headers, target,
                           Rewarded(validators, name), stats, snaps, draws')
           IN /\ epochs \subseteq Nat /\ target \in Nat
              /\ validators' = judged.vals
              /\ stats' = judged.sts
              /\ snapshots' = judged.snaps
              /\ lastProcessed' = IF target > lastProcessed
                                  THEN target ELSE lastProcessed
<1> DEFINE header == NewHeader(st, txs, draw)
           hash == Append(parent, header)
<1>1. /\ tick \in Nat /\ Slot(tick) \in Nat /\ Slot(NextTick) = Slot(tick) + 1
      /\ header.Slot = Slot(NextTick)
  BY NextSlotIsNext DEF SnapshotInv, ChainInv, TreeInv, NewHeader
<1>2. IsBranch(parent) /\ LastSlot(parent) <= Slot(tick)
  BY DEF SnapshotInv, ChainInv, TreeInv
<1>3. LastSlot(parent) \in Nat
  BY <1>2, BranchLastSlot
<1> HIDE DEF header
<1>4. hash[Len(hash)] = header
  BY <1>1, <1>2, <1>3, AppendBranch
<1>5. ~ Equivocates(hash)
  BY <1>1, <1>4 DEF Equivocates, SnapshotInv, ChainInv, ProducersInv
<1> HIDE DEF hash
<1>6. LastSlot(hash) \in Nat
  BY <1>1, <1>4 DEF LastSlot
<1>7. LastSlot(chain) \in Nat
  <2>1. IsBranch(chain)
    BY DEF SnapshotInv, ChainInv, CanonicalInv, TreeInv
  <2> QED
    BY <2>1, BranchLastSlot
<1>8. \E epochs, canonical :
        LET snaps == ensureSnapshots(SnapshotsNow, validators, stats, epochs)
            target == LastSlot(canonical)
            judged == processMissedSlots(canonical, target,
                        Rewarded(validators, header.Validator), stats, snaps, draws')
        IN /\ epochs \subseteq Nat
           /\ canonical \in {hash, chain}
           /\ validators' = judged.vals
           /\ stats' = judged.sts
           /\ snapshots' = judged.snaps
           /\ lastProcessed' = IF target > lastProcessed
                               THEN target ELSE lastProcessed
  <2> DEFINE branch == Walk(blocks, hash)
             epochs == EpochsOf(TipWalk(hash)) \cup EpochsOf(branch)
             snaps == ensureSnapshots(SnapshotsNow, validators, stats, epochs)
             verdict == IF branch = hash THEN Verdict(chain, hash, snaps) ELSE "missing"
             canonical == IF verdict = "adopt" THEN hash ELSE chain
             target == LastSlot(canonical)
             judged == processMissedSlots(canonical, target,
                         Rewarded(validators, header.Validator), stats, snaps, draws')
  <2>1. /\ validators' = judged.vals
        /\ stats' = judged.sts
        /\ snapshots' = judged.snaps
        /\ lastProcessed' = IF target > lastProcessed
                            THEN target ELSE lastProcessed
    BY <1>4, <1>5 DEF Accept, LastSlot, hash, header
  <2>2. IsBranch(hash)
    BY <1>1, <1>2, <1>3, AppendBranch DEF hash
  <2>3. EpochsOf(TipWalk(hash)) \subseteq Nat
    <3>1. IsBranch(tip)
      BY DEF SnapshotInv, ChainInv, CanonicalInv, TreeInv
    <3> QED
      BY <3>1, WalkEpochs DEF TipWalk
  <2>4. epochs \subseteq Nat
    BY <2>2, <2>3, WalkEpochs
  <2>5. canonical \in {hash, chain}
    OBVIOUS
  <2> HIDE DEF epochs, canonical
  <2> QED
    BY <2>1, <2>4, <2>5
<1>9. PICK epochs, canonical :
        LET snaps == ensureSnapshots(SnapshotsNow, validators, stats, epochs)
            target == LastSlot(canonical)
            judged == processMissedSlots(canonical, target,
                        Rewarded(validators, header.Validator), stats, snaps, draws')
        IN /\ epochs \subseteq Nat
           /\ canonical \in {hash, chain}
           /\ validators' = judged.vals
           /\ stats' = judged.sts
           /\ snapshots' = judged.snaps
           /\ lastProcessed' = IF target > lastProcessed
                               THEN target ELSE lastProcessed
  BY <1>8
<1>10. LastSlot(canonical) \in Nat
  BY <1>6, <1>7, <1>9
<1> QED
  BY <1>9, <1>10

\* A block on any known parent: the snapshots pass through ensureSnapshots and
\* the loop over the missed slots, the block's leader is the one of its slot.
LEMMA AcceptKeepsLeaders ==
  ASSUME SnapshotInv, ChainInv', NEW parent \in blocks, NEW st, NEW txs, NEW draw,
         TickSlot(draw), CanMakeBlock(st, txs, draw),
         Accept(Append(parent, NewHeader(st, txs, draw)))
  PROVE  SnapshotInv' /\ Extends(snapshots, snapshots')
<1> DEFINE header == NewHeader(st, txs, draw)
           hash == Append(parent, header)
<1>1. /\ tick \in Nat /\ Slot(tick) \in Nat /\ Slot(NextTick) = Slot(tick) + 1
      /\ header.Slot = Slot(NextTick)
  BY NextSlotIsNext DEF SnapshotInv, ChainInv, TreeInv, NewHeader
<1>2. IsBranch(parent) /\ LastSlot(parent) \in Nat /\ LastSlot(parent) <= Slot(tick)
  <2>1. IsBranch(parent) /\ LastSlot(parent) <= Slot(tick)
    BY DEF SnapshotInv, ChainInv, TreeInv
  <2> QED
    BY <2>1, BranchLastSlot
<1>3. DrawsStand /\ header.Slot \in DOMAIN draws' /\ draws'[header.Slot] = draw
  BY <1>1, TickKeepsDraws
<1>4. /\ Extends(snapshots, SnapshotsNow) /\ SnapsOk(SnapshotsNow)
  BY <1>1, NowKeeps DEF SnapshotInv
<1>5. ByLeader(SnapshotsNow, draws', header)
  BY <1>3, NewHeaderByLeader DEF ByLeader
<1> HIDE DEF header
<1>6. /\ Len(hash) = Len(parent) + 1 /\ hash[Len(hash)] = header
      /\ \A i \in 1..Len(parent) : hash[i] = parent[i]
  BY <1>1, <1>2, AppendBranch
<1> HIDE DEF hash
<1>7. blocks' = blocks \cup {hash}
  BY DEF Accept, hash, header
<1>8. PICK epochs, headers, name, target :
        LET snaps == ensureSnapshots(SnapshotsNow, validators, stats, epochs)
            judged == processMissedSlots(headers, target,
                        Rewarded(validators, name), stats, snaps, draws')
        IN /\ epochs \subseteq Nat /\ target \in Nat
           /\ validators' = judged.vals /\ snapshots' = judged.snaps
  BY AcceptJudges DEF hash, header
<1> DEFINE snaps == ensureSnapshots(SnapshotsNow, validators, stats, epochs)
           vals == Rewarded(validators, name)
           judged == processMissedSlots(headers, target, vals, stats, snaps, draws')
<1>9. Extends(SnapshotsNow, snaps) /\ SnapsOk(snaps)
  <2>1. epochs \in SUBSET Nat
    BY <1>8
  <2> QED
    BY <1>4, <2>1, EnsureKeeps DEF SnapshotInv
<1>10. DOMAIN vals \subseteq Names /\ lastProcessed \in Nat /\ target \in Nat
  <2>1. IsBranch(chain) /\ lastProcessed = LastSlot(chain)
    BY DEF SnapshotInv, ChainInv, CanonicalInv, TreeInv, TipNeverBehind, TipSlot,
           LastSlot
  <2>2. lastProcessed \in Nat
    BY <2>1, BranchLastSlot
  <2> QED
    BY <1>8, <2>2 DEF Rewarded, SnapshotInv
<1>11. /\ Extends(snaps, judged.snaps) /\ SnapsOk(judged.snaps)
       /\ DOMAIN judged.vals \subseteq Names
  <2> HIDE DEF snaps, vals
  <2> QED
    BY <1>9, <1>10, MissedSlotsKeep
<1>12. validators' = judged.vals /\ snapshots' = judged.snaps
  BY <1>8
<1> HIDE DEF judged, snaps, vals
<1>13. Extends(SnapshotsNow, snapshots')
  BY <1>9, <1>11, <1>12, ExtendsTrans
<1>14. Extends(snapshots, snapshots')
  BY <1>4, <1>13, ExtendsTrans
<1>15. ASSUME NEW b \in blocks', NEW i \in 2..Len(b)
       PROVE  b[i].Slot \in DOMAIN draws' /\ ByLeader(snapshots', draws', b[i])
  <2>1. ASSUME NEW old \in blocks, NEW j \in 2..Len(old)
        PROVE  /\ old[j].Slot \in DOMAIN draws'
               /\ ByLeader(snapshots', draws', old[j])
    <3>1. old[j].Slot \in DOMAIN draws /\ ByLeader(snapshots, draws, old[j])
      BY DEF SnapshotInv
    <3> QED
      BY <1>3, <1>14, <3>1, ByLeaderStays DEF DrawsStand
  <2>2. CASE b \in blocks
    BY <2>1, <2>2
  <2>3. CASE b = hash /\ i \in 1..Len(parent)
    <3>1. i \in 2..Len(parent) /\ b[i] = parent[i]
      BY <1>6, <2>3
    <3> QED
      BY <2>1, <3>1
  <2>4. CASE b = hash /\ i \notin 1..Len(parent)
    <3>1. Len(parent) \in Nat
      BY <1>2 DEF IsBranch
    <3>2. b[i] = header
      BY <1>6, <2>4, <3>1
    <3>3. ByLeader(snapshots', draws', header)
      BY <1>5, <1>13, ByLeaderStays
    <3> QED
      BY <1>3, <3>2, <3>3
  <2> QED
    BY <1>7, <2>2, <2>3, <2>4
<1>16. SnapshotInv'
  BY <1>3, <1>11, <1>12, <1>15 DEF SnapshotInv, SnapsOk, ByLeader, DrawsStand
<1> QED
  BY <1>14, <1>16

\* Every call, with any arguments.
LEMMA SnapshotStep ==
  SnapshotInv /\ [Next]_vars => SnapshotInv' /\ Extends(snapshots, snapshots')
<1> SUFFICES ASSUME SnapshotInv, [Next]_vars
             PROVE  SnapshotInv' /\ Extends(snapshots, snapshots')
  OBVIOUS
<1>1. ChainInv'
  BY ChainInvNext DEF SnapshotInv
<1>2. /\ tip \in blocks /\ DOMAIN validators \subseteq Names /\ SnapsOk(snapshots)
      /\ Extends(snapshots, snapshots)
  BY DEF SnapshotInv, ChainInv, CanonicalInv, Extends
<1>3. Extends(snapshots, SnapshotsNow) /\ SnapsOk(SnapshotsNow)
  BY <1>2, NowKeeps DEF SnapshotInv, ChainInv, TreeInv
<1>4. ASSUME NEW leader, NEW draw, TickSlot(draw), Refuse(leader)
      PROVE  SnapshotInv' /\ Extends(snapshots, snapshots')
  <2>1. DOMAIN validators' \subseteq Names
    BY <1>2, <1>4, SlashDomain DEF Refuse
  <2>2. blocks' = blocks /\ snapshots' = SnapshotsNow
    BY <1>4 DEF Refuse, chainVars
  <2>3. DrawsStand
    BY <1>4, TickKeepsDraws
  <2> QED
    BY <1>1, <1>3, <2>1, <2>2, <2>3, NoBlockStep
<1>5. ASSUME NEW parent \in blocks, NEW st, NEW txs, NEW draw, TickSlot(draw),
             IF CanMakeBlock(st, txs, draw)
             THEN Accept(Append(parent, NewHeader(st, txs, draw)))
             ELSE Refuse(LeaderNow(draw))
      PROVE  SnapshotInv' /\ Extends(snapshots, snapshots')
  <2>1. CASE CanMakeBlock(st, txs, draw)
    BY <1>1, <1>5, <2>1, AcceptKeepsLeaders
  <2>2. CASE ~ CanMakeBlock(st, txs, draw)
    BY <1>4, <1>5, <2>2
  <2> QED
    BY <2>1, <2>2
<1>6. ASSUME NEW batch, NEW draw, AddBlock(batch, draw)
      PROVE  SnapshotInv' /\ Extends(snapshots, snapshots')
  <2>1. TickSlot(draw)
    BY <1>6 DEF AddBlock
  <2>2. \E txs : IF CanMakeBlock(state, txs, draw)
                 THEN Accept(Append(tip, NewHeader(state, txs, draw)))
                 ELSE Refuse(LeaderNow(draw))
    BY <1>6 DEF AddBlock
  <2> QED
    BY <1>2, <1>5, <2>1, <2>2
<1>7. ASSUME NEW parent \in blocks, NEW batch, NEW draw,
             AddBlockExternal(parent, batch, draw)
      PROVE  SnapshotInv' /\ Extends(snapshots, snapshots')
  <2> DEFINE base == stateAtTip(parent)
  <2>1. TickSlot(draw)
    BY <1>7 DEF AddBlockExternal
  <2>2. CASE IF CanMakeBlock(base.st, batch, draw)
             THEN Accept(Append(parent, NewHeader(base.st, batch, draw)))
             ELSE Refuse(LeaderNow(draw))
    <3> HIDE DEF base
    <3> QED
      BY <1>5, <2>1, <2>2
  <2>3. CASE /\ snapshots' = SnapshotsNow
             /\ UNCHANGED <<registryVars, chainVars, genesis, slotProducers,
                            equivocations>>
    <3>1. blocks' = blocks /\ DOMAIN validators' \subseteq Names
      BY <1>2, <2>3 DEF chainVars, registryVars
    <3>2. DrawsStand
      BY <2>1, TickKeepsDraws
    <3> QED
      BY <1>1, <1>3, <2>3, <3>1, <3>2, NoBlockStep
  <2> QED
    BY <1>7, <2>2, <2>3 DEF AddBlockExternal
<1>8. ASSUME UNCHANGED <<blocks, draws, tick, snapshots>>,
             DOMAIN validators' \subseteq Names
      PROVE  SnapshotInv' /\ Extends(snapshots, snapshots')
  BY <1>1, <1>2, <1>8, NoBlockStep
<1>9. CASE VerifyChain
  <2>1. PICK epochs \in SUBSET {epochForSlot(chain[i].Slot) : i \in 2..Len(chain)} :
          snapshots' = ensureSnapshots(snapshots, validators, stats, epochs)
    BY <1>9, VerifyChainEffect
  <2>2. IsBranch(chain)
    BY DEF SnapshotInv, ChainInv, CanonicalInv, TreeInv
  <2>3. epochs \in SUBSET Nat
    <3>1. \A i \in 1..Len(chain) : epochForSlot(chain[i].Slot) \in Nat
      BY <2>2, EpochNat DEF IsBranch
    <3>2. Len(chain) \in Nat
      BY <2>2 DEF IsBranch
    <3> QED
      BY <3>1, <3>2
  <2>4. Extends(snapshots, snapshots') /\ SnapsOk(snapshots')
    BY <1>2, <2>1, <2>3, EnsureKeeps
  <2>5. DOMAIN validators' \subseteq Names
    BY <1>2, <1>9, VerifyChainEffect, SlashDomain
  <2>6. UNCHANGED <<blocks, draws, tick>>
    BY <1>9 DEF VerifyChain, chainVars
  <2> QED
    BY <1>1, <1>2, <2>4, <2>5, <2>6, NoBlockStep
<1>10. ASSUME NEW addr, NEW amount, SetBalance(addr, amount)
       PROVE  SnapshotInv' /\ Extends(snapshots, snapshots')
  BY <1>2, <1>8, <1>10 DEF SetBalance, registryVars
<1>11. ASSUME NEW tx, AddTx(tx)
       PROVE  SnapshotInv' /\ Extends(snapshots, snapshots')
  BY <1>2, <1>8, <1>11 DEF AddTx, registryVars, chainVars
<1>12. ASSUME NEW epochs \in SUBSET Nat, Freeze(epochs)
       PROVE  SnapshotInv' /\ Extends(snapshots, snapshots')
  <2>1. Extends(snapshots, snapshots') /\ SnapsOk(snapshots')
    BY <1>2, <1>12, EnsureKeeps DEF Freeze
  <2>2. UNCHANGED <<blocks, draws, tick, validators>>
    BY <1>12 DEF Freeze, registryVars, chainVars
  <2> QED
    BY <1>1, <1>2, <2>1, <2>2, NoBlockStep
<1>13. CASE \/ \E slot \in Slots : GetEpochSnapshot(slot)
            \/ \E hash \in blocks : ScoreTip(hash)
            \/ WeightDeltaRequired
            \/ GetForkCandidates
  <2>1. \A hash \in blocks : IsBranch(hash) /\ epochForSlot(hash[Len(hash)].Slot) \in Nat
    <3>1. \A hash \in blocks : IsBranch(hash)
      BY DEF SnapshotInv, ChainInv, TreeInv
    <3> QED
      BY <3>1, BranchEpochs
  <2>2. ASSUME NEW slot \in Slots, GetEpochSnapshot(slot)
        PROVE  SnapshotInv' /\ Extends(snapshots, snapshots')
    <3>1. {epochForSlot(slot)} \in SUBSET Nat
      BY EpochNat, WorldAssumption
    <3> QED
      BY <1>12, <2>2, <3>1 DEF GetEpochSnapshot
  <2>3. ASSUME NEW hash \in blocks, ScoreTip(hash)
        PROVE  SnapshotInv' /\ Extends(snapshots, snapshots')
    BY <1>12, <2>1, <2>3, WalkEpochs DEF ScoreTip
  <2>4. CASE WeightDeltaRequired
    <3>1. {epochForSlot(chain[Len(chain)].Slot)} \in SUBSET Nat
      BY <2>1 DEF SnapshotInv, ChainInv, CanonicalInv
    <3> QED
      BY <1>12, <2>4, <3>1 DEF WeightDeltaRequired
  <2>5. CASE GetForkCandidates
    <3>1. {epochForSlot(hash[Len(hash)].Slot) : hash \in blocks} \in SUBSET Nat
      BY <2>1
    <3> QED
      BY <1>12, <2>5, <3>1 DEF GetForkCandidates
  <2> QED
    BY <1>13, <2>2, <2>3, <2>4, <2>5
<1>14. CASE ResetReorgStats
  BY <1>2, <1>8, <1>14 DEF ResetReorgStats, registryVars
<1>15. CASE ChangeValidators
  <2>1. UNCHANGED <<blocks, draws, tick, snapshots>>
    BY <1>15 DEF ChangeValidators, chainVars
  <2>2. ASSUME NEW name \in Names, NEW stake, NEW pub, NEW priv,
               AddValidator(name, stake, pub, priv)
        PROVE  DOMAIN validators' \subseteq Names
    BY <1>2, <2>2 DEF AddValidator, WithValidator, Put
  <2>3. ASSUME NEW name \in Names, NEW amount, AddStake(name, amount)
        PROVE  DOMAIN validators' \subseteq Names
    BY <1>2, <2>3 DEF AddStake
  <2>4. ASSUME NEW name \in Names, NEW amount, Unstake(name, amount)
        PROVE  DOMAIN validators' \subseteq Names
    BY <1>2, <2>4 DEF Unstake, Unstaked, Delete
  <2>5. DOMAIN validators' \subseteq Names
    BY <1>15, <2>2, <2>3, <2>4 DEF ChangeValidators
  <2> QED
    BY <1>8, <2>1, <2>5
<1>16. CASE UNCHANGED vars
  BY <1>2, <1>8, <1>16 DEF vars, registryVars, chainVars
<1> QED
  BY <1>6, <1>7, <1>9, <1>10, <1>11, <1>13, <1>14, <1>15, <1>16
     DEF Next, OtherCall

\* SnapshotInv holds at NewBlockchain.
LEMMA SnapshotInvInit == Init => SnapshotInv
<1> SUFFICES ASSUME Init PROVE SnapshotInv
  OBVIOUS
<1>1. DOMAIN EmptyMap = {}
  BY DEF EmptyMap
<1>2. ASSUME NEW hash \in blocks, NEW i \in 2..Len(hash) PROVE FALSE
  <2>1. hash = GenesisBlock /\ Len(GenesisBlock) = 1
    BY DEF Init, GenesisBlock
  <2> QED
    BY <2>1
<1> QED
  BY <1>1, <1>2, ChainInvInit DEF Init, RegistryInit, SnapshotInv, SnapsOk

-----------------------------------------------------------------------------
(* Theorems.                                                                 *)

\* SnapshotInv, the strengthening the properties below rest on.
THEOREM SnapshotInvariant == Spec => []SnapshotInv
<1>1. SnapshotInv /\ [Next]_vars => SnapshotInv'
  BY SnapshotStep
<1> QED
  BY <1>1, SnapshotInvInit, PTL DEF Spec

\* ensureSnapshot freezes: no call of the engine, with any arguments and in any
\* order, changes or drops the stakes of an epoch once they have been taken.
THEOREM SnapshotsFrozenHolds == Spec => SnapshotsFrozen
<1>1. SnapshotInv /\ [Next]_vars =>
        [\A e \in DOMAIN snapshots :
           e \in DOMAIN snapshots' /\ snapshots'[e] = snapshots[e]]_vars
  BY SnapshotStep DEF Extends
<1> QED
  BY <1>1, SnapshotInvariant, PTL DEF Spec, SnapshotsFrozen

\* What verifyBlockOnAccept required of a block's leader stays true of it: the
\* snapshot of its epoch elects it today, with a stake fork choice counts.
THEOREM BlocksByLeadersHolds == Spec => []BlocksByLeaders
<1>1. SnapshotInv => BlocksByLeaders
  BY DEF SnapshotInv, ByLeader, BlocksByLeaders
<1> QED
  BY <1>1, SnapshotInvariant, PTL
=============================================================================

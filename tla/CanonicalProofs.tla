--------------------------- MODULE CanonicalProofs ---------------------------
(* Proofs about the canonical chain: fork choice, and the ledger it leads    *)
(* to, for any tree of blocks, stakes, transactions and thresholds.          *)
EXTENDS DisciplineProofs

-----------------------------------------------------------------------------
(* The weight of a branch depends on the frozen snapshots of its epochs, and *)
(* on nothing that may change.                                               *)

Terms(snaps, headers) ==
  [i \in DOMAIN headers |-> IF i = 1 THEN 0 ELSE snapshotStake(snaps, headers[i])]

LEMMA WeightIsSum ==
  ASSUME NEW snaps, NEW headers
  PROVE  Weight(snaps, headers) = SumOf(Terms(snaps, headers), DOMAIN headers)
<1> DEFINE D == DOMAIN headers
           term(i) == IF i = 1 THEN 0 ELSE snapshotStake(snaps, headers[i])
           Next1(sum) == [s \in SUBSET D |->
             IF s = {} THEN 0 ELSE term(Pick(s)) + sum[s \ {Pick(s)}]]
           Next2(sum) == [s \in SUBSET D |->
             IF s = {} THEN 0 ELSE Terms(snaps, headers)[Pick(s)] + sum[s \ {Pick(s)}]]
<1>1. Weight(snaps, headers) = (CHOOSE sum : sum = Next1(sum))[D]
  BY DEF Weight, MapThenSumSet, MapThenFoldSet, Pick
<1>2. SumOf(Terms(snaps, headers), D) = (CHOOSE sum : sum = Next2(sum))[D]
  BY DEF SumOf, IsSum
<1>3. ASSUME NEW sum PROVE Next1(sum) = Next2(sum)
  <2>1. \A s \in SUBSET D : s # {} => Pick(s) \in D
    BY PickInSet
  <2>2. \A i \in D : Terms(snaps, headers)[i] = term(i)
    BY DEF Terms
  <2> HIDE DEF term, D
  <2> QED
    BY <2>1, <2>2
<1> HIDE DEF Next1, Next2
<1>4. (CHOOSE sum : sum = Next1(sum)) = (CHOOSE sum : sum = Next2(sum))
  BY <1>3
<1> QED
  BY <1>1, <1>2, <1>4

\* scoreTip counts the genesis block too: a validator of that name has stake.
ScoreTerms(snaps, headers) ==
  [i \in DOMAIN headers |-> snapshotStake(snaps, headers[i])]

Score(snaps, headers) == SumOf(ScoreTerms(snaps, headers), DOMAIN headers)

LEMMA ScoreIsSum ==
  ASSUME NEW snaps, NEW headers, NEW hash
  PROVE  /\ scoreTip(snaps, headers, hash).CumulativeWeight = Score(snaps, headers)
         /\ scoreTip(snaps, headers, hash).Slot = LastSlot(headers)
<1> DEFINE D == DOMAIN headers
           term(i) == snapshotStake(snaps, headers[i])
           Next1(sum) == [s \in SUBSET D |->
             IF s = {} THEN 0 ELSE term(Pick(s)) + sum[s \ {Pick(s)}]]
           Next2(sum) == [s \in SUBSET D |->
             IF s = {} THEN 0 ELSE ScoreTerms(snaps, headers)[Pick(s)] + sum[s \ {Pick(s)}]]
<1>1. scoreTip(snaps, headers, hash).CumulativeWeight
        = (CHOOSE sum : sum = Next1(sum))[D]
  BY DEF scoreTip, MapThenSumSet, MapThenFoldSet, Pick
<1>2. Score(snaps, headers) = (CHOOSE sum : sum = Next2(sum))[D]
  BY DEF Score, SumOf, IsSum
<1>3. ASSUME NEW sum PROVE Next1(sum) = Next2(sum)
  <2>1. \A s \in SUBSET D : s # {} => Pick(s) \in D
    BY PickInSet
  <2>2. \A i \in D : ScoreTerms(snaps, headers)[i] = term(i)
    BY DEF ScoreTerms
  <2> HIDE DEF term, D
  <2> QED
    BY <2>1, <2>2
<1> HIDE DEF Next1, Next2
<1>4. (CHOOSE sum : sum = Next1(sum)) = (CHOOSE sum : sum = Next2(sum))
  BY <1>3
<1>5. scoreTip(snaps, headers, hash).Slot = LastSlot(headers)
  BY DEF scoreTip, LastSlot
<1> QED
  BY <1>1, <1>2, <1>4, <1>5

\* Once the epochs of a branch are frozen its terms are.
LEMMA TermsStay ==
  ASSUME NEW snaps, NEW later, Extends(snaps, later), NEW headers, IsBranch(headers),
         \A i \in 2..Len(headers) : epochForSlot(headers[i].Slot) \in DOMAIN snaps
  PROVE  Terms(later, headers) = Terms(snaps, headers)
<1>1. ASSUME NEW i \in DOMAIN headers, i # 1
      PROVE  snapshotStake(later, headers[i]) = snapshotStake(snaps, headers[i])
  <2>1. i \in 2..Len(headers)
    BY <1>1 DEF IsBranch
  <2>2. epochForSlot(headers[i].Slot) \in DOMAIN snaps
    BY <2>1
  <2> QED
    BY <2>2 DEF Extends, snapshotStake
<1> QED
  BY <1>1 DEF Terms

LEMMA WeightStays ==
  ASSUME NEW snaps, NEW later, Extends(snaps, later), NEW headers, IsBranch(headers),
         \A i \in 2..Len(headers) : epochForSlot(headers[i].Slot) \in DOMAIN snaps
  PROVE  Weight(later, headers) = Weight(snaps, headers)
BY TermsStay, WeightIsSum

LEMMA ScoreStays ==
  ASSUME NEW snaps, NEW later, Extends(snaps, later), NEW headers, IsBranch(headers),
         EpochsOf(headers) \subseteq DOMAIN snaps
  PROVE  Score(later, headers) = Score(snaps, headers)
<1>1. ASSUME NEW i \in DOMAIN headers
      PROVE  snapshotStake(later, headers[i]) = snapshotStake(snaps, headers[i])
  <2>1. epochForSlot(headers[i].Slot) \in DOMAIN snaps
    BY DEF EpochsOf
  <2> QED
    BY <2>1 DEF Extends, snapshotStake
<1>2. ScoreTerms(later, headers) = ScoreTerms(snaps, headers)
  BY <1>1 DEF ScoreTerms
<1> QED
  BY <1>2 DEF Score

\* What scoreTip computes is the weight of the branch and the same for every
\* branch besides.
LEMMA ScoreIsWeight ==
  ASSUME NEW snaps, StakesTyped(snaps), NEW headers, IsBranch(headers),
         EpochsOf(headers) \subseteq DOMAIN snaps
  PROVE  /\ Score(snaps, headers)
              = snapshotStake(snaps, GenesisHeader) + Weight(snaps, headers)
         /\ snapshotStake(snaps, GenesisHeader) \in Nat
         /\ Weight(snaps, headers) \in Nat
<1> DEFINE D == DOMAIN headers
           f == ScoreTerms(snaps, headers)
           g == Terms(snaps, headers)
<1>1. IsFiniteSet(D) /\ 1 \in D /\ headers[1] = GenesisHeader
  <2>1. D = 1..Len(headers) /\ Len(headers) \in Int /\ 1 \in D
    BY DEF IsBranch
  <2>2. IsFiniteSet(1..Len(headers))
    BY <2>1, FS_Interval
  <2> QED
    BY <2>1, <2>2 DEF IsBranch
<1>2. \A i \in D : f[i] = snapshotStake(snaps, headers[i])
  BY DEF ScoreTerms
<1>3. \A i \in D : g[i] = IF i = 1 THEN 0 ELSE snapshotStake(snaps, headers[i])
  BY DEF Terms
<1>4. \A i \in D : snapshotStake(snaps, headers[i]) \in Nat
  BY DEF EpochsOf, snapshotStake, StakesTyped
<1>5. Weight(snaps, headers) = SumOf(g, D)
  BY WeightIsSum
<1> HIDE DEF D, f, g
<1>6. \A i \in D : f[i] \in Nat
  BY <1>2, <1>4
<1>7. \A i \in D : g[i] \in Nat
  BY <1>3, <1>4
<1>8. SumOf(f, D) = f[1] + SumOf(f, D \ {1})
  BY <1>1, <1>6, SumTakeOut
<1>9. SumOf(g, D) = g[1] + SumOf(g, D \ {1}) /\ SumOf(g, D) \in Nat
      /\ SumOf(g, D \ {1}) \in Nat
  BY <1>1, <1>7, SumTakeOut
<1>10. SumOf(f, D \ {1}) = SumOf(g, D \ {1})
  <2>1. IsFiniteSet(D \ {1})
    BY <1>1, FS_Subset
  <2>2. \A i \in D \ {1} : f[i] = g[i]
    BY <1>2, <1>3
  <2> QED
    BY <2>1, <2>2, SumAlike
<1>11. f[1] = snapshotStake(snaps, GenesisHeader) /\ g[1] = 0 /\ f[1] \in Nat
  BY <1>1, <1>2, <1>3, <1>6
<1>12. Score(snaps, headers) = SumOf(f, D)
  BY DEF Score, f, D
<1> QED
  BY <1>5, <1>8, <1>9, <1>10, <1>11, <1>12

-----------------------------------------------------------------------------
(* What a step decides.                                                      *)

\* updateCanonical weighs the new block hash against the canonical chain, with
\* the snapshots snaps, and comes to verdict.
Chooses(hash, snaps, verdict) ==
  /\ SnapsOk(snaps) /\ Extends(snapshots, snaps) /\ Extends(snaps, snapshots')
  /\ Walk(blocks, hash) = hash => EpochsOf(chain) \cup EpochsOf(hash) \subseteq DOMAIN snaps
  /\ verdict = IF Walk(blocks, hash) = hash THEN Verdict(chain, hash, snaps)
               ELSE "missing"
  /\ blocks' = blocks \cup {hash}
  /\ chain' = IF verdict = "adopt" THEN hash ELSE chain
  /\ \E depth : reorgStats' = CountVerdict(reorgStats, verdict, depth)

\* The new block is ahead of every block in slots.
AheadOfAll(hash) ==
  IsBranch(hash) /\ \A b \in blocks : LastSlot(b) < LastSlot(hash)

LEMMA AcceptChooses ==
  ASSUME SnapshotInv, NEW parent \in blocks, NEW st, NEW txs, NEW draw,
         Accept(Append(parent, NewHeader(st, txs, draw)))
  PROVE  LET hash == Append(parent, NewHeader(st, txs, draw))
         IN AheadOfAll(hash) /\ \E snaps, verdict : Chooses(hash, snaps, verdict)
<1> DEFINE header == NewHeader(st, txs, draw)
           hash == Append(parent, header)
<1>1. /\ tick \in Nat /\ Slot(tick) \in Nat /\ Slot(NextTick) = Slot(tick) + 1
      /\ header.Slot = Slot(NextTick)
  BY NextSlotIsNext DEF SnapshotInv, ChainInv, TreeInv, NewHeader
<1>2. \A b \in blocks : IsBranch(b) /\ LastSlot(b) \in Nat /\ LastSlot(b) <= Slot(tick)
  <2>1. \A b \in blocks : IsBranch(b) /\ LastSlot(b) <= Slot(tick)
    BY DEF SnapshotInv, ChainInv, TreeInv
  <2> QED
    BY <2>1 DEF IsBranch, LastSlot
<1> HIDE DEF header
<1>3. IsBranch(parent) /\ LastSlot(parent) < header.Slot /\ header.Slot \in Nat
  BY <1>1, <1>2
<1>4. IsBranch(hash) /\ hash[Len(hash)] = header
  BY <1>3, AppendBranch
<1>5. ~ Equivocates(hash)
  BY <1>1, <1>4 DEF Equivocates, SnapshotInv, ChainInv, ProducersInv
<1> HIDE DEF hash
<1>6. LastSlot(hash) = Slot(tick) + 1
  BY <1>1, <1>4 DEF LastSlot
<1>7. AheadOfAll(hash)
  BY <1>1, <1>2, <1>4, <1>6 DEF AheadOfAll
<1> DEFINE branch == Walk(blocks, hash)
           snaps == ensureSnapshots(SnapshotsNow, validators, stats,
                                    EpochsOf(chain) \cup EpochsOf(branch))
           verdict == IF branch = hash THEN Verdict(chain, hash, snaps) ELSE "missing"
           canonical == IF verdict = "adopt" THEN hash ELSE chain
           target == LastSlot(canonical)
           vals == Rewarded(validators, header.Validator)
           judged == processMissedSlots(canonical, target, vals, stats, snaps, draws')
<1>8. /\ blocks' = blocks \cup {hash}
      /\ updateCanonical(hash, verdict, validators)
      /\ snapshots' = judged.snaps
  <2>1. TipWalk(hash) = chain
    BY TipWalkIsChain DEF SnapshotInv
  <2> QED
    BY <1>4, <1>5, <2>1 DEF Accept, LastSlot, hash, header
<1>9. /\ Extends(snapshots, SnapshotsNow) /\ SnapsOk(SnapshotsNow)
  BY <1>1, NowKeeps DEF SnapshotInv
<1>10. /\ Extends(SnapshotsNow, snaps) /\ SnapsOk(snaps)
       /\ EpochsOf(chain) \cup EpochsOf(branch) \subseteq DOMAIN snaps
  <2>1. EpochsOf(branch) \subseteq Nat
    BY <1>4, WalkEpochs
  <2>2. EpochsOf(chain) \subseteq Nat
    <3>1. IsBranch(chain)
      BY <1>2 DEF SnapshotInv, ChainInv, CanonicalInv
    <3> QED
      BY <3>1, BranchEpochs
  <2> HIDE DEF branch
  <2>3. EpochsOf(chain) \cup EpochsOf(branch) \in SUBSET Nat
    BY <2>1, <2>2
  <2> QED
    BY <1>9, <2>3, EnsureKeeps DEF SnapshotInv
<1>11. Extends(snapshots, snaps)
  BY <1>9, <1>10, ExtendsTrans
<1> HIDE DEF snaps, verdict, branch
<1>12. DOMAIN vals \subseteq Names /\ lastProcessed \in Nat /\ target \in Nat
  <2>1. chain \in blocks /\ lastProcessed = LastSlot(chain)
    BY DEF SnapshotInv, ChainInv, CanonicalInv, TipNeverBehind, TipSlot, LastSlot
  <2>2. canonical \in {hash, chain}
    OBVIOUS
  <2> QED
    BY <1>1, <1>2, <1>6, <2>1, <2>2 DEF Rewarded, SnapshotInv
<1>13. Extends(snaps, judged.snaps)
  <2> HIDE DEF vals, canonical
  <2> QED
    BY <1>10, <1>12, MissedSlotsKeep
<1>14. chain' = canonical
  BY <1>8 DEF updateCanonical
<1>15. \E depth : reorgStats' = CountVerdict(reorgStats, verdict, depth)
  BY <1>8 DEF updateCanonical
<1>16. verdict = IF Walk(blocks, hash) = hash THEN Verdict(chain, hash, snaps) ELSE "missing"
  BY DEF verdict, branch
<1> HIDE DEF judged
<1>17. Chooses(hash, snaps, verdict)
  BY <1>8, <1>10, <1>11, <1>13, <1>14, <1>15, <1>16 DEF Chooses, branch
<1> QED
  BY <1>7, <1>17 DEF hash, header

LeftAlone ==
  /\ UNCHANGED <<blocks, chain>>
  /\ reorgStats' = reorgStats \/ ("ResetReorgStats" \in Calls /\ ResetReorgStats)

Inserted ==
  \E parent \in blocks : \E header :
    LET hash == Append(parent, header)
    IN AheadOfAll(hash) /\ \E snaps, verdict : Chooses(hash, snaps, verdict)

\* A step leaves the tree and the canonical chain alone or inserts one block
\* and weighs it.
LEMMA StepChooses ==
  ASSUME SnapshotInv, [Next]_vars
  PROVE  LeftAlone \/ Inserted
<1>1. ASSUME NEW parent \in blocks, NEW st, NEW txs, NEW draw,
             Accept(Append(parent, NewHeader(st, txs, draw)))
      PROVE  Inserted
  <2>1. LET hash == Append(parent, NewHeader(st, txs, draw))
        IN AheadOfAll(hash) /\ \E snaps, verdict : Chooses(hash, snaps, verdict)
    BY <1>1, AcceptChooses
  <2> QED
    BY <2>1 DEF Inserted
<1>2. ASSUME NEW batch, NEW draw, AddBlock(batch, draw)
      PROVE  LeftAlone \/ Inserted
  <2>1. tip \in blocks
    BY DEF SnapshotInv, ChainInv, CanonicalInv
  <2>2. \/ \E txs : Accept(Append(tip, NewHeader(state, txs, draw)))
        \/ Refuse(LeaderNow(draw))
    BY <1>2 DEF AddBlock
  <2>3. CASE Refuse(LeaderNow(draw))
    BY <2>3 DEF Refuse, chainVars, LeftAlone
  <2> QED
    BY <1>1, <2>1, <2>2, <2>3
<1>3. ASSUME NEW parent \in blocks, NEW batch, NEW draw,
             AddBlockExternal(parent, batch, draw)
      PROVE  LeftAlone \/ Inserted
  <2> DEFINE base == stateAtTip(parent)
  <2>1. \/ Accept(Append(parent, NewHeader(base.st, batch, draw)))
        \/ Refuse(LeaderNow(draw))
        \/ UNCHANGED chainVars
    BY <1>3 DEF AddBlockExternal
  <2> HIDE DEF base
  <2>2. CASE Refuse(LeaderNow(draw)) \/ UNCHANGED chainVars
    BY <2>2 DEF Refuse, chainVars, LeftAlone
  <2> QED
    BY <1>1, <2>1, <2>2
<1>4. CASE OtherCall
  <2>1. ASSUME NEW addr, NEW amount, SetBalance(addr, amount) PROVE LeftAlone
    BY <2>1 DEF SetBalance, LeftAlone
  <2>2. ASSUME NEW tx, AddTx(tx) PROVE LeftAlone
    BY <2>2 DEF AddTx, chainVars, LeftAlone
  <2>3. ASSUME NEW epochs, Freeze(epochs) PROVE LeftAlone
    BY <2>3 DEF Freeze, chainVars, LeftAlone
  <2>4. CASE \/ \E slot \in Slots : GetEpochSnapshot(slot)
             \/ \E hash \in blocks : ScoreTip(hash)
             \/ WeightDeltaRequired
             \/ GetForkCandidates
    BY <2>3, <2>4 DEF GetEpochSnapshot, ScoreTip, WeightDeltaRequired,
                      GetForkCandidates
  <2>5. CASE VerifyChain
    BY <2>5, VerifyChainEffect DEF chainVars, LeftAlone
  <2>6. CASE "ResetReorgStats" \in Calls /\ ResetReorgStats
    BY <2>6 DEF ResetReorgStats, LeftAlone
  <2>7. CASE ChangeValidators
    BY <2>7 DEF ChangeValidators, chainVars, LeftAlone
  <2> QED
    BY <1>4, <2>1, <2>2, <2>4, <2>5, <2>6, <2>7 DEF OtherCall
<1>5. CASE UNCHANGED vars
  BY <1>5 DEF vars, chainVars, LeftAlone
<1> QED
  BY <1>2, <1>3, <1>4, <1>5 DEF Next

-----------------------------------------------------------------------------
(* A branch is adopted for its weight.                                       *)

LEMMA AdoptedBranch ==
  ASSUME NEW old, NEW new, NEW snaps, Verdict(old, new, snaps) = "adopt",
         TipWalk(new) = old
  PROVE  LET current == scoreTip(snaps, old, tip)
             score == scoreTip(snaps, new, new)
         IN /\ betterScore(score, current)
            /\ ~ (ReorgDepth(old, new) > MaxReorgDepth)
            /\ weightDeltaSatisfied(current.CumulativeWeight, score.CumulativeWeight,
                                    activeStake(snaps, old))
BY DEF Verdict

\* What HeavierOnly says of a step.
HeavierStep ==
  LET old == Score(snapshots', chain)
      new == Score(snapshots', chain')
  IN /\ \/ new > old
        \/ new = old /\ chain'[Len(chain')].Slot > TipSlot
     /\ weightDeltaSatisfied(old, new, activeStake(snapshots', chain))
     /\ \A i \in 1..(Len(chain) - MaxReorgDepth) : chain'[i] = chain[i]
     /\ \A i \in 2..Len(chain) :
          snapshotStake(snapshots', chain[i]) = snapshotStake(snapshots, chain[i])

LEMMA AdoptionIsHeavier ==
  ASSUME SnapshotInv, Extends(snapshots, snapshots'), NEW hash, AheadOfAll(hash),
         NEW snaps, NEW verdict, Chooses(hash, snaps, verdict), verdict = "adopt"
  PROVE  HeavierStep
<1>1. /\ chain \in blocks /\ IsBranch(chain) /\ IsBranch(hash)
      /\ TipWalk(hash) = chain
  BY TipWalkIsChain DEF SnapshotInv, ChainInv, CanonicalInv, TreeInv, AheadOfAll
<1>2. LastSlot(chain) \in Nat /\ LastSlot(hash) \in Nat
  BY <1>1 DEF IsBranch, LastSlot
<1>3. LastSlot(chain) < LastSlot(hash)
  BY <1>1 DEF AheadOfAll
<1>4. /\ Walk(blocks, hash) = hash /\ Verdict(chain, hash, snaps) = "adopt"
      /\ Extends(snaps, snapshots')
      /\ EpochsOf(chain) \subseteq DOMAIN snaps /\ EpochsOf(hash) \subseteq DOMAIN snaps
      /\ chain' = hash
  BY DEF Chooses
<1> DEFINE current == scoreTip(snaps, chain, tip)
           score == scoreTip(snaps, hash, hash)
<1>5. /\ betterScore(score, current)
      /\ ~ (ReorgDepth(chain, hash) > MaxReorgDepth)
      /\ weightDeltaSatisfied(current.CumulativeWeight, score.CumulativeWeight,
                              activeStake(snaps, chain))
  BY <1>1, <1>4, AdoptedBranch
<1>6. /\ current.CumulativeWeight = Score(snapshots', chain)
      /\ score.CumulativeWeight = Score(snapshots', hash)
      /\ current.Slot = LastSlot(chain) /\ score.Slot = LastSlot(hash)
  BY <1>1, <1>4, ScoreIsSum, ScoreStays
<1>7. activeStake(snaps, chain) = activeStake(snapshots', chain)
  <2>1. epochForSlot(chain[Len(chain)].Slot) \in DOMAIN snaps
    <3>1. Len(chain) \in DOMAIN chain
      BY <1>1 DEF IsBranch
    <3> QED
      BY <1>4, <3>1 DEF EpochsOf
  <2> QED
    BY <1>4, <2>1 DEF Extends, activeStake
<1> HIDE DEF current, score
<1>8. \/ Score(snapshots', hash) > Score(snapshots', chain)
      \/ /\ Score(snapshots', hash) = Score(snapshots', chain)
         /\ LastSlot(hash) > LastSlot(chain)
  BY <1>2, <1>3, <1>5, <1>6 DEF betterScore
<1>9. weightDeltaSatisfied(Score(snapshots', chain), Score(snapshots', hash),
                           activeStake(snapshots', chain))
  BY <1>5, <1>6, <1>7
<1>10. \A i \in 1..(Len(chain) - MaxReorgDepth) : hash[i] = chain[i]
  <2> DEFINE d == Divergence(chain, hash)
  <2>1. d \in Nat \ {0} /\ \A i \in Nat \ {0} : i < d => chain[i] = hash[i]
    BY <1>1, DivergenceProperties
  <2>2. ReorgDepth(chain, hash) = Len(chain) + 1 - d
    BY DEF ReorgDepth
  <2> HIDE DEF d
  <2>3. Len(chain) \in Nat /\ MaxReorgDepth \in Nat
    BY <1>1, ConfigAssumption DEF IsBranch
  <2>4. Len(chain) - MaxReorgDepth < d
    BY <1>5, <2>1, <2>2, <2>3
  <2> QED
    BY <2>1, <2>3, <2>4
<1>11. ASSUME NEW i \in 2..Len(chain)
       PROVE  snapshotStake(snapshots', chain[i]) = snapshotStake(snapshots, chain[i])
  <2>1. epochForSlot(chain[i].Slot) \in DOMAIN snapshots
    BY <1>1 DEF SnapshotInv, ByLeader
  <2> QED
    BY <2>1 DEF Extends, snapshotStake
<1> QED
  BY <1>4, <1>8, <1>9, <1>10, <1>11 DEF HeavierStep, LastSlot, TipSlot

\* updateCanonical adopts a branch only if it is heavier by the weight required,
\* or without such a requirement as heavy and ahead, when both are weighed by
\* snapshots that nothing changes any more; and it undoes at most MaxReorgDepth
\* blocks.
THEOREM HeavierOnlyHolds == Spec => HeavierOnly
<1>1. ASSUME SnapshotInv, [Next]_vars, chain' # chain
      PROVE  HeavierStep
  <2>1. Extends(snapshots, snapshots')
    BY <1>1, SnapshotStep
  <2>2. Inserted
    BY <1>1, StepChooses DEF LeftAlone
  <2>3. PICK parent, header :
          LET hash == Append(parent, header)
          IN /\ parent \in blocks /\ AheadOfAll(hash)
             /\ \E snaps, verdict : Chooses(hash, snaps, verdict)
    BY <2>2 DEF Inserted
  <2> DEFINE hash == Append(parent, header)
  <2>4. PICK snaps, verdict : Chooses(hash, snaps, verdict)
    BY <2>3
  <2>5. AheadOfAll(hash) /\ parent \in blocks
    BY <2>3
  <2> HIDE DEF hash
  <2>6. verdict = "adopt"
    BY <1>1, <2>4 DEF Chooses
  <2> QED
    BY <1>1, <2>1, <2>4, <2>5, <2>6, AdoptionIsHeavier
<1>2. SnapshotInv /\ [Next]_vars =>
        [chain' # chain =>
           LET old == scoreTip(snapshots', chain, tip).CumulativeWeight
               new == scoreTip(snapshots', chain', tip').CumulativeWeight
           IN /\ \/ new > old
                 \/ new = old /\ chain'[Len(chain')].Slot > TipSlot
              /\ weightDeltaSatisfied(old, new, activeStake(snapshots', chain))
              /\ \A i \in 1..(Len(chain) - MaxReorgDepth) : chain'[i] = chain[i]
              /\ \A i \in 2..Len(chain) :
                   snapshotStake(snapshots', chain[i])
                     = snapshotStake(snapshots, chain[i])]_vars
  BY <1>1, ScoreIsSum DEF HeavierStep
<1> QED
  BY <1>2, SnapshotInvariant, PTL DEF Spec, HeavierOnly

-----------------------------------------------------------------------------
(* The canonical tip is the best of all blocks.                              *)

Counters == [Info : Nat, Warn : Nat, Error : Nat, Critical : Nat]

BestInv ==
  /\ DisciplineInv
  /\ reorgStats \in Counters
  /\ CanonicalIsBest

LEMMA CountFacts ==
  ASSUME NEW metrics \in Counters, NEW verdict, NEW depth
  PROVE  LET next == CountVerdict(metrics, verdict, depth)
         IN /\ next \in Counters
            /\ next.Critical >= metrics.Critical
            /\ next.Error >= metrics.Error
            /\ verdict = "finalized" => next.Critical > 0
            /\ verdict \in {"deep", "light"} => next.Error > 0
BY DEF CountVerdict, Counters

LEMMA VerdictKinds ==
  ASSUME NEW old, NEW new, NEW snaps, TipWalk(new) = old
  PROVE  /\ Verdict(old, new, snaps) \in {"worse", "finalized", "deep", "light", "adopt"}
         /\ Verdict(old, new, snaps) = "worse" =>
              ~ betterScore(scoreTip(snaps, new, new), scoreTip(snaps, old, tip))
BY DEF Verdict

LEMMA WeightIsNat ==
  ASSUME NEW snaps, StakesTyped(snaps), NEW headers, IsBranch(headers),
         \A i \in 2..Len(headers) : epochForSlot(headers[i].Slot) \in DOMAIN snaps
  PROVE  Weight(snaps, headers) \in Nat
<1> DEFINE D == DOMAIN headers
           f == Terms(snaps, headers)
           sum == CHOOSE s : IsSum(s, f, D)
<1>1. IsFiniteSet(D)
  <2>1. D = 1..Len(headers) /\ Len(headers) \in Int
    BY DEF IsBranch
  <2> HIDE DEF D
  <2> QED
    BY <2>1, FS_Interval
<1>2. \A i \in D : f[i] \in Nat
  <2> SUFFICES ASSUME NEW i \in D, i # 1
               PROVE  snapshotStake(snaps, headers[i]) \in Nat
    BY DEF Terms
  <2>1. i \in 2..Len(headers)
    BY DEF IsBranch
  <2>2. epochForSlot(headers[i].Slot) \in DOMAIN snaps
    BY <2>1
  <2> QED
    BY <2>2 DEF snapshotStake, StakesTyped
<1>3. Weight(snaps, headers) = SumOf(f, D)
  BY WeightIsSum
<1> HIDE DEF D, f
<1>4. IsSum(sum, f, D)
  BY <1>1, SumExists
<1> HIDE DEF sum
<1>5. sum[D] \in Nat
  BY <1>1, <1>2, <1>4, SumIsNat
<1> QED
  BY <1>3, <1>5 DEF SumOf, sum

\* Blocks of the tree weigh what they weighed before.
LEMMA TreeWeights ==
  ASSUME SnapshotInv, StakesTyped(snapshots), Extends(snapshots, snapshots'),
         NEW hash \in blocks
  PROVE  /\ Weight(snapshots, hash) \in Nat
         /\ Weight(snapshots', hash) = Weight(snapshots, hash)
         /\ LastSlot(hash) \in Nat
<1>1. IsBranch(hash)
  BY DEF SnapshotInv, ChainInv, TreeInv
<1>2. \A i \in 2..Len(hash) : epochForSlot(hash[i].Slot) \in DOMAIN snapshots
  BY DEF SnapshotInv, ByLeader
<1>3. LastSlot(hash) \in Nat
  BY <1>1 DEF IsBranch, LastSlot
<1> QED
  BY <1>1, <1>2, <1>3, WeightStays, WeightIsNat

LEMMA InsertKeepsBest ==
  ASSUME BestInv, DisciplineInv', Extends(snapshots, snapshots'),
         NEW parent \in blocks, NEW header, AheadOfAll(Append(parent, header)),
         NEW snaps, NEW verdict, Chooses(Append(parent, header), snaps, verdict)
  PROVE  BestInv'
<1> DEFINE hash == Append(parent, header)
<1>1. /\ SnapshotInv /\ SnapshotInv' /\ StakesTyped(snapshots) /\ StakesTyped(snapshots')
      /\ chain \in blocks /\ IsBranch(parent) /\ IsBranch(chain) /\ IsBranch(hash)
      /\ TipWalk(hash) = chain
  BY TipWalkIsChain
     DEF BestInv, DisciplineInv, SnapshotInv, ChainInv, CanonicalInv, TreeInv, AheadOfAll
<1>2. blocks' = blocks \cup {hash} /\ chain' = IF verdict = "adopt" THEN hash ELSE chain
  BY DEF Chooses
<1>3. Walk(blocks, hash) = hash
  BY <1>1, <1>2, InsertKeepsRooted DEF SnapshotInv, ChainInv, TreeInv
<1>4. AheadOfAll(hash) /\ Chooses(hash, snaps, verdict)
  OBVIOUS
<1> HIDE DEF hash
<1>5. PICK depth : reorgStats' = CountVerdict(reorgStats, verdict, depth)
  BY <1>4 DEF Chooses
<1>6. /\ reorgStats' \in Counters
      /\ reorgStats'.Critical >= reorgStats.Critical
      /\ reorgStats'.Error >= reorgStats.Error
      /\ verdict = "finalized" => reorgStats'.Critical > 0
      /\ verdict \in {"deep", "light"} => reorgStats'.Error > 0
  BY <1>5, CountFacts DEF BestInv
<1>7. CanonicalIsBest'
  <2> SUFFICES ASSUME reorgStats'.Critical = 0, reorgStats'.Error = 0,
                      NEW b \in blocks'
               PROVE  LET best == Weight(snapshots', chain')
                          other == Weight(snapshots', b)
                      IN best > other \/ (best = other /\ LastSlot(chain') >= LastSlot(b))
    BY DEF CanonicalIsBest, TipSlot, LastSlot
  <2>1. reorgStats.Critical = 0 /\ reorgStats.Error = 0
    BY <1>6 DEF BestInv, Counters
  <2>2. \A a \in blocks : /\ Weight(snapshots', a) = Weight(snapshots, a)
                          /\ Weight(snapshots', a) \in Nat
                          /\ LastSlot(a) \in Nat
    BY <1>1, TreeWeights
  <2>3. \A a \in blocks :
          \/ Weight(snapshots', chain) > Weight(snapshots', a)
          \/ /\ Weight(snapshots', chain) = Weight(snapshots', a)
             /\ LastSlot(chain) >= LastSlot(a)
    BY <1>1, <2>1, <2>2 DEF BestInv, CanonicalIsBest, TipSlot, LastSlot
  <2>4. Weight(snapshots', hash) \in Nat /\ LastSlot(hash) \in Nat
    <3>1. hash \in blocks'
      BY <1>2
    <3>2. \A i \in 2..Len(hash) : epochForSlot(hash[i].Slot) \in DOMAIN snapshots'
      BY <1>1, <3>1 DEF SnapshotInv, ByLeader
    <3>3. IsBranch(hash)
      BY <1>1
    <3>4. LastSlot(hash) \in Nat
      BY <3>3 DEF IsBranch, LastSlot
    <3> QED
      BY <1>1, <3>2, <3>3, <3>4, WeightIsNat
  <2>5. \A a \in blocks : LastSlot(a) < LastSlot(hash)
    BY <1>4 DEF AheadOfAll
  <2>6. /\ verdict = Verdict(chain, hash, snaps)
        /\ SnapsOk(snaps) /\ Extends(snaps, snapshots')
        /\ EpochsOf(chain) \subseteq DOMAIN snaps /\ EpochsOf(hash) \subseteq DOMAIN snaps
    BY <1>3, <1>4 DEF Chooses
  <2>7. verdict \in {"adopt", "worse"}
    BY <1>1, <1>6, <2>6, VerdictKinds
  <2> DEFINE base == snapshotStake(snapshots', GenesisHeader)
  <2>8. /\ Score(snapshots', chain) = base + Weight(snapshots', chain)
         /\ Score(snapshots', hash) = base + Weight(snapshots', hash)
         /\ base \in Nat
    <3>1. DOMAIN snaps \subseteq DOMAIN snapshots'
      BY <2>6 DEF Extends
    <3> QED
      BY <1>1, <2>6, <3>1, ScoreIsWeight
  <2> HIDE DEF base
  <2>9. CASE verdict = "adopt"
    <3>1. chain' = hash
      BY <1>2, <2>9
    <3>2. Score(snapshots', hash) >= Score(snapshots', chain)
      <4>1. HeavierStep
        BY <1>1, <1>4, <2>9, AdoptionIsHeavier
      <4> QED
        BY <1>1, <2>2, <2>4, <2>8, <3>1, <4>1 DEF HeavierStep
    <3>3. Weight(snapshots', hash) >= Weight(snapshots', chain)
      BY <1>1, <2>2, <2>4, <2>8, <3>2
    <3> QED
      BY <1>1, <1>2, <2>2, <2>3, <2>4, <2>5, <3>1, <3>3
  <2>10. CASE verdict = "worse"
    <3> DEFINE current == scoreTip(snaps, chain, tip)
               score == scoreTip(snaps, hash, hash)
    <3>1. chain' = chain /\ ~ betterScore(score, current)
      BY <1>1, <1>2, <2>6, <2>10, VerdictKinds
    <3>2. /\ current.CumulativeWeight = Score(snapshots', chain)
          /\ score.CumulativeWeight = Score(snapshots', hash)
          /\ current.Slot = LastSlot(chain) /\ score.Slot = LastSlot(hash)
      BY <1>1, <2>6, ScoreIsSum, ScoreStays
    <3> HIDE DEF current, score
    <3>3. Weight(snapshots', chain) > Weight(snapshots', hash)
      BY <1>1, <2>2, <2>4, <2>5, <2>8, <3>1, <3>2 DEF betterScore
    <3> QED
      BY <1>2, <2>3, <3>1, <3>3
  <2> QED
    BY <2>7, <2>9, <2>10
<1> QED
  BY <1>3, <1>6, <1>7 DEF BestInv

LEMMA BestStep ==
  ASSUME BestInv, [Next]_vars, "ResetReorgStats" \notin Calls
  PROVE  BestInv'
<1>1. SnapshotInv /\ StakesTyped(snapshots) /\ DisciplineInv'
  BY DisciplineNext DEF BestInv, DisciplineInv
<1>2. Extends(snapshots, snapshots')
  BY <1>1, SnapshotStep
<1>3. CASE LeftAlone
  <2>1. UNCHANGED <<blocks, chain, reorgStats>>
    BY <1>3 DEF LeftAlone
  <2>2. chain \in blocks
    BY <1>1 DEF SnapshotInv, ChainInv, CanonicalInv
  <2>3. \A a \in blocks : Weight(snapshots', a) = Weight(snapshots, a)
    BY <1>1, <1>2, TreeWeights
  <2>4. CanonicalIsBest'
    BY <2>1, <2>2, <2>3 DEF BestInv, CanonicalIsBest, TipSlot
  <2> QED
    BY <1>1, <2>1, <2>4 DEF BestInv
<1>4. CASE Inserted
  <2>1. PICK parent, header :
          LET hash == Append(parent, header)
          IN /\ parent \in blocks /\ AheadOfAll(hash)
             /\ \E snaps, verdict : Chooses(hash, snaps, verdict)
    BY <1>4 DEF Inserted
  <2>2. PICK snaps, verdict : Chooses(Append(parent, header), snaps, verdict)
    BY <2>1
  <2>3. AheadOfAll(Append(parent, header)) /\ parent \in blocks
    BY <2>1
  <2> QED
    BY <1>1, <1>2, <2>2, <2>3, InsertKeepsBest
<1> QED
  BY <1>1, <1>3, <1>4, StepChooses

\* BestInv holds at NewBlockchain.
LEMMA BestInit == Init => BestInv
<1> SUFFICES ASSUME Init PROVE BestInv
  OBVIOUS
<1>1. blocks = {GenesisBlock} /\ chain = GenesisBlock /\ Len(GenesisBlock) = 1
  BY DEF Init, GenesisBlock
<1>2. reorgStats \in Counters
  BY DEF Init, Counters
<1>3. CanonicalIsBest
  <2>1. GenesisBlock[Len(GenesisBlock)].Slot = 0
    BY DEF GenesisBlock, GenesisHeader
  <2>2. TipSlot = 0
    BY <1>1, <2>1 DEF TipSlot
  <2>3. TipSlot >= TipSlot
    BY <2>2
  <2>4. \A hash \in blocks : hash = chain
    BY <1>1
  <2>5. \A hash \in blocks : /\ Weight(snapshots, chain) = Weight(snapshots, hash)
                             /\ hash[Len(hash)].Slot = TipSlot
    BY <2>4 DEF TipSlot
  <2> QED
    BY <2>3, <2>5 DEF CanonicalIsBest
<1> QED
  BY <1>2, <1>3, DisciplineInit DEF BestInv

\* Comparing each new block with the tip of the moment finds the best block of
\* the whole tree, as long as the counters still tell that no guard has refused
\* a branch: for any tree, any stakes and any thresholds.
THEOREM CanonicalIsBestHolds ==
  ASSUME "ResetReorgStats" \notin Calls
  PROVE  Spec => []CanonicalIsBest
<1>1. BestInv /\ [Next]_vars => BestInv'
  BY BestStep
<1>2. BestInv => CanonicalIsBest
  BY DEF BestInv
<1> QED
  BY <1>1, <1>2, BestInit, PTL DEF Spec

-----------------------------------------------------------------------------
(* Replaying a branch.                                                       *)

\* A producer is paid at an address, or at none.
LEMMA RewardAddress ==
  ASSUME NEW vals, IsRegistry(vals), NEW name
  PROVE  validatorRewardAddress(vals, name) \in Nat
BY KeysAssumption DEF IsRegistry, Validator, validatorRewardAddress, NoAddr

\* Headers that hold transactions.
Replayable(headers) ==
  /\ headers \in Seq({headers[i] : i \in DOMAIN headers})
  /\ Len(headers) >= 1
  /\ \A i \in 1..Len(headers) : headers[i].Transactions \in Seq(Transaction)

ReplayNext(r, header, vals) ==
  IF r.ok
  THEN ApplyTransactions(r.st, header.Transactions,
         validatorRewardAddress(vals, header.Validator))
  ELSE r

IsReplay(f, headers, gen, vals) ==
  f = [i \in 1..Len(headers) |->
         IF i = 1 THEN [ok |-> TRUE, st |-> gen]
         ELSE ReplayNext(f[i - 1], headers[i], vals)]

\* f holds the values of the loop over the blocks.
IsReplayRun(f, headers, gen, vals) ==
  /\ f \in [1..Len(headers) -> Results]
  /\ f[1] = [ok |-> TRUE, st |-> gen]
  /\ \A i \in 2..Len(headers) : f[i] = ReplayNext(f[i - 1], headers[i], vals)

LEMMA ReplayNextTyped ==
  ASSUME NEW r \in Results, NEW header, header.Transactions \in Seq(Transaction),
         NEW vals, IsRegistry(vals)
  PROVE  ReplayNext(r, header, vals) \in Results
<1>1. r.ok \in BOOLEAN /\ r.st \in Ledgers
  BY DEF Results
<1> DEFINE producer == validatorRewardAddress(vals, header.Validator)
<1>2. producer \in Nat
  BY RewardAddress
<1> HIDE DEF producer
<1>3. ApplyTransactions(r.st, header.Transactions, producer) \in Results
  BY <1>1, <1>2, ApplicationTyped
<1> QED
  BY <1>3 DEF ReplayNext, producer

LEMMA ReplayRuns ==
  ASSUME NEW headers, Replayable(headers), NEW gen \in Ledgers,
         NEW vals, IsRegistry(vals)
  PROVE  \E f : /\ IsReplayRun(f, headers, gen, vals)
                /\ Replay(headers, gen, vals) = f[Len(headers)]
<1> DEFINE n == Len(headers)
           m == n - 1
           a == [ok |-> TRUE, st |-> gen]
           step == [x \in Results \X (1..m) |-> ReplayNext(x[1], headers[x[2] + 1], vals)]
           f == CHOOSE g : IsReplay(g, headers, gen, vals)
<1>1. n \in Nat /\ n >= 1 /\ m \in Nat
  BY DEF Replayable
<1>2. \A i \in 1..n : headers[i].Transactions \in Seq(Transaction)
  BY DEF Replayable
<1>3. a \in Results
  BY DEF Results
<1>4. step \in [Results \X (1..m) -> Results]
  <2>1. \A i \in 1..m : i + 1 \in 1..n
    BY <1>1
  <2> QED
    BY <1>2, <2>1, ReplayNextTyped
<1>5. \A r \in Results, i \in 1..m : step[<<r, i>>] = ReplayNext(r, headers[i + 1], vals)
  OBVIOUS
<1> HIDE DEF step, a, n, m
<1>6. PICK h \in [0..m -> Results] : IsRunOf(h, a, step, m)
  BY <1>1, <1>3, <1>4, RunOfExists
<1> DEFINE g == [i \in 1..n |-> h[i - 1]]
<1>7. /\ h[0] = a
      /\ \A i \in 1..m : h[i] = ReplayNext(h[i - 1], headers[i + 1], vals)
  <2>1. \A i \in 1..m : h[i - 1] \in Results
    BY <1>1
  <2> QED
    BY <1>5, <1>6, <2>1 DEF IsRunOf
<1>8. \A i \in 1..n : /\ g[i] \in Results
                      /\ g[i] = IF i = 1 THEN a ELSE ReplayNext(g[i - 1], headers[i], vals)
  <2> SUFFICES ASSUME NEW i \in 1..n
               PROVE  /\ g[i] \in Results
                      /\ g[i] = IF i = 1 THEN a ELSE ReplayNext(g[i - 1], headers[i], vals)
    OBVIOUS
  <2>1. g[i] = h[i - 1] /\ i - 1 \in 0..m
    BY <1>1 DEF m
  <2>2. CASE i = 1
    BY <1>7, <2>1, <2>2
  <2>3. CASE i # 1
    <3>1. /\ i - 1 \in 1..n /\ i - 1 \in 1..m /\ (i - 1) + 1 = i
          /\ g[i - 1] = h[(i - 1) - 1]
      BY <1>1, <2>3 DEF m
    <3>2. h[i - 1] = ReplayNext(h[(i - 1) - 1], headers[(i - 1) + 1], vals)
      BY <1>7, <3>1
    <3> HIDE DEF g
    <3> QED
      BY <2>1, <2>3, <3>1, <3>2
  <2> QED
    BY <2>2, <2>3
<1>9. IsReplay(g, headers, gen, vals)
  <2>1. g = [i \in 1..n |-> g[i]]
    OBVIOUS
  <2> HIDE DEF g
  <2> QED
    BY <1>8, <2>1 DEF IsReplay, a, n
<1>10. IsReplay(f, headers, gen, vals)
  <2> HIDE DEF g
  <2> QED
    BY <1>9
<1> HIDE DEF f, g
<1>11. /\ f = [i \in 1..n |-> IF i = 1 THEN a ELSE ReplayNext(f[i - 1], headers[i], vals)]
  BY <1>10 DEF IsReplay, a, n
<1>12. \A i \in 1..n : f[i] = IF i = 1 THEN a ELSE ReplayNext(f[i - 1], headers[i], vals)
  BY <1>11
<1>13. f = [i \in 1..n |-> f[i]]
  BY <1>11, <1>12
<1> DEFINE good == {i \in 0..m : f[i + 1] \in Results}
<1>14. 0 \in good
  <2>1. 1 \in 1..n /\ 0 + 1 = 1
    BY <1>1
  <2> QED
    BY <1>1, <1>3, <1>12, <2>1
<1>15. ASSUME NEW i \in 1..m, i - 1 \in good PROVE i \in good
  <2>1. /\ i \in 0..m /\ i + 1 \in 1..n /\ i + 1 # 1 /\ (i + 1) - 1 = i /\ (i - 1) + 1 = i
    BY <1>1 DEF m
  <2>2. f[i] \in Results
    BY <1>15, <2>1
  <2>3. f[i + 1] = ReplayNext(f[i], headers[i + 1], vals)
    BY <1>12, <2>1
  <2>4. ReplayNext(f[i], headers[i + 1], vals) \in Results
    BY <1>2, <2>1, <2>2, ReplayNextTyped DEF n
  <2> QED
    BY <2>1, <2>3, <2>4
<1> HIDE DEF good
<1>16. \A i \in 0..m : i \in good
  BY <1>1, <1>14, <1>15, UpTo
<1>17. \A i \in 1..n : f[i] \in Results
  <2> SUFFICES ASSUME NEW i \in 1..n PROVE f[i] \in Results
    OBVIOUS
  <2>1. i - 1 \in 0..m /\ (i - 1) + 1 = i
    BY <1>1 DEF m
  <2>2. i - 1 \in good
    BY <1>16, <2>1
  <2> QED
    BY <2>1, <2>2 DEF good
<1>18. IsReplayRun(f, headers, gen, vals)
  <2>1. f[1] = a
    BY <1>1, <1>12
  <2>2. ASSUME NEW i \in 2..n PROVE f[i] = ReplayNext(f[i - 1], headers[i], vals)
    <3>1. i \in 1..n /\ i # 1
      BY <1>1
    <3> QED
      BY <1>12, <3>1
  <2> QED
    BY <1>13, <1>17, <2>1, <2>2 DEF IsReplayRun, a, n
<1>19. Replay(headers, gen, vals) = f[n]
  BY DEF Replay, f, n, IsReplay, ReplayNext
<1> QED
  BY <1>18, <1>19 DEF n

LEMMA ReplayTyped ==
  ASSUME NEW headers, Replayable(headers), NEW gen \in Ledgers,
         NEW vals, IsRegistry(vals)
  PROVE  Replay(headers, gen, vals) \in Results
<1>1. PICK f : /\ IsReplayRun(f, headers, gen, vals)
               /\ Replay(headers, gen, vals) = f[Len(headers)]
  BY ReplayRuns
<1>2. Len(headers) \in 1..Len(headers)
  BY DEF Replayable
<1> QED
  BY <1>1, <1>2 DEF IsReplayRun

\* What is replayed alike on two branches of which one begins the other.
LEMMA ReplaysAgree ==
  ASSUME NEW n \in Nat, NEW a, NEW b, NEW gen, NEW old, NEW new, NEW f, NEW g,
         IsReplayRun(f, a, gen, old), IsReplayRun(g, b, gen, new),
         n >= 1, n <= Len(a), n <= Len(b), Len(a) \in Nat, Len(b) \in Nat,
         \A i \in 1..n : a[i] = b[i],
         \A i \in 2..n : validatorRewardAddress(old, a[i].Validator)
                           = validatorRewardAddress(new, a[i].Validator)
  PROVE  f[n] = g[n]
<1> DEFINE m == n - 1
           good == {i \in 0..m : f[i + 1] = g[i + 1]}
<1>1. m \in Nat
  OBVIOUS
<1>2. /\ f[1] = g[1]
      /\ \A i \in 2..n : /\ f[i] = ReplayNext(f[i - 1], a[i], old)
                         /\ g[i] = ReplayNext(g[i - 1], b[i], new)
                         /\ a[i] = b[i]
  <2>1. \A i \in 2..n : i \in 2..Len(a) /\ i \in 2..Len(b) /\ i \in 1..n
    OBVIOUS
  <2> QED
    BY <2>1 DEF IsReplayRun
<1>3. 0 \in good
  BY <1>1, <1>2
<1>4. ASSUME NEW i \in 1..m, i - 1 \in good PROVE i \in good
  <2>1. i \in 0..m /\ i + 1 \in 2..n /\ (i + 1) - 1 = i /\ (i - 1) + 1 = i
    OBVIOUS
  <2>2. f[i] = g[i]
    BY <1>4, <2>1
  <2>3. /\ f[i + 1] = ReplayNext(f[i], a[i + 1], old)
        /\ g[i + 1] = ReplayNext(g[i], a[i + 1], new)
    BY <1>2, <2>1
  <2>4. validatorRewardAddress(old, a[i + 1].Validator)
          = validatorRewardAddress(new, a[i + 1].Validator)
    BY <2>1
  <2>5. f[i + 1] = g[i + 1]
    BY <2>2, <2>3, <2>4 DEF ReplayNext
  <2> QED
    BY <2>1, <2>5
<1> HIDE DEF good
<1>5. \A i \in 0..m : i \in good
  BY <1>1, <1>3, <1>4, UpTo
<1>6. m \in 0..m /\ m + 1 = n
  OBVIOUS
<1> QED
  BY <1>5, <1>6 DEF good

\* A registry that pays the producers of a branch at the same addresses
\* replays it to the same ledger.
LEMMA ReplayAlike ==
  ASSUME NEW headers, Replayable(headers), NEW gen \in Ledgers,
         NEW old, IsRegistry(old), NEW new, IsRegistry(new),
         \A i \in 2..Len(headers) :
           validatorRewardAddress(old, headers[i].Validator)
             = validatorRewardAddress(new, headers[i].Validator)
  PROVE  Replay(headers, gen, old) = Replay(headers, gen, new)
<1>1. Len(headers) \in Nat /\ Len(headers) >= 1
  BY DEF Replayable
<1>2. PICK f : /\ IsReplayRun(f, headers, gen, old)
               /\ Replay(headers, gen, old) = f[Len(headers)]
  BY ReplayRuns
<1>3. PICK g : /\ IsReplayRun(g, headers, gen, new)
               /\ Replay(headers, gen, new) = g[Len(headers)]
  BY ReplayRuns
<1>4. f[Len(headers)] = g[Len(headers)]
  BY <1>1, <1>2, <1>3, ReplaysAgree
<1> QED
  BY <1>2, <1>3, <1>4

\* One more block is one more turn of the loop.
LEMMA ReplayAppend ==
  ASSUME NEW parent, Replayable(parent), NEW header,
         Replayable(Append(parent, header)), NEW gen \in Ledgers,
         NEW vals, IsRegistry(vals)
  PROVE  Replay(Append(parent, header), gen, vals)
           = ReplayNext(Replay(parent, gen, vals), header, vals)
<1> DEFINE n == Len(parent)
           hash == Append(parent, header)
<1>1. /\ n \in Nat /\ n >= 1 /\ Len(hash) = n + 1 /\ hash[n + 1] = header
      /\ \A i \in 1..n : parent[i] = hash[i]
  BY DEF Replayable
<1> HIDE DEF hash
<1>2. PICK f : /\ IsReplayRun(f, parent, gen, vals)
               /\ Replay(parent, gen, vals) = f[Len(parent)]
  BY ReplayRuns
<1>3. PICK g : /\ IsReplayRun(g, hash, gen, vals)
               /\ Replay(hash, gen, vals) = g[Len(hash)]
  BY ReplayRuns DEF hash
<1> HIDE DEF n
<1>4. f[n] = g[n]
  <2>1. n <= Len(parent) /\ n <= Len(hash) /\ Len(parent) \in Nat /\ Len(hash) \in Nat
    BY <1>1 DEF n
  <2> QED
    BY <1>1, <1>2, <1>3, <2>1, ReplaysAgree
<1>5. g[n + 1] = ReplayNext(g[n], hash[n + 1], vals)
  <2>1. n + 1 \in 2..Len(hash) /\ (n + 1) - 1 = n
    BY <1>1
  <2>2. g[n + 1] = ReplayNext(g[(n + 1) - 1], hash[n + 1], vals)
    BY <1>3, <2>1 DEF IsReplayRun
  <2> QED
    BY <2>1, <2>2
<1>6. Replay(parent, gen, vals) = f[n] /\ Replay(hash, gen, vals) = g[n + 1]
  BY <1>1, <1>2, <1>3 DEF n
<1>7. ReplayNext(g[n], hash[n + 1], vals) = ReplayNext(f[n], header, vals)
  BY <1>1, <1>4
<1> QED
  BY <1>5, <1>6, <1>7 DEF hash

LEMMA ReplayGenesis ==
  ASSUME NEW headers, Replayable(headers), Len(headers) = 1, NEW gen \in Ledgers,
         NEW vals, IsRegistry(vals)
  PROVE  Replay(headers, gen, vals) = [ok |-> TRUE, st |-> gen]
<1>1. PICK f : /\ IsReplayRun(f, headers, gen, vals)
               /\ Replay(headers, gen, vals) = f[Len(headers)]
  BY ReplayRuns
<1> QED
  BY <1>1 DEF IsReplayRun
-----------------------------------------------------------------------------
(* What a call does to blocks, ledger and pool.                              *)

\* A block with txs on parent, whose ledger is st, is accepted.
Makes(parent, st, txs, draw) ==
  /\ parent \in blocks /\ txs \in Seq(Transaction) /\ draw \in Draws
  /\ \/ parent = tip /\ st = state
     \/ stateAtTip(parent).ok /\ st = stateAtTip(parent).st
  /\ TickSlot(draw)
  /\ CanMakeBlock(st, txs, draw)
  /\ Accept(Append(parent, NewHeader(st, txs, draw)))

\* No block and no balance.
Resting ==
  /\ UNCHANGED <<blocks, tip, chain, state, genesis, slotProducers>>
  /\ draws' = draws \/ \E draw \in Draws : TickSlot(draw)
  /\ reorgStats' = reorgStats \/ ResetReorgStats

Sets ==
  /\ \E pair \in Balances : SetBalance(pair[1], pair[2])
  /\ UNCHANGED <<blocks, tip, chain, slotProducers, draws, reorgStats>>

\* What a batch is selected from, and for whom.
LEMMA PickNowIsGood ==
  ASSUME PoolInv, state \in Ledgers, IsRegistry(validators), NEW draw
  PROVE  /\ ProducerNow(draw) \in Nat
         /\ GoodPick(PickNow(draw), list, state, ProducerNow(draw), Len(list))
         /\ PickNow(draw).out \in Seq(Transaction)
         /\ ApplyTransactions(state, PickNow(draw).out, ProducerNow(draw))
              = [ok |-> TRUE, st |-> PickNow(draw).st]
<1> DEFINE producer == ProducerNow(draw)
           pick == PickNow(draw)
<1>1. producer \in Nat
  BY RewardAddress DEF ProducerNow
<1>2. list \in Seq(Transaction) /\ MaxBlockTxs \in Nat
  BY ConfigAssumption DEF PoolInv, MempoolTypeOK
<1>3. pick = PopForBlock(list, state, MaxBlockTxs, producer)
  BY DEF PickNow
<1> HIDE DEF producer, pick
<1>4. GoodPick(pick, list, state, producer, Len(list))
  BY <1>1, <1>2, <1>3, PickIsGood
<1>5. pick.out \in Seq(Transaction)
  BY <1>4 DEF GoodPick, Picks
<1>6. ApplyTransactions(state, pick.out, producer) = [ok |-> TRUE, st |-> pick.st]
  BY <1>4 DEF GoodPick
<1> QED
  BY <1>1, <1>4, <1>5, <1>6 DEF producer, pick

LEMMA StepKinds ==
  ASSUME PoolInv, state \in Ledgers, IsRegistry(validators), tip \in blocks, [Next]_vars
  PROVE  \/ \E parent, st, txs, draw : Makes(parent, st, txs, draw)
         \/ Resting
         \/ Sets
<1> DEFINE Goal == \/ \E parent, st, txs, draw : Makes(parent, st, txs, draw)
                   \/ Resting
                   \/ Sets
<1>0. \A batch \in Batches \cup {<<>>} : batch \in Seq(Transaction)
  <2>1. <<>> \in Seq(Transaction)
    OBVIOUS
  <2> QED
    BY <2>1, WorldAssumption
<1>1. ASSUME NEW draw \in Draws, TickSlot(draw), NEW leader, Refuse(leader)
      PROVE  Goal
  BY <1>1 DEF Refuse, chainVars, Resting
<1>2. ASSUME NEW batch \in Batches \cup {<<>>}, NEW draw \in Draws, AddBlock(batch, draw)
      PROVE  Goal
  <2> DEFINE txs == TxsNow(batch, draw)
  <2>1. TickSlot(draw)
    BY <1>2 DEF AddBlock
  <2>2. txs \in Seq(Transaction)
    BY PickNowIsGood, WorldAssumption DEF TxsNow
  <2>3. IF CanMakeBlock(state, txs, draw)
        THEN Accept(Append(tip, NewHeader(state, txs, draw)))
        ELSE Refuse(LeaderNow(draw))
    BY <1>2 DEF AddBlock
  <2> HIDE DEF txs
  <2>4. CASE CanMakeBlock(state, txs, draw)
    <3>1. Makes(tip, state, txs, draw)
      BY <2>1, <2>2, <2>3, <2>4 DEF Makes
    <3> QED
      BY <3>1
  <2>5. CASE ~ CanMakeBlock(state, txs, draw)
    BY <1>1, <2>1, <2>3, <2>5
  <2> QED
    BY <2>4, <2>5
<1>3. ASSUME NEW parent \in blocks, NEW batch \in Batches \cup {<<>>}, NEW draw \in Draws,
             AddBlockExternal(parent, batch, draw)
      PROVE  Goal
  <2> DEFINE base == stateAtTip(parent)
  <2> HIDE DEF base
  <2>1. TickSlot(draw) /\ batch \in Seq(Transaction)
    <3>1. TickSlot(draw)
      BY <1>3 DEF AddBlockExternal
    <3>2. batch \in Seq(Transaction)
      BY <1>0
    <3> QED
      BY <3>1, <3>2
  <2>2. \/ /\ VerifyTransactions(batch) => base.ok
           /\ IF CanMakeBlock(base.st, batch, draw)
              THEN Accept(Append(parent, NewHeader(base.st, batch, draw)))
              ELSE Refuse(LeaderNow(draw))
        \/ UNCHANGED <<chainVars, genesis, slotProducers>>
    BY <1>3 DEF AddBlockExternal, base
  <2>3. CASE UNCHANGED <<chainVars, genesis, slotProducers>>
    BY <2>1, <2>3 DEF chainVars, Resting
  <2>4. CASE /\ CanMakeBlock(base.st, batch, draw)
             /\ Accept(Append(parent, NewHeader(base.st, batch, draw)))
             /\ VerifyTransactions(batch) => base.ok
    <3>1. base.ok
      BY <2>4 DEF CanMakeBlock
    <3>2. Makes(parent, base.st, batch, draw)
      BY <2>1, <2>4, <3>1 DEF Makes, base
    <3> QED
      BY <3>2
  <2>5. CASE Refuse(LeaderNow(draw))
    BY <1>1, <2>1, <2>5
  <2> QED
    BY <2>2, <2>3, <2>4, <2>5
<1>4. CASE OtherCall
  <2>1. ASSUME NEW pair \in Balances, SetBalance(pair[1], pair[2]) PROVE Goal
    BY <2>1 DEF SetBalance, Sets
  <2>2. ASSUME NEW tx, AddTx(tx) PROVE Goal
    BY <2>2 DEF AddTx, chainVars, Resting
  <2>3. ASSUME NEW epochs, Freeze(epochs) PROVE Goal
    BY <2>3 DEF Freeze, chainVars, Resting
  <2>4. CASE \/ \E slot \in Slots : GetEpochSnapshot(slot)
             \/ \E hash \in blocks : ScoreTip(hash)
             \/ WeightDeltaRequired
             \/ GetForkCandidates
    BY <2>3, <2>4 DEF GetEpochSnapshot, ScoreTip, WeightDeltaRequired,
                      GetForkCandidates
  <2>5. CASE VerifyChain
    BY <2>5, VerifyChainEffect DEF VerifyChain, chainVars, Resting
  <2>6. CASE ResetReorgStats
    BY <2>6 DEF ResetReorgStats, Resting
  <2>7. CASE ChangeValidators
    BY <2>7 DEF ChangeValidators, chainVars, Resting
  <2> QED
    BY <1>4, <2>1, <2>2, <2>4, <2>5, <2>6, <2>7 DEF OtherCall
<1>5. CASE UNCHANGED vars
  BY <1>5 DEF vars, chainVars, Resting
<1> QED
  BY <1>2, <1>3, <1>4, <1>5 DEF Next

\* The pool inside the engine.
LEMMA PoolStep ==
  ASSUME PoolInv, state \in Ledgers, IsRegistry(validators), [Next]_vars
  PROVE  PoolInv'
<1>1. ASSUME UNCHANGED mempoolVars PROVE PoolInv'
  BY <1>1 DEF mempoolVars, PoolInv, MempoolTypeOK, NoneTwice, InOrder
<1>2. ASSUME NEW batch, NEW draw, AddBlock(batch, draw)
      PROVE  PoolInv'
  <2>1. GoodPick(PickNow(draw), list, state, ProducerNow(draw), Len(list))
    BY PickNowIsGood
  <2>2. Popped(PickNow(draw)) \/ UNCHANGED mempoolVars
    BY <1>2 DEF AddBlock
  <2> QED
    BY <1>1, <2>1, <2>2, PoppedKeepsPool
<1>3. ASSUME NEW parent, NEW batch, NEW draw, AddBlockExternal(parent, batch, draw)
      PROVE  PoolInv'
  BY <1>1, <1>3 DEF AddBlockExternal
<1>4. ASSUME NEW tx \in Txs, AddTx(tx) PROVE PoolInv'
  BY <1>4, AddKeepsPool, WorldAssumption DEF AddTx
<1>5. CASE OtherCall
  <2>1. ASSUME NEW epochs, Freeze(epochs) PROVE PoolInv'
    BY <1>1, <2>1 DEF Freeze
  <2>2. CASE \/ \E slot \in Slots : GetEpochSnapshot(slot)
             \/ \E hash \in blocks : ScoreTip(hash)
             \/ WeightDeltaRequired
             \/ GetForkCandidates
    BY <2>1, <2>2 DEF GetEpochSnapshot, ScoreTip, WeightDeltaRequired,
                      GetForkCandidates
  <2>3. ASSUME NEW addr, NEW amount, SetBalance(addr, amount) PROVE PoolInv'
    BY <1>1, <2>3 DEF SetBalance
  <2>4. CASE VerifyChain \/ ResetReorgStats \/ ChangeValidators
    BY <1>1, <2>4 DEF VerifyChain, ResetReorgStats, ChangeValidators
  <2> QED
    BY <1>4, <1>5, <2>2, <2>3, <2>4 DEF OtherCall
<1>6. CASE UNCHANGED vars
  BY <1>1, <1>6 DEF vars
<1> QED
  BY <1>2, <1>3, <1>5, <1>6 DEF Next

\* An accepted block in terms of the tree and the ledger.
Accepted(parent, header) ==
  LET hash == Append(parent, header)
      replayed == Replay(hash, genesis, validators)
  IN /\ IsBranch(hash) /\ Len(hash) = Len(parent) + 1 /\ hash[Len(hash)] = header
     /\ \A i \in 1..Len(parent) : hash[i] = parent[i]
     /\ blocks' = blocks \cup {hash}
     /\ genesis' = genesis
     /\ slotProducers' = Put(slotProducers, <<header.Slot, header.Validator>>, hash)
     /\ \E verdict, depth : reorgStats' = CountVerdict(reorgStats, verdict, depth)
     /\ \/ /\ tip' = hash /\ chain' = hash
           /\ state' = IF replayed.ok THEN replayed.st ELSE state
        \/ UNCHANGED <<tip, chain, state>>

LEMMA AcceptIs ==
  ASSUME SnapshotInv, NEW parent \in blocks, NEW st, NEW txs, NEW draw,
         Accept(Append(parent, NewHeader(st, txs, draw)))
  PROVE  Accepted(parent, NewHeader(st, txs, draw))
<1> DEFINE header == NewHeader(st, txs, draw)
           hash == Append(parent, header)
           key == <<header.Slot, header.Validator>>
<1>1. /\ tick \in Nat /\ Slot(tick) \in Nat /\ Slot(NextTick) = Slot(tick) + 1
      /\ header.Slot = Slot(NextTick)
  BY NextSlotIsNext DEF SnapshotInv, ChainInv, TreeInv, NewHeader
<1>2. IsBranch(parent) /\ LastSlot(parent) <= Slot(tick)
  BY DEF SnapshotInv, ChainInv, TreeInv
<1>3. LastSlot(parent) \in Nat
  BY <1>2 DEF IsBranch, LastSlot
<1> HIDE DEF header
<1>4. /\ IsBranch(hash) /\ Len(hash) = Len(parent) + 1 /\ hash[Len(hash)] = header
      /\ \A i \in 1..Len(parent) : hash[i] = parent[i]
  BY <1>1, <1>2, <1>3, AppendBranch
<1>5. ~ Equivocates(hash)
  BY <1>1, <1>4 DEF Equivocates, SnapshotInv, ChainInv, ProducersInv
<1> HIDE DEF hash
<1>6. PICK verdict :
        /\ slotProducers' = Put(slotProducers, key, hash)
        /\ blocks' = blocks \cup {hash}
        /\ genesis' = genesis
        /\ updateCanonical(hash, verdict, validators)
  BY <1>4, <1>5 DEF Accept, hash, header
<1>7. \E depth : reorgStats' = CountVerdict(reorgStats, verdict, depth)
  BY <1>6 DEF updateCanonical
<1> DEFINE replayed == Replay(hash, genesis, validators)
<1>8. \/ /\ tip' = hash /\ chain' = hash
         /\ state' = IF replayed.ok THEN replayed.st ELSE state
      \/ UNCHANGED <<tip, chain, state>>
  BY <1>6 DEF updateCanonical
<1> HIDE DEF replayed
<1> QED
  BY <1>4, <1>6, <1>7, <1>8 DEF Accepted, hash, header, replayed
-----------------------------------------------------------------------------
(* Types.                                                                    *)

IsTyped(h) ==
  /\ h.Slot \in Nat /\ h.Tick \in Nat
  /\ h.Validator \in Names \cup {NoLeader}
  /\ h.Signer \in Keys \cup {NoKey}
  /\ h.Transactions \in Seq(Transaction)
  /\ h.StateRoot \in Ledgers

AreTyped(hash) == \A i \in 1..Len(hash) : IsTyped(hash[i])

TypedInv ==
  /\ DisciplineInv
  /\ PoolInv
  /\ state \in Ledgers /\ genesis \in Ledgers
  /\ \A hash \in blocks : AreTyped(hash)
  /\ draws \in [DOMAIN draws -> Draws]
  /\ DOMAIN slotProducers \subseteq Nat \X Names
  /\ slotProducers \in [DOMAIN slotProducers -> blocks]
  /\ reorgStats \in Counters

\* What the other lemmas ask for.
LEMMA TypedFacts ==
  ASSUME TypedInv
  PROVE  /\ SnapshotInv /\ PoolInv /\ IsRegistry(validators)
         /\ tip \in blocks /\ chain = tip /\ tick \in Nat
         /\ SnapsOk(snapshots) /\ DOMAIN validators \subseteq Names
         /\ state \in Ledgers /\ genesis \in Ledgers
         /\ \A hash \in blocks : IsBranch(hash) /\ AreTyped(hash) /\ Replayable(hash)
BY DEF TypedInv, DisciplineInv, SnapshotInv, ChainInv, TreeInv, CanonicalInv,
       RegistryInv, IsRegistry, Replayable, AreTyped, IsTyped, IsBranch

\* The ledger AddBlockExternal replays for a parent.
LEMMA ParentLedger ==
  ASSUME TypedInv, NEW parent \in blocks
  PROVE  stateAtTip(parent) = Replay(parent, genesis, validators)
<1>1. \A i \in 1..Len(parent) : SubSeq(parent, 1, i) \in blocks
  BY TypedFacts DEF SnapshotInv, ChainInv, TreeInv, Rooted
<1>2. Len(parent) \in Nat
  BY TypedFacts DEF IsBranch
<1>3. \A i \in 2..Len(parent) : i - 1 \in 1..Len(parent)
  BY <1>2
<1>4. Walk(blocks, parent) = parent
  BY <1>1, <1>3 DEF Walk
<1> QED
  BY <1>4 DEF stateAtTip

LEMMA ParentLedgerTyped ==
  ASSUME TypedInv, NEW parent \in blocks
  PROVE  /\ Replay(parent, genesis, validators) \in Results
         /\ stateAtTip(parent) = Replay(parent, genesis, validators)
BY ParentLedger, ReplayTyped, TypedFacts

LEMMA MakesOn ==
  ASSUME TypedInv, NEW parent, NEW st, NEW txs, NEW draw, Makes(parent, st, txs, draw)
  PROVE  st \in Ledgers
BY ParentLedgerTyped, TypedFacts DEF Makes, Results

\* What verifyBlockOnAccept has seen of the header of an accepted block.
Verified(header, st) ==
  /\ IsTyped(header)
  /\ header.Slot = Slot(tick) + 1 /\ header.Slot = Slot(header.Tick)
  /\ SignatureVerifies(validators, header)
  /\ VerifyTransactions(header.Transactions)
  /\ ApplyTransactions(st, header.Transactions,
       validatorRewardAddress(validators, header.Validator))
       = [ok |-> TRUE, st |-> header.StateRoot]

LEMMA NewHeaderVerified ==
  ASSUME tick \in Nat, IsRegistry(validators), NEW st \in Ledgers,
         NEW txs \in Seq(Transaction), NEW draw, CanMakeBlock(st, txs, draw)
  PROVE  Verified(NewHeader(st, txs, draw), st)
<1> DEFINE header == NewHeader(st, txs, draw)
           producer == validatorRewardAddress(validators, header.Validator)
           applied == ApplyTransactions(st, txs, producer)
<1>1. NextTick \in Nat /\ Slot(NextTick) = Slot(tick) + 1 /\ Slot(tick) \in Nat
  BY NextSlotIsNext
<1>2. header.Slot = Slot(NextTick) /\ header.Tick = NextTick
  BY DEF NewHeader
<1>3. header.Transactions = txs /\ header.Validator = LeaderNow(draw)
  BY DEF NewHeader
<1>4. header.StateRoot = applied.st
  BY <1>3 DEF NewHeader, ProducerNow
<1>5. SignatureVerifies(validators, header) /\ VerifyTransactions(txs) /\ applied.ok
  BY <1>3 DEF CanMakeBlock, verifyBlockOnAccept
<1>6. header.Validator \in Names /\ header.Signer \in Keys \cup {NoKey}
  BY <1>5 DEF SignatureVerifies, IsRegistry, Validator
<1> HIDE DEF header
<1>7. producer \in Nat
  BY RewardAddress
<1>8. applied \in Results
  <2> HIDE DEF producer
  <2> QED
    BY <1>7, ApplicationTyped
<1> HIDE DEF applied
<1>9. applied = [ok |-> TRUE, st |-> header.StateRoot] /\ header.StateRoot \in Ledgers
  BY <1>4, <1>5, <1>8 DEF Results
<1> USE DEF applied
<1>10. IsTyped(header)
  BY <1>1, <1>2, <1>3, <1>6, <1>9 DEF IsTyped
<1>11. header.Slot = Slot(tick) + 1 /\ header.Slot = Slot(header.Tick)
  BY <1>1, <1>2
<1>12. VerifyTransactions(header.Transactions)
  BY <1>3, <1>5
<1>13. ApplyTransactions(st, header.Transactions, producer)
         = [ok |-> TRUE, st |-> header.StateRoot]
  BY <1>3, <1>9
<1>14. Verified(header, st)
  BY <1>5, <1>10, <1>11, <1>12, <1>13 DEF Verified
<1> QED
  BY <1>14 DEF header

\* All there is to know of an accepted block.
LEMMA MakesIs ==
  ASSUME TypedInv, NEW parent, NEW st, NEW txs, NEW draw, Makes(parent, st, txs, draw)
  PROVE  \E header : /\ parent \in blocks /\ st \in Ledgers
                     /\ \/ st = state /\ parent = tip
                        \/ [ok |-> TRUE, st |-> st] = Replay(parent, genesis, validators)
                     /\ Verified(header, st)
                     /\ header.Transactions = txs
                     /\ Accepted(parent, header)
<1> DEFINE header == NewHeader(st, txs, draw)
<1>1. parent \in blocks /\ st \in Ledgers /\ txs \in Seq(Transaction)
  BY MakesOn DEF Makes
<1>2. \/ st = state /\ parent = tip
      \/ stateAtTip(parent).ok /\ stateAtTip(parent).st = st
  BY DEF Makes
<1>3. stateAtTip(parent).ok /\ stateAtTip(parent).st = st =>
        [ok |-> TRUE, st |-> st] = Replay(parent, genesis, validators)
  BY <1>1, ParentLedgerTyped DEF Results
<1>4. CanMakeBlock(st, txs, draw) /\ Accept(Append(parent, header))
  BY DEF Makes
<1>5. header.Transactions = txs
  BY DEF NewHeader
<1> HIDE DEF header
<1>6. Verified(header, st)
  BY <1>1, <1>4, NewHeaderVerified, TypedFacts DEF header
<1>7. Accepted(parent, header)
  BY <1>1, <1>4, AcceptIs, TypedFacts DEF header
<1> QED
  BY <1>1, <1>2, <1>3, <1>5, <1>6, <1>7
\* The branch of an accepted block.
LEMMA AcceptedBranch ==
  ASSUME TypedInv, NEW parent \in blocks, NEW header, IsTyped(header),
         Accepted(parent, header)
  PROVE  LET hash == Append(parent, header)
         IN /\ AreTyped(hash) /\ Replayable(hash)
            /\ blocks' = blocks \cup {hash}
<1> DEFINE hash == Append(parent, header)
<1>1. /\ IsBranch(hash) /\ Len(hash) = Len(parent) + 1 /\ hash[Len(hash)] = header
      /\ \A i \in 1..Len(parent) : hash[i] = parent[i]
      /\ blocks' = blocks \cup {hash}
  BY DEF Accepted
<1>2. IsBranch(parent) /\ AreTyped(parent)
  BY TypedFacts
<1>3. Len(parent) \in Nat
  BY <1>2 DEF IsBranch
<1> HIDE DEF hash
<1>4. AreTyped(hash)
  BY <1>1, <1>2, <1>3 DEF AreTyped
<1>5. Replayable(hash)
  BY <1>1, <1>4 DEF Replayable, AreTyped, IsTyped, IsBranch
<1> QED
  BY <1>1, <1>4, <1>5 DEF hash

\* The draw of a new slot is one of Draws.
LEMMA DrawsTyped ==
  ASSUME draws \in [DOMAIN draws -> Draws], NEW draw \in Draws, TickSlot(draw)
  PROVE  draws' \in [DOMAIN draws' -> Draws]
<1>1. draws' = Put(draws, Slot(NextTick), draw)
  BY DEF TickSlot
<1>2. ASSUME NEW slot PROVE Put(draws, slot, draw) \in [DOMAIN Put(draws, slot, draw) -> Draws]
  BY DEF Put
<1> QED
  BY <1>1, <1>2

LEMMA AcceptedTyped ==
  ASSUME TypedInv, DisciplineInv', PoolInv', NEW parent \in blocks, NEW st, NEW header,
         Verified(header, st), Accepted(parent, header),
         draws' \in [DOMAIN draws' -> Draws]
  PROVE  TypedInv'
<1> DEFINE hash == Append(parent, header)
           key == <<header.Slot, header.Validator>>
           replayed == Replay(hash, genesis, validators)
<1>1. IsTyped(header) /\ header.Validator \in Names /\ header.Slot \in Nat
  BY TypedFacts DEF Verified, SignatureVerifies, IsTyped
<1>2. AreTyped(hash) /\ Replayable(hash) /\ blocks' = blocks \cup {hash}
  BY <1>1, AcceptedBranch
<1>3. /\ genesis' = genesis
      /\ slotProducers' = Put(slotProducers, key, hash)
      /\ \E verdict, depth : reorgStats' = CountVerdict(reorgStats, verdict, depth)
      /\ \/ state' = IF replayed.ok THEN replayed.st ELSE state
         \/ UNCHANGED state
  BY DEF Accepted
<1>4. genesis \in Ledgers /\ state \in Ledgers /\ IsRegistry(validators)
  BY TypedFacts
<1> HIDE DEF hash
<1>5. replayed \in Results
  BY <1>2, <1>4, ReplayTyped
<1> HIDE DEF replayed
<1>6. state' \in Ledgers /\ genesis' \in Ledgers
  BY <1>3, <1>4, <1>5 DEF Results
<1>7. key \in Nat \X Names
  BY <1>1
<1> HIDE DEF key
<1>8. DOMAIN slotProducers' \subseteq Nat \X Names
  BY <1>3, <1>7 DEF TypedInv, Put
<1>9. slotProducers' \in [DOMAIN slotProducers' -> blocks']
  BY <1>2, <1>3 DEF TypedInv, Put
<1>10. reorgStats' \in Counters
  BY <1>3, CountFacts DEF TypedInv
<1>11. \A h \in blocks' : AreTyped(h)
  BY <1>2 DEF TypedInv
<1> QED
  BY <1>2, <1>6, <1>8, <1>9, <1>10, <1>11 DEF TypedInv

\* An overwritten balance leaves a ledger.
LEMMA SetBalanceTyped ==
  ASSUME state \in Ledgers, genesis \in Ledgers, NEW pair \in Balances, SetBalance(pair[1], pair[2])
  PROVE  LET account == [Balance |-> pair[2], Nonce |-> AccountOf(state, pair[1]).Nonce]
         IN /\ pair[1] \in Nat /\ account \in Account
            /\ state' = Put(state, pair[1], account)
            /\ genesis' = IF Len(chain) <= 1 THEN Put(genesis, pair[1], account) ELSE genesis
            /\ state' \in Ledgers /\ genesis' \in Ledgers
<1> DEFINE old == AccountOf(state, pair[1])
           account == [Balance |-> pair[2], Nonce |-> old.Nonce]
<1>1. pair[1] \in Nat /\ pair[2] \in Int
  BY WorldAssumption
<1>2. old \in Account /\ old = [Balance |-> old.Balance, Nonce |-> old.Nonce]
  BY AccountTyped
<1>3. /\ pair[2] >= 0
      /\ state' = Put(state, pair[1], [old EXCEPT !.Balance = pair[2]])
      /\ genesis' = IF Len(chain) <= 1
                    THEN Put(genesis, pair[1], [old EXCEPT !.Balance = pair[2]])
                    ELSE genesis
  BY DEF SetBalance
<1> HIDE DEF old
<1>4. [old EXCEPT !.Balance = pair[2]] = account
  BY <1>2 DEF Account
<1>5. account \in Account
  BY <1>1, <1>2, <1>3 DEF Account
<1>6. /\ state' = Put(state, pair[1], account)
      /\ genesis' = IF Len(chain) <= 1 THEN Put(genesis, pair[1], account) ELSE genesis
  BY <1>3, <1>4
<1> HIDE DEF account
<1>7. Put(state, pair[1], account) \in Ledgers /\ Put(genesis, pair[1], account) \in Ledgers
  BY <1>1, <1>5, PutAccount DEF Changed
<1>8. state' \in Ledgers /\ genesis' \in Ledgers
  BY <1>6, <1>7
<1> QED
  BY <1>1, <1>5, <1>6, <1>8 DEF account, old

LEMMA TypedStep == TypedInv /\ [Next]_vars => TypedInv'
<1> SUFFICES ASSUME TypedInv, [Next]_vars PROVE TypedInv'
  OBVIOUS
<1>1. DisciplineInv' /\ PoolInv'
  BY DisciplineNext, PoolStep, TypedFacts DEF TypedInv
<1>2. ASSUME NEW parent, NEW st, NEW txs, NEW draw, Makes(parent, st, txs, draw)
      PROVE  TypedInv'
  <2>1. draws' \in [DOMAIN draws' -> Draws]
    BY <1>2, DrawsTyped DEF Makes, TypedInv
  <2> QED
    BY <1>1, <1>2, <2>1, MakesIs, AcceptedTyped
<1>3. CASE Resting
  <2>1. draws' \in [DOMAIN draws' -> Draws]
    BY <1>3, DrawsTyped DEF Resting, TypedInv
  <2>2. reorgStats' \in Counters
    BY <1>3 DEF Resting, ResetReorgStats, TypedInv, Counters
  <2>3. UNCHANGED <<blocks, tip, chain, state, genesis, slotProducers>>
    BY <1>3 DEF Resting
  <2> QED
    BY <1>1, <2>1, <2>2, <2>3 DEF TypedInv
<1>4. CASE Sets
  <2>1. state' \in Ledgers /\ genesis' \in Ledgers
    BY <1>4, SetBalanceTyped, TypedFacts DEF Sets
  <2>2. UNCHANGED <<blocks, slotProducers, draws, reorgStats>>
    BY <1>4 DEF Sets
  <2> QED
    BY <1>1, <2>1, <2>2 DEF TypedInv
<1> QED
  BY <1>2, <1>3, <1>4, StepKinds, TypedFacts

LEMMA TypedInit == Init => TypedInv
<1> SUFFICES ASSUME Init PROVE TypedInv
  OBVIOUS
<1>1. DisciplineInv /\ PoolInv
  BY DisciplineInit, PoolInvInit DEF Init
<1>2. BestInv
  BY BestInit
<1>3. EmptyMap \in Ledgers
  <2>1. DOMAIN EmptyMap = {} /\ EmptyMap \in [{} -> Account]
    BY DEF EmptyMap
  <2> QED
    BY <2>1, LedgerIs, FS_EmptySet
<1>4. IsTyped(GenesisHeader)
  BY <1>3 DEF IsTyped, GenesisHeader
<1>5. AreTyped(GenesisBlock)
  BY <1>4 DEF AreTyped, GenesisBlock
<1>6. /\ draws \in [DOMAIN draws -> Draws]
      /\ DOMAIN slotProducers \subseteq Nat \X Names
      /\ slotProducers \in [DOMAIN slotProducers -> blocks]
  BY DEF Init, EmptyMap
<1> QED
  BY <1>1, <1>2, <1>3, <1>5, <1>6 DEF Init, TypedInv, BestInv

\* TypedInv, the strengthening the properties below rest on.
LEMMA TypedInvariant == Spec => []TypedInv
<1>1. Init => TypedInv
  BY TypedInit
<1>2. TypedInv /\ [Next]_vars => TypedInv'
  BY TypedStep
<1> QED
  BY <1>1, <1>2, PTL DEF Spec

\* The engine's state has its type: no replay and no reorg leaves a negative
\* balance, every block committed to a ledger, a fee or a nonce of its own.
THEOREM EngineTypes == Spec => []TypeOK
<1>1. TypedInv => TypeOK
  <2> SUFFICES ASSUME TypedInv PROVE TypeOK
    OBVIOUS
  <2>1. RegistryTypeOK /\ MempoolTypeOK
    BY RegistryInvImplies DEF TypedInv, DisciplineInv, PoolInv
  <2>2. tick \in Nat /\ tip \in blocks /\ chain \in blocks
    BY TypedFacts
  <2>3. DOMAIN draws \subseteq Nat /\ draws \in [DOMAIN draws -> Draws]
    BY DEF TypedInv, DisciplineInv, SnapshotInv
  <2>4. ASSUME NEW hash \in blocks
        PROVE  Len(hash) \in Nat /\ \A i \in DOMAIN hash : IsHeader(hash[i])
    <3>1. IsBranch(hash) /\ AreTyped(hash)
      BY TypedFacts
    <3>2. Len(hash) \in Nat /\ DOMAIN hash = 1..Len(hash)
      BY <3>1 DEF IsBranch
    <3>3. ASSUME NEW h, IsTyped(h) PROVE IsHeader(h)
      BY <3>3, LedgerIs DEF IsTyped, IsHeader, IsLedger
    <3> QED
      BY <3>1, <3>2, <3>3 DEF AreTyped
  <2>5. IsLedger(state) /\ IsLedger(genesis)
    BY LedgerIs, TypedFacts DEF IsLedger
  <2>6. /\ DOMAIN snapshots \subseteq Nat
        /\ \A e \in DOMAIN snapshots :
             /\ DOMAIN snapshots[e] \subseteq Names
             /\ snapshots[e] \in [DOMAIN snapshots[e] -> Nat]
    <3>1. SnapsOk(snapshots) /\ StakesTyped(snapshots)
      BY TypedFacts DEF TypedInv, DisciplineInv
    <3> QED
      BY <3>1 DEF SnapsOk, IsSnapshot, StakesTyped
  <2>7. finalized \in Nat
    BY DEF TypedInv, DisciplineInv, SnapshotInv, ChainInv, CanonicalInv
  <2>8. reorgStats \in [{"Info", "Warn", "Error", "Critical"} -> Nat]
    BY DEF TypedInv, Counters
  <2> QED
    BY <2>1, <2>2, <2>3, <2>4, <2>5, <2>6, <2>7, <2>8 DEF TypeOK, TypedInv
<1> QED
  BY <1>1, TypedInvariant, PTL
-----------------------------------------------------------------------------
(* A selected batch never makes its block fail.                              *)

\* Of the requirements on the block of a selected batch only the signature is
\* left open.
LEMMA PickMakesBlock ==
  ASSUME TypedInv, NEW draw, CanSign(LeaderNow(draw))
  PROVE  CanMakeBlock(state, PickNow(draw).out, draw)
<1> DEFINE txs == PickNow(draw).out
           header == NewHeader(state, txs, draw)
           applied == ApplyTransactions(state, txs, ProducerNow(draw))
<1>1. /\ GoodPick(PickNow(draw), list, state, ProducerNow(draw), Len(list))
      /\ txs \in Seq(Transaction)
      /\ applied = [ok |-> TRUE, st |-> PickNow(draw).st]
  BY PickNowIsGood, TypedFacts
<1>2. VerifyTransactions(txs)
  <2>1. IsPart(txs, list, Len(list)) /\ Len(list) \in Nat
    BY <1>1, TypedFacts DEF GoodPick, PoolInv, MempoolTypeOK
  <2>2. \A tx \in ToSet(txs) : \E i \in 1..Len(list) : tx = list[i]
    <3> HIDE DEF txs
    <3> QED
      BY <1>1, <2>1, PartToSet
  <2>3. \A i \in 1..Len(list) : VerifyTransactionSignature(list[i])
    BY TypedFacts DEF PoolInv, MempoolTypeOK, ToSet
  <2> QED
    BY <2>2, <2>3 DEF VerifyTransactions, ToSet
<1>3. applied.ok
  BY <1>1
<1>4. /\ header.Slot = Slot(NextTick) /\ header.Validator = LeaderNow(draw)
      /\ header.Transactions = txs /\ header.StateRoot = applied.st
      /\ LeaderNow(draw) \in DOMAIN validators =>
           header.Signer = validators[LeaderNow(draw)].PrivKey
  BY DEF NewHeader
<1>5. SignatureVerifies(validators, header)
  BY <1>4 DEF CanSign, SignatureVerifies
<1> HIDE DEF header, txs
<1>6. /\ leaderForSlot(SnapshotsNow, header.Slot, draw) = header.Validator
      /\ ApplyTransactions(state, header.Transactions,
           validatorRewardAddress(validators, header.Validator)) = applied
  BY <1>4 DEF LeaderNow, ProducerNow
<1>7. verifyBlockOnAccept(header, state, SnapshotsNow, draw, validators)
  BY <1>2, <1>3, <1>4, <1>5, <1>6 DEF verifyBlockOnAccept
<1> QED
  BY <1>2, <1>3, <1>7 DEF CanMakeBlock, header, txs

\* What PoppedIntoBlock says of one transaction.
TakenWell(tx) ==
  \/ \E hash \in blocks' \ blocks :
       \E i \in DOMAIN hash[Len(hash)].Transactions :
         hash[Len(hash)].Transactions[i] = tx
  \/ LET slot == Slot(tick')
     IN ~ CanSign(leaderForSlot(snapshots', slot, draws'[slot]))

\* The block on the tip is a new one.
LEMMA AppendIsNew ==
  ASSUME TypedInv, NEW parent \in blocks, NEW st, NEW txs, NEW draw,
         Accept(Append(parent, NewHeader(st, txs, draw)))
  PROVE  LET hash == Append(parent, NewHeader(st, txs, draw))
         IN hash \in blocks' \ blocks /\ hash[Len(hash)].Transactions = txs
<1> DEFINE header == NewHeader(st, txs, draw)
           hash == Append(parent, header)
<1>1. Accepted(parent, header)
  BY AcceptIs, TypedFacts
<1>2. header.Transactions = txs /\ header.Slot = Slot(NextTick)
  BY DEF NewHeader
<1>3. Slot(NextTick) = Slot(tick) + 1 /\ Slot(tick) \in Nat
  BY NextSlotIsNext, TypedFacts
<1>4. \A b \in blocks : LastSlot(b) <= Slot(tick)
  BY TypedFacts DEF SnapshotInv, ChainInv, TreeInv
<1> HIDE DEF header
<1>5. hash[Len(hash)] = header /\ blocks' = blocks \cup {hash}
  BY <1>1 DEF Accepted
<1> HIDE DEF hash
<1>6. LastSlot(hash) = Slot(tick) + 1
  BY <1>2, <1>3, <1>5 DEF LastSlot
<1>7. hash \notin blocks
  <2> SUFFICES ASSUME hash \in blocks PROVE FALSE
    OBVIOUS
  <2>1. LastSlot(hash) <= Slot(tick)
    BY <1>4
  <2> QED
    BY <1>3, <1>6, <2>1
<1>8. hash \in blocks' \ blocks /\ hash[Len(hash)].Transactions = txs
  BY <1>2, <1>5, <1>7
<1> QED
  BY <1>8 DEF hash, header

LEMMA BatchTaken ==
  ASSUME TypedInv, NEW draw, AddBlock(<<>>, draw), NEW tx \in byHash \ byHash'
  PROVE  TakenWell(tx)
<1> DEFINE txs == PickNow(draw).out
<1>1. /\ TickSlot(draw) /\ Popped(PickNow(draw))
      /\ IF CanMakeBlock(state, txs, draw)
         THEN Accept(Append(tip, NewHeader(state, txs, draw)))
         ELSE Refuse(LeaderNow(draw))
  BY DEF AddBlock, TxsNow
<1>2. txs \in Seq(Transaction)
  BY PickNowIsGood, TypedFacts
<1>3. \E i \in DOMAIN txs : txs[i] = tx
  BY <1>1, <1>2 DEF Popped, ToSet
<1> HIDE DEF txs
<1>4. CASE CanMakeBlock(state, txs, draw)
  <2>1. tip \in blocks
    BY TypedFacts
  <2>2. PICK hash \in blocks' \ blocks : hash[Len(hash)].Transactions = txs
    BY <1>1, <1>4, <2>1, AppendIsNew
  <2> QED
    BY <1>3, <2>2 DEF TakenWell
<1>5. CASE ~ CanMakeBlock(state, txs, draw)
  <2>1. ~ CanSign(LeaderNow(draw))
    BY <1>5, PickMakesBlock DEF txs
  <2>2. snapshots' = SnapshotsNow /\ tick' = NextTick
    BY <1>1, <1>5 DEF Refuse, TickSlot
  <2>3. draws'[Slot(NextTick)] = draw
    BY <1>1, TickKeepsDraws, TypedFacts
  <2>4. leaderForSlot(snapshots', Slot(tick'), draws'[Slot(tick')]) = LeaderNow(draw)
    BY <2>2, <2>3 DEF LeaderNow
  <2> QED
    BY <2>1, <2>4 DEF TakenWell
<1> QED
  BY <1>4, <1>5

\* Nothing else takes from the pool.
LEMMA PoolOnlyPopped ==
  ASSUME [Next]_vars
  PROVE  byHash \subseteq byHash' \/ \E draw : AddBlock(<<>>, draw)
<1>1. ASSUME NEW batch, NEW draw, AddBlock(batch, draw), batch # <<>>
      PROVE  byHash' = byHash
  BY <1>1 DEF AddBlock, mempoolVars
<1>2. ASSUME NEW parent, NEW batch, NEW draw, AddBlockExternal(parent, batch, draw)
      PROVE  byHash' = byHash
  BY <1>2 DEF AddBlockExternal, mempoolVars
<1>3. ASSUME NEW tx, AddTx(tx) PROVE byHash \subseteq byHash'
  BY <1>3 DEF AddTx, Add
<1>4. ASSUME NEW addr, NEW amount, SetBalance(addr, amount) PROVE byHash' = byHash
  BY <1>4 DEF SetBalance, mempoolVars
<1>5. ASSUME NEW epochs, Freeze(epochs) PROVE byHash' = byHash
  BY <1>5 DEF Freeze, mempoolVars
<1>6. CASE \/ \E slot \in Slots : GetEpochSnapshot(slot)
           \/ \E hash \in blocks : ScoreTip(hash)
           \/ WeightDeltaRequired
           \/ GetForkCandidates
  BY <1>5, <1>6 DEF GetEpochSnapshot, ScoreTip, WeightDeltaRequired,
                    GetForkCandidates
<1>7. CASE VerifyChain \/ ResetReorgStats \/ ChangeValidators \/ UNCHANGED vars
  BY <1>7 DEF VerifyChain, ResetReorgStats, ChangeValidators, mempoolVars, vars
<1> QED
  BY <1>1, <1>2, <1>3, <1>4, <1>6, <1>7 DEF Next, OtherCall

\* Transactions leave the mempool only into the block they were selected for,
\* or with the slot of a leader who cannot sign: what SelectTxsForBlock tries
\* on the ledger never fails verifyBlockOnAccept, for any pool and any leader.
THEOREM PoppedIntoBlockHolds == Spec => PoppedIntoBlock
<1>1. ASSUME TypedInv, [Next]_vars, NEW tx \in byHash \ byHash'
      PROVE  TakenWell(tx)
  BY <1>1, PoolOnlyPopped, BatchTaken
<1>2. TypedInv /\ [Next]_vars =>
        [\A tx \in byHash \ byHash' :
           \/ \E hash \in blocks' \ blocks :
                \E i \in DOMAIN hash[Len(hash)].Transactions :
                  hash[Len(hash)].Transactions[i] = tx
           \/ LET slot == Slot(tick')
              IN ~ CanSign(leaderForSlot(snapshots', slot, draws'[slot]))]_vars
  BY <1>1 DEF TakenWell
<1> QED
  BY <1>2, TypedInvariant, PTL DEF Spec, PoppedIntoBlock
-----------------------------------------------------------------------------
(* The ledger of the canonical chain.  A replay pays the fees to the         *)
(* addresses the producers have now, so what it yields is what the blocks    *)
(* committed to only as long as their producers are registered; and a        *)
(* balance that is set after the first block is in no replay.  The theorems  *)
(* say that nothing else comes between the ledger and the chain.             *)

\* Nobody who made a block has left the registry.
ProducersStay ==
  \A hash \in blocks : \A i \in 2..Len(hash) : hash[i].Validator \in DOMAIN validators

\* Balances are set before the first block, as the simulation does.
BalancesFirst ==
  [][(\E pair \in Balances : SetBalance(pair[1], pair[2])) => blocks = {GenesisBlock}]_vars

\* What verifyBlockOnAccept saw and can be seen still.
Sealed(h) ==
  /\ SignatureVerifies(validators, h)
  /\ VerifyTransactions(h.Transactions)
  /\ h.Slot = Slot(h.Tick)

\* The replay of a branch yields what its last block committed to.
Follows(hash) ==
  LET replayed == Replay(hash, genesis, validators)
  IN /\ replayed.ok
     /\ Len(hash) > 1 => replayed.st = hash[Len(hash)].StateRoot
     /\ Total(replayed.st) = Total(genesis)
     /\ \A i \in 2..Len(hash) : Sealed(hash[i])

FollowInv ==
  /\ TypedInv
  /\ \A hash \in blocks : Follows(hash)
  /\ state = Replay(chain, genesis, validators).st

\* The address of a producer who could sign is that of its key.
LEMMA SignerAddress ==
  ASSUME NEW vals, IsRegistry(vals), NEW header, SignatureVerifies(vals, header)
  PROVE  /\ validatorRewardAddress(vals, header.Validator) = header.Signer
         /\ header.Signer \in Nat /\ header.Signer # NoAddr
BY KeysAssumption DEF IsRegistry, Validator, SignatureVerifies, validatorRewardAddress,
                      NoAddr, NoKey

LEMMA SignatureStays ==
  ASSUME NEW old, NEW new, KeepsKeys(old, new), NEW header,
         SignatureVerifies(old, header), header.Validator \in DOMAIN new
  PROVE  SignatureVerifies(new, header)
BY DEF KeepsKeys, SignatureVerifies

\* A registry in which the producers have kept their keys replays alike.
LEMMA SealedReplay ==
  ASSUME NEW hash, Replayable(hash), NEW gen \in Ledgers, NEW old, IsRegistry(old),
         NEW new, IsRegistry(new), KeepsKeys(old, new),
         \A i \in 2..Len(hash) : /\ SignatureVerifies(old, hash[i])
                                 /\ hash[i].Validator \in DOMAIN new
  PROVE  Replay(hash, gen, new) = Replay(hash, gen, old)
<1>1. ASSUME NEW i \in 2..Len(hash)
      PROVE  validatorRewardAddress(old, hash[i].Validator)
               = validatorRewardAddress(new, hash[i].Validator)
  <2>1. SignatureVerifies(old, hash[i]) /\ SignatureVerifies(new, hash[i])
    BY SignatureStays
  <2> QED
    BY <2>1, SignerAddress
<1> QED
  BY <1>1, ReplayAlike

\* Follows with another registry.
LEMMA FollowsStays ==
  ASSUME TypedInv, TypedInv', KeepsKeys(validators, validators'), genesis' = genesis,
         ProducersStay', NEW hash \in blocks', Replayable(hash), Follows(hash)
  PROVE  /\ Follows(hash)'
         /\ Replay(hash, genesis', validators') = Replay(hash, genesis, validators)
<1>1. IsRegistry(validators) /\ IsRegistry(validators') /\ genesis \in Ledgers
  BY TypedFacts DEF TypedInv, DisciplineInv, RegistryInv
<1>2. \A i \in 2..Len(hash) : Sealed(hash[i]) /\ hash[i].Validator \in DOMAIN validators'
  BY DEF ProducersStay, Follows
<1>3. Replay(hash, genesis, validators') = Replay(hash, genesis, validators)
  BY <1>1, <1>2, SealedReplay DEF Sealed
<1>4. \A i \in 2..Len(hash) : Sealed(hash[i])'
  BY <1>2, SignatureStays DEF Sealed
<1> QED
  BY <1>3, <1>4 DEF Follows

\* A new block: its replay is one more turn of the loop than its parent's.
LEMMA NewBlockFollows ==
  ASSUME FollowInv, NEW parent \in blocks, NEW st, NEW header,
         Replay(parent, genesis, validators) = [ok |-> TRUE, st |-> st],
         Verified(header, st), Accepted(parent, header)
  PROVE  Follows(Append(parent, header))
<1> DEFINE hash == Append(parent, header)
           before == Replay(parent, genesis, validators)
           replayed == Replay(hash, genesis, validators)
           producer == validatorRewardAddress(validators, header.Validator)
<1>1. /\ TypedInv /\ Follows(parent) /\ IsTyped(header)
      /\ IsBranch(parent) /\ Replayable(parent) /\ Len(parent) \in Nat
      /\ IsRegistry(validators) /\ genesis \in Ledgers
  <2>1. TypedInv /\ Follows(parent) /\ IsTyped(header)
    BY DEF FollowInv, Verified
  <2>2. IsBranch(parent) /\ Replayable(parent)
    BY <2>1, TypedFacts
  <2>3. Len(parent) \in Nat
    BY <2>2 DEF IsBranch
  <2> QED
    BY <2>1, <2>2, <2>3, TypedFacts
<1>2. Replayable(hash)
  BY <1>1, AcceptedBranch
<1>3. /\ Len(hash) = Len(parent) + 1 /\ hash[Len(hash)] = header
      /\ \A i \in 1..Len(parent) : hash[i] = parent[i]
  BY DEF Accepted
<1>4. /\ SignatureVerifies(validators, header)
      /\ VerifyTransactions(header.Transactions) /\ header.Slot = Slot(header.Tick)
      /\ ApplyTransactions(st, header.Transactions, producer)
           = [ok |-> TRUE, st |-> header.StateRoot]
  BY DEF Verified
<1>5. replayed = ReplayNext(before, header, validators)
  BY <1>1, <1>2, ReplayAppend
<1>6. replayed = [ok |-> TRUE, st |-> header.StateRoot]
  BY <1>4, <1>5 DEF ReplayNext
<1>7. Total(header.StateRoot) = Total(genesis)
  <2>1. before \in Results /\ Total(before.st) = Total(genesis)
    BY <1>1, ReplayTyped DEF Follows
  <2>2. before.st = st
    OBVIOUS
  <2>3. st \in Ledgers /\ Total(st) = Total(genesis)
    BY <2>1, <2>2 DEF Results
  <2>4. producer \in Nat /\ producer # NoAddr
    BY <1>1, <1>4, SignerAddress
  <2>5. header.Transactions \in Seq(Transaction)
    BY <1>1 DEF IsTyped
  <2> DEFINE applied == ApplyTransactions(st, header.Transactions, producer)
  <2>6. applied.ok /\ applied.st = header.StateRoot
    BY <1>4
  <2> HIDE DEF producer
  <2>7. Total(applied.st) = Total(st)
    BY <2>3, <2>4, <2>5, <2>6, PaidListTotal
  <2> QED
    BY <2>3, <2>6, <2>7
<1> HIDE DEF hash, replayed, producer, before
<1>8. ASSUME NEW i \in 2..Len(hash) PROVE Sealed(hash[i])
  <2>1. CASE i \in 2..Len(parent)
    <3>1. hash[i] = parent[i] /\ Sealed(parent[i])
      BY <1>1, <1>3, <2>1 DEF Follows
    <3> QED
      BY <3>1
  <2>2. CASE i \notin 2..Len(parent)
    <3>1. hash[i] = header
      BY <1>1, <1>3, <2>2
    <3> QED
      BY <1>4, <3>1 DEF Sealed
  <2> QED
    BY <2>1, <2>2
<1>9. replayed.ok /\ replayed.st = hash[Len(hash)].StateRoot
      /\ Total(replayed.st) = Total(genesis)
  BY <1>3, <1>6, <1>7
<1>10. Follows(hash)
  BY <1>8, <1>9 DEF Follows, replayed
<1> QED
  BY <1>10 DEF hash

\* The ledger of a chain that is nothing but genesis.
LEMMA GenesisFollows ==
  ASSUME NEW gen \in Ledgers, NEW vals, IsRegistry(vals)
  PROVE  Replay(GenesisBlock, gen, vals) = [ok |-> TRUE, st |-> gen]
<1>1. IsBranch(GenesisBlock) /\ Len(GenesisBlock) = 1
  BY DEF IsBranch, GenesisBlock, GenesisHeader
<1>2. Replayable(GenesisBlock)
  <2>1. GenesisBlock[1] = GenesisHeader
    BY DEF GenesisBlock
  <2>2. GenesisHeader.Transactions = <<>>
    BY DEF GenesisHeader
  <2>3. \A i \in 1..Len(GenesisBlock) : GenesisBlock[i].Transactions \in Seq(Transaction)
    <3>1. \A i \in 1..Len(GenesisBlock) : i = 1
      BY <1>1
    <3>2. GenesisBlock[1].Transactions \in Seq(Transaction)
      BY <2>1, <2>2
    <3> QED
      BY <3>1, <3>2
  <2> QED
    BY <1>1, <2>3 DEF Replayable, IsBranch
<1> QED
  BY <1>1, <1>2, ReplayGenesis

LEMMA FollowNewBlock ==
  ASSUME FollowInv, TypedInv', KeepsKeys(validators, validators'), ProducersStay',
         NEW parent \in blocks, NEW st, NEW header,
         Replay(parent, genesis, validators) = [ok |-> TRUE, st |-> st],
         Verified(header, st), Accepted(parent, header)
  PROVE  FollowInv'
<1> DEFINE hash == Append(parent, header)
           replayed == Replay(hash, genesis, validators)
<1>1. TypedInv /\ chain = tip /\ tip \in blocks
  BY TypedFacts DEF FollowInv
<1>2. Follows(hash)
  BY NewBlockFollows
<1>3. Replayable(hash) /\ blocks' = blocks \cup {hash}
  BY <1>1, AcceptedBranch DEF Verified
<1>4. /\ genesis' = genesis
      /\ \/ /\ tip' = hash /\ chain' = hash
            /\ state' = IF replayed.ok THEN replayed.st ELSE state
         \/ UNCHANGED <<tip, chain, state>>
  BY DEF Accepted
<1> HIDE DEF hash
<1>5. ASSUME NEW b \in blocks'
      PROVE  /\ Follows(b)'
             /\ Replay(b, genesis', validators') = Replay(b, genesis, validators)
  <2>1. Replayable(b) /\ Follows(b)
    BY <1>1, <1>2, <1>3, TypedFacts DEF FollowInv
  <2> QED
    BY <1>1, <1>4, <2>1, FollowsStays
<1>6. CASE chain' = hash /\ state' = IF replayed.ok THEN replayed.st ELSE state
  <2>1. replayed.ok /\ state' = replayed.st
    BY <1>2, <1>6 DEF Follows
  <2>2. Replay(hash, genesis', validators') = replayed
    BY <1>3, <1>5
  <2>3. state' = Replay(chain', genesis', validators').st
    BY <1>6, <2>1, <2>2
  <2> QED
    BY <1>5, <2>3 DEF FollowInv
<1>7. CASE UNCHANGED <<chain, state>>
  <2>1. Replay(chain, genesis', validators') = Replay(chain, genesis, validators)
    BY <1>1, <1>3, <1>5
  <2>2. state' = Replay(chain', genesis', validators').st
    BY <1>7, <2>1 DEF FollowInv
  <2> QED
    BY <1>5, <2>2 DEF FollowInv
<1> QED
  BY <1>4, <1>6, <1>7

LEMMA FollowStep ==
  ASSUME FollowInv, ProducersStay', [Next]_vars,
         [(\E pair \in Balances : SetBalance(pair[1], pair[2]))
            => blocks = {GenesisBlock}]_vars
  PROVE  FollowInv'
<1>1. /\ TypedInv /\ TypedInv' /\ KeepsKeys(validators, validators')
      /\ chain = tip /\ tip \in blocks
      /\ state \in Ledgers /\ genesis \in Ledgers /\ IsRegistry(validators)
  BY TypedStep, TypedFacts, DisciplineNext DEF FollowInv, TypedInv, DisciplineStep
<1>2. ASSUME NEW parent, NEW st, NEW txs, NEW draw, Makes(parent, st, txs, draw)
      PROVE  FollowInv'
  <2>1. PICK header :
          /\ parent \in blocks /\ st \in Ledgers
          /\ \/ st = state /\ parent = tip
             \/ [ok |-> TRUE, st |-> st] = Replay(parent, genesis, validators)
          /\ Verified(header, st)
          /\ Accepted(parent, header)
    BY <1>1, <1>2, MakesIs
  <2>2. Replay(parent, genesis, validators) = [ok |-> TRUE, st |-> st]
    <3> DEFINE replayed == Replay(parent, genesis, validators)
    <3>1. replayed \in Results /\ replayed.ok
      BY <1>1, <2>1, ParentLedgerTyped DEF FollowInv, Follows
    <3>2. st = state /\ parent = tip => replayed.st = st
      BY <1>1 DEF FollowInv
    <3> HIDE DEF replayed
    <3>3. st = state /\ parent = tip => replayed = [ok |-> TRUE, st |-> st]
      BY <3>1, <3>2 DEF Results
    <3> QED
      BY <2>1, <3>3 DEF replayed
  <2> QED
    BY <1>1, <2>1, <2>2, FollowNewBlock
<1>3. CASE UNCHANGED <<blocks, tip, chain, state, genesis>>
  <2>1. ASSUME NEW b \in blocks'
        PROVE  /\ Follows(b)'
               /\ Replay(b, genesis', validators') = Replay(b, genesis, validators)
    <3>1. Replayable(b) /\ Follows(b)
      BY <1>1, <1>3, TypedFacts DEF FollowInv
    <3> QED
      BY <1>1, <1>3, <3>1, FollowsStays
  <2>2. Replay(chain, genesis', validators') = Replay(chain, genesis, validators)
    BY <1>1, <1>3, <2>1
  <2>3. state' = Replay(chain', genesis', validators').st
    BY <1>3, <2>2 DEF FollowInv
  <2> QED
    BY <1>1, <2>1, <2>3 DEF FollowInv
<1>4. CASE Sets /\ ~ UNCHANGED vars
  <2>1. PICK pair \in Balances : SetBalance(pair[1], pair[2])
    BY <1>4 DEF Sets
  <2>2. blocks = {GenesisBlock} /\ UNCHANGED <<blocks, chain>>
    BY <1>4, <2>1 DEF Sets
  <2>3. chain = GenesisBlock /\ Len(GenesisBlock) = 1
    BY <1>1, <2>2 DEF GenesisBlock
  <2>4. state = genesis
    BY <1>1, <2>3, GenesisFollows DEF FollowInv
  <2>5. state' = genesis'
    BY <2>1, <2>3, <2>4 DEF SetBalance
  <2>6. genesis' \in Ledgers /\ IsRegistry(validators')
    BY <1>1 DEF TypedInv, DisciplineInv, RegistryInv, IsRegistry
  <2>7. Replay(GenesisBlock, genesis', validators') = [ok |-> TRUE, st |-> genesis']
    BY <2>6, GenesisFollows
  <2>8. Follows(GenesisBlock)'
    BY <2>3, <2>7 DEF Follows
  <2>9. state' = Replay(chain', genesis', validators').st
    BY <2>2, <2>3, <2>5, <2>7
  <2> QED
    BY <1>1, <2>2, <2>8, <2>9 DEF FollowInv
<1>5. CASE UNCHANGED vars
  BY <1>3, <1>5 DEF vars, chainVars
<1> QED
  BY <1>1, <1>2, <1>3, <1>4, <1>5, StepKinds, TypedFacts DEF Resting

LEMMA FollowInit == Init => FollowInv
<1> SUFFICES ASSUME Init PROVE FollowInv
  OBVIOUS
<1>1. TypedInv /\ genesis \in Ledgers /\ IsRegistry(validators)
  BY TypedInit, TypedFacts
<1>2. Replay(GenesisBlock, genesis, validators) = [ok |-> TRUE, st |-> genesis]
  BY <1>1, GenesisFollows
<1>3. blocks = {GenesisBlock} /\ chain = GenesisBlock /\ state = genesis
  BY DEF Init
<1>4. Follows(GenesisBlock)
  BY <1>2 DEF Follows, GenesisBlock
<1> QED
  BY <1>1, <1>2, <1>3, <1>4 DEF FollowInv

\* FollowInv, the strengthening the properties below rest on.
LEMMA FollowInvariant == Spec /\ []ProducersStay /\ BalancesFirst => []FollowInv
<1>1. Init => FollowInv
  BY FollowInit
<1>2. FollowInv /\ ProducersStay' /\ [Next]_vars
        /\ [(\E pair \in Balances : SetBalance(pair[1], pair[2]))
              => blocks = {GenesisBlock}]_vars
        => FollowInv'
  BY FollowStep
<1> QED
  BY <1>1, <1>2, PTL DEF Spec, BalancesFirst

\* As long as no producer leaves and balances are set before the first block,
\* the ledger is the one the canonical tip commits to: no reorg, replay or
\* block left aside leaves balances of another branch behind, for any tree and
\* any transactions.
THEOREM LedgerMatchesTipHolds ==
  Spec /\ []ProducersStay /\ BalancesFirst => []LedgerMatchesTip
<1>1. FollowInv => LedgerMatchesTip
  <2> SUFFICES ASSUME FollowInv PROVE LedgerMatchesTip
    OBVIOUS
  <2>1. chain \in blocks
    BY TypedFacts DEF FollowInv
  <2>2. Follows(chain) /\ state = Replay(chain, genesis, validators).st
    BY <2>1 DEF FollowInv
  <2> QED
    BY <2>2 DEF Follows, LedgerMatchesTip
<1> QED
  BY <1>1, FollowInvariant, PTL

\* Under the same conditions every replay keeps the sum of the genesis
\* balances, to which the fees of all blocks return: a producer who could sign
\* has an address to be paid at.
THEOREM SupplyConservedHolds ==
  Spec /\ []ProducersStay /\ BalancesFirst => []SupplyConserved
<1>1. FollowInv => SupplyConserved
  <2> SUFFICES ASSUME FollowInv PROVE SupplyConserved
    OBVIOUS
  <2>1. chain \in blocks
    BY TypedFacts DEF FollowInv
  <2>2. Total(state) = Total(genesis)
    BY <2>1 DEF FollowInv, Follows
  <2> QED
    BY <2>2, TotalIs DEF SupplyConserved, LedgerSupply
<1> QED
  BY <1>1, FollowInvariant, PTL

\* Later ticks are in later slots, or in the same.
LEMMA TicksRise ==
  ASSUME NEW a \in Nat, NEW b \in Nat, Slot(a) < Slot(b)
  PROVE  a < b
BY DEF Slot, TicksPerSlot

\* What VerifyChain requires of a block it still finds, as it was when the
\* block was accepted.
LEMMA BlockVerifiesStill ==
  ASSUME FollowInv, NEW i \in 2..Len(chain)
  PROVE  BlockVerifies(i, snapshots)
<1> DEFINE header == chain[i]
           prev == chain[i - 1]
           part == SubSeq(chain, 1, i)
<1>1. /\ TypedInv /\ chain \in blocks /\ IsBranch(chain) /\ AreTyped(chain)
      /\ IsRegistry(validators)
  BY TypedFacts DEF FollowInv
<1>2. /\ Len(chain) \in Nat /\ i \in 1..Len(chain) /\ i - 1 \in 1..Len(chain)
      /\ \A j \in 1..Len(chain) : chain[j].Slot \in Nat
      /\ \A j, k \in 1..Len(chain) : j < k => chain[j].Slot < chain[k].Slot
      /\ chain[1] = GenesisHeader
  BY <1>1 DEF IsBranch
<1>3. \A j \in 2..Len(chain) : Sealed(chain[j])
  BY <1>1 DEF FollowInv, Follows
<1>4. prev.Slot < header.Slot /\ prev.Slot \in Nat /\ header.Slot \in Nat
  BY <1>2
<1>5. VerifyBlockLink(prev, header)
  BY <1>4 DEF VerifyBlockLink
<1>6. VerifyPoH(prev.Tick, header)
  <2>1. header.Slot = Slot(header.Tick)
    BY <1>3 DEF Sealed
  <2>2. prev.Slot = Slot(prev.Tick)
    <3>1. CASE i = 2
      BY <1>2, <3>1 DEF GenesisHeader, Slot, TicksPerSlot
    <3>2. CASE i # 2
      <4>1. i - 1 \in 2..Len(chain)
        BY <1>2, <3>2
      <4> QED
        BY <1>3, <4>1 DEF Sealed
    <3> QED
      BY <3>1, <3>2
  <2>3. prev.Tick \in Nat /\ header.Tick \in Nat
    BY <1>1, <1>2 DEF AreTyped, IsTyped
  <2> HIDE DEF prev, header
  <2>4. prev.Tick < header.Tick
    BY <1>4, <2>1, <2>2, <2>3, TicksRise
  <2> QED
    BY <2>1, <2>3, <2>4 DEF VerifyPoH
<1>7. leaderForSlot(snapshots, header.Slot, draws[header.Slot]) = header.Validator
  <2>1. ByLeader(snapshots, draws, header)
    BY <1>1 DEF TypedInv, DisciplineInv, SnapshotInv
  <2> QED
    BY <2>1 DEF ByLeader
<1>8. \A j \in 2..(i - 1) : chain[j].Slot # header.Slot
  <2> SUFFICES ASSUME NEW j \in 2..(i - 1) PROVE chain[j].Slot # header.Slot
    OBVIOUS
  <2>1. j \in 1..Len(chain) /\ j < i
    BY <1>2
  <2> QED
    BY <1>2, <2>1
<1>9. /\ SignatureVerifies(validators, header)
      /\ VerifyTransactions(header.Transactions)
  BY <1>3 DEF Sealed
<1>10. VerifyValidator(header.Validator, validators)
  BY <1>1, <1>9 DEF SignatureVerifies, IsRegistry, VerifyValidator
<1> DEFINE replayed == Replay(part, genesis, validators)
<1>11. replayed.ok /\ replayed.st = header.StateRoot
  <2>1. part \in blocks
    BY <1>1, <1>2, TypedFacts DEF SnapshotInv, ChainInv, TreeInv, Rooted
  <2>2. Len(part) = i /\ part[i] = header
    <3> DEFINE all == {chain[j] : j \in DOMAIN chain}
    <3>1. chain \in Seq(all)
      BY <1>1 DEF IsBranch
    <3> HIDE DEF all
    <3> QED
      BY <1>2, <3>1
  <2> HIDE DEF part, header
  <2>3. Follows(part)
    BY <2>1 DEF FollowInv
  <2> QED
    BY <2>2, <2>3 DEF Follows
<1> QED
  BY <1>5, <1>6, <1>7, <1>8, <1>9, <1>10, <1>11 DEF BlockVerifies, Linked

\* Under the same conditions VerifyChain finds nothing to object to in the
\* chain the engine built, whatever reorgs have led to it.
THEOREM ChainVerifiesHolds ==
  Spec /\ []ProducersStay /\ BalancesFirst => []ChainVerifies
<1>1. FollowInv => ChainVerifies
  BY BlockVerifiesStill DEF ChainVerifies
<1> QED
  BY <1>1, FollowInvariant, PTL
=============================================================================

----------------------------- MODULE Blockchain -----------------------------
(* core/blockchain.go: the chain engine.  It holds a tree of blocks, follows *)
(* one branch of it as the canonical chain, keeps the ledger of that branch, *)
(* freezes the validators' stakes once per epoch and disciplines the leaders *)
(* that miss their slots.  No store is attached to it here; Node adds one.   *)
(*                                                                           *)
(* HashBlock commits to a block's header and, through PrevHash, to all its   *)
(* ancestors; SHA-256 is taken to be injective.  So the hash of a block is   *)
(* modelled by the sequence of headers from genesis to the block, the map    *)
(* Blocks by the set of those sequences, Parents by dropping the last        *)
(* header, Index by the length.  TxRoot and StateRoot are the values they    *)
(* commit to, the PoH hash is determined by the tick.  A call adds a block   *)
(* only under a parent that is there, so the walk along PrevHash reaches     *)
(* genesis and yields the hash itself; after a restart it may stop earlier.  *)
EXTENDS ValidatorRegistry, Mempool

CONSTANTS
  \* ChainConfig, after NewBlockchain has filled in the defaults
  MaxReorgDepth,
  FinalitySlots,
  MinReorgWeightDeltaP,
  EpochLength,
  MaxBlockTxs,
  \* The world the engine runs in
  HashLess(_, _),  \* string order of two block hashes
  Draws,           \* the values SHA-256 of a slot number may take
  Calls,           \* which calls besides AddBlock are made here
  KeyPairs,        \* <<pub, priv>> arguments of AddValidator
  Balances,        \* <<address, amount>> arguments of SetBalance
  Txs,             \* arguments of AddTx
  Batches,         \* transactions passed to AddBlock and AddBlockExternal
  Slots            \* arguments of GetEpochSnapshot

ASSUME ConfigAssumption ==
  /\ {MaxReorgDepth, FinalitySlots, EpochLength, MaxBlockTxs} \subseteq Nat \ {0}
  /\ MinReorgWeightDeltaP \in Nat

ASSUME WorldAssumption ==
  /\ Draws \subseteq Nat
  /\ KeyPairs \subseteq (Keys \cup {NoKey}) \X (Keys \cup {NoKey})
  /\ Balances \subseteq Nat \X Int
  /\ Txs \subseteq Transaction
  /\ Batches \subseteq Seq(Transaction)
  /\ Slots \subseteq Nat

VARIABLES
  tick,           \* poh.CurrentTick
  draws,          \* slot -> the draw of its leader, once the slot has come
  blocks,         \* Blocks and Parents
  tip,            \* CanonicalTip
  chain,          \* Chain
  state,          \* State
  genesis,        \* Genesis
  snapshots,      \* epoch -> (name -> stake)
  slotProducers,  \* <<slot, validator>> -> block hash
  equivocations,  \* Equivocations
  finalized,      \* FinalizedSlot
  reorgStats      \* ReorgStats

chainVars == <<blocks, tip, chain, state, finalized, reorgStats>>
vars == <<registryVars, mempoolVars, chainVars, tick, draws, genesis,
          snapshots, slotProducers, equivocations>>

-----------------------------------------------------------------------------
(* Proof of History: the only clock.  Every attempt to make a block advances *)
(* it by one slot, whether the attempt succeeds or not.                      *)

TicksPerSlot == 20

Slot(t) == t \div TicksPerSlot

\* Faulty: a block takes half a slot.
NextTickShort == tick + TicksPerSlot \div 2

NextTick == tick + TicksPerSlot

-----------------------------------------------------------------------------
(* Epoch snapshots.                                                          *)

epochForSlot(slot) == slot \div EpochLength

EpochsOf(headers) == {epochForSlot(headers[i].Slot) : i \in DOMAIN headers}

\* Faulty: the snapshot is taken again each time it is asked for.
retakeSnapshots(snaps, vals, sts, epochs) ==
  [e \in DOMAIN snaps \cup epochs |->
     IF e \notin epochs THEN snaps[e]
     ELSE ActiveStakes(vals, sts, e * EpochLength)]

\* ensureSnapshot for each of a set of epochs: a frozen one is kept.
ensureSnapshots(snaps, vals, sts, epochs) ==
  [e \in DOMAIN snaps \cup epochs |->
     IF e \in DOMAIN snaps THEN snaps[e]
     ELSE ActiveStakes(vals, sts, e * EpochLength)]

snapshotStake(snaps, header) ==
  LET stakes == snaps[epochForSlot(header.Slot)]
  IN IF header.Validator \in DOMAIN stakes THEN stakes[header.Validator] ELSE 0

leaderForSlot(snaps, slot, draw) ==
  LeaderFromSnapshot(draw, snaps[epochForSlot(slot)])

validatorRewardAddress(vals, name) ==
  IF name \in DOMAIN vals /\ vals[name].PubKey \notin NotHex
  THEN vals[name].PubKey
  ELSE NoAddr

-----------------------------------------------------------------------------
(* Blocks.                                                                   *)

GenesisHeader ==
  [Slot |-> 0, Tick |-> 0, Validator |-> NoLeader, Signer |-> NoKey,
   Transactions |-> <<>>, StateRoot |-> EmptyMap]

GenesisBlock == <<GenesisHeader>>

\* rebuildCanonicalChain: from hash back along PrevHash to genesis, or to the
\* first block whose parent is not known.
Walk(known, hash) ==
  LET orphans == {i \in 2..Len(hash) : SubSeq(hash, 1, i - 1) \notin known}
  IN IF orphans = {} THEN hash ELSE SubSeq(hash, Max(orphans), Len(hash))

\* Apply the transactions of headers, genesis excepted, to the genesis ledger,
\* paying the fees to the address each producer has in vals now.
Replay(headers, gen, vals) ==
  LET run[i \in 1..Len(headers)] ==
        IF i = 1
        THEN [ok |-> TRUE, st |-> gen]
        ELSE LET r == run[i - 1]
             IN IF r.ok
                THEN ApplyTransactions(r.st, headers[i].Transactions,
                       validatorRewardAddress(vals, headers[i].Validator))
                ELSE r
  IN run[Len(headers)]

\* stateAtTip: chainFromTip reports a missing ancestor.
stateAtTip(hash) ==
  IF Walk(blocks, hash) = hash
  THEN Replay(hash, genesis, validators)
  ELSE [ok |-> FALSE, st |-> EmptyMap]

\* SignBlock, then VerifyBlockSignature: the signature verifies if the signer
\* holds the private key of the validator's public key.
SignatureVerifies(vals, header) ==
  /\ header.Validator \in DOMAIN vals
  /\ header.Signer = vals[header.Validator].PubKey
  /\ header.Signer \notin NotHex

\* The checks on a header that was just built on a parent whose ledger is st.
verifyBlockOnAccept(header, st, snaps, draw, vals) ==
  /\ leaderForSlot(snaps, header.Slot, draw) = header.Validator
  /\ VerifyTransactions(header.Transactions)
  /\ LET applied == ApplyTransactions(st, header.Transactions,
                      validatorRewardAddress(vals, header.Validator))
     IN applied.ok /\ applied.st = header.StateRoot
  /\ SignatureVerifies(vals, header)

-----------------------------------------------------------------------------
(* Fork choice.  The operators take the frozen snapshots, which hold every   *)
(* epoch the two branches touch.                                             *)

\* The walk from hash stops where branch begins.
scoreTip(snaps, branch, hash) ==
  [Slot |-> branch[Len(branch)].Slot,
   CumulativeWeight |->
     MapThenSumSet(LAMBDA i : snapshotStake(snaps, branch[i]), DOMAIN branch),
   Hash |-> hash]

\* Faulty: a shorter branch never wins.
betterIfLonger(a, b) ==
  a.CumulativeWeight > b.CumulativeWeight /\ Len(a.Hash) >= Len(b.Hash)

betterScore(a, b) ==
  \/ a.CumulativeWeight > b.CumulativeWeight
  \/ /\ a.CumulativeWeight = b.CumulativeWeight
     /\ a.Slot > b.Slot \/ (a.Slot = b.Slot /\ HashLess(a.Hash, b.Hash))

activeStake(snaps, headers) ==
  TotalStake(snaps[epochForSlot(headers[Len(headers)].Slot)])

minReorgDelta(active) ==
  LET share == (active * MinReorgWeightDeltaP) \div 100
  IN IF share = 0 THEN 1 ELSE share

weightDeltaSatisfied(oldWeight, newWeight, active) ==
  \/ MinReorgWeightDeltaP = 0
  \/ newWeight >= oldWeight + minReorgDelta(active)

\* The first position at which the branches differ, or the one after the end
\* of the shorter.
Divergence(old, new) ==
  LET shorter == IF Len(new) < Len(old) THEN Len(new) ELSE Len(old)
      differ == {i \in 1..shorter : old[i] # new[i]}
  IN IF differ = {} THEN shorter + 1 ELSE Min(differ)

\* Faulty: the first block that is undone is not counted.
ReorgDepthShort(old, new) == Len(old) - Divergence(old, new)

ReorgDepth(old, new) == Len(old) + 1 - Divergence(old, new)

\* Faulty: the slot of the new branch's block, where there is one.
DivergeSlotOfNew(old, new) ==
  LET d == Divergence(old, new)
  IN CASE d <= Len(new) -> new[d].Slot
       [] d > Len(new) /\ d <= Len(old) -> old[d].Slot
       [] OTHER -> 0

DivergeSlot(old, new) ==
  LET d == Divergence(old, new)
  IN CASE d <= Len(old) -> old[d].Slot
       [] d > Len(old) /\ d <= Len(new) -> new[d].Slot
       [] OTHER -> 0

\* What scoreTip walks for the canonical tip, once new is among the blocks.
\* That is the canonical chain, unless a restart has left gaps in it: new may
\* be the block that was missing.
TipWalk(new) == Walk(blocks \cup {new}, tip)

\* Faulty: finality is not looked at.
VerdictWithoutFinality(old, new, snaps) ==
  LET current == scoreTip(snaps, TipWalk(new), tip)
      score == scoreTip(snaps, new, new)
  IN IF ~ betterScore(score, current)
     THEN "worse"
     ELSE IF ReorgDepth(old, new) > MaxReorgDepth
     THEN "deep"
     ELSE IF ~ weightDeltaSatisfied(current.CumulativeWeight,
                 score.CumulativeWeight, activeStake(snaps, old))
     THEN "light"
     ELSE "adopt"

\* What updateCanonical decides about the branch that ends in new, when the
\* canonical chain is old: the guards in the order of its early returns.
Verdict(old, new, snaps) ==
  LET current == scoreTip(snaps, TipWalk(new), tip)
      score == scoreTip(snaps, new, new)
  IN IF ~ betterScore(score, current)
     THEN "worse"
     ELSE IF finalized > 0 /\ DivergeSlot(old, new) <= finalized
     THEN "finalized"
     ELSE IF ReorgDepth(old, new) > MaxReorgDepth
     THEN "deep"
     ELSE IF ~ weightDeltaSatisfied(current.CumulativeWeight,
                 score.CumulativeWeight, activeStake(snaps, old))
     THEN "light"
     ELSE "adopt"

\* ReorgStats counts refusals, and adoptions that are reorgs.
CountVerdict(metrics, verdict, depth) ==
  CASE verdict = "finalized" -> [metrics EXCEPT !.Critical = @ + 1]
    [] verdict \in {"deep", "light"} -> [metrics EXCEPT !.Error = @ + 1]
    [] verdict = "adopt" /\ depth > 1 -> [metrics EXCEPT !.Warn = @ + 1]
    [] verdict = "adopt" /\ depth = 1 -> [metrics EXCEPT !.Info = @ + 1]
    [] OTHER -> metrics

\* Faulty: one slot too early.
FinalizedEarly(tipSlot) ==
  IF tipSlot >= FinalitySlots /\ tipSlot + 1 - FinalitySlots > finalized
  THEN tipSlot + 1 - FinalitySlots
  ELSE finalized

\* updateFinality: the finalized slot follows the tip and never goes back.
FinalizedBy(tipSlot) ==
  IF tipSlot >= FinalitySlots /\ tipSlot - FinalitySlots > finalized
  THEN tipSlot - FinalitySlots
  ELSE finalized

\* Faulty: the ledger is not rebuilt.
updateChainOnly(hash, verdict, vals) ==
  /\ reorgStats' = CountVerdict(reorgStats, verdict, ReorgDepth(chain, hash))
  /\ IF verdict = "adopt"
     THEN /\ tip' = hash
          /\ chain' = hash
          /\ finalized' = FinalizedBy(hash[Len(hash)].Slot)
     ELSE UNCHANGED <<tip, chain, finalized>>
  /\ UNCHANGED state

\* chain and tip after updateCanonical; the ledger is replayed from genesis
\* and stays as it was if a transaction no longer applies.
updateCanonical(hash, verdict, vals) ==
  LET depth == ReorgDepth(chain, hash)
      replayed == Replay(hash, genesis, vals)
  IN /\ reorgStats' = CountVerdict(reorgStats, verdict, depth)
     /\ IF verdict = "adopt"
        THEN /\ tip' = hash
             /\ chain' = hash
             /\ state' = IF replayed.ok THEN replayed.st ELSE state
             /\ finalized' = FinalizedBy(hash[Len(hash)].Slot)
        ELSE UNCHANGED <<tip, chain, state, finalized>>

-----------------------------------------------------------------------------
(* Discipline.                                                               *)

\* SlotProduced: who made the canonical block of the slot, if there is one.
SlotProduced(headers, slot) ==
  LET made == {i \in 2..Len(headers) : headers[i].Slot = slot}
  IN IF made = {} THEN NoLeader ELSE headers[Max(made)].Validator

\* Faulty: a produced slot clears the record of its leader.
JudgedKindly(vals, sts, leader, producer, slot) ==
  IF leader = NoLeader THEN [vals |-> vals, sts |-> sts]
  ELSE IF leader = producer
  THEN [vals |-> vals, sts |-> [sts EXCEPT ![leader] = ZeroStats]]
  ELSE MissSlot(vals, sts, leader, slot)

Judged(vals, sts, leader, producer, slot) ==
  IF leader \in {NoLeader, producer} THEN [vals |-> vals, sts |-> sts]
  ELSE MissSlot(vals, sts, leader, slot)

\* One turn of the loop of processMissedSlots.  A penalty changes what later
\* snapshots would freeze.
JudgedNext(r, headers, slot, drawn) ==
  LET frozen == ensureSnapshots(r.snaps, r.vals, r.sts, {epochForSlot(slot)})
      next == Judged(r.vals, r.sts, leaderForSlot(frozen, slot, drawn[slot]),
                     SlotProduced(headers, slot), slot)
  IN [vals |-> next.vals, sts |-> next.sts, snaps |-> frozen]

\* Faulty: the first slot that is due is passed over.
processMissedSlotsLate(headers, target, vals, sts, snaps, drawn) ==
  LET run[slot \in lastProcessed + 1 .. target] ==
        IF slot = lastProcessed + 1
        THEN [vals |-> vals, sts |-> sts, snaps |-> snaps]
        ELSE JudgedNext(run[slot - 1], headers, slot, drawn)
  IN IF target <= lastProcessed
     THEN [vals |-> vals, sts |-> sts, snaps |-> snaps]
     ELSE run[target]

\* processMissedSlots: judge each slot up to target, in order, against the
\* canonical chain.
processMissedSlots(headers, target, vals, sts, snaps, drawn) ==
  LET run[slot \in lastProcessed..target] ==
        IF slot = lastProcessed
        THEN [vals |-> vals, sts |-> sts, snaps |-> snaps]
        ELSE JudgedNext(run[slot - 1], headers, slot, drawn)
  IN IF target <= lastProcessed
     THEN [vals |-> vals, sts |-> sts, snaps |-> snaps]
     ELSE run[target]

\* registerSlotProducer finds another block of the same leader in the slot.
Equivocates(hash) ==
  LET header == hash[Len(hash)]
      key == <<header.Slot, header.Validator>>
  IN key \in DOMAIN slotProducers /\ slotProducers[key] # hash

-----------------------------------------------------------------------------
(* Making a block: the common part of AddBlock and AddBlockExternal.         *)

\* The new slot's snapshot is frozen first, whatever happens next.
SnapshotsNow ==
  ensureSnapshots(snapshots, validators, stats, {epochForSlot(Slot(NextTick))})

LeaderNow(draw) == leaderForSlot(SnapshotsNow, Slot(NextTick), draw)

ProducerNow(draw) == validatorRewardAddress(validators, LeaderNow(draw))

\* The leader's header for the slot on a parent whose ledger is st.
NewHeader(st, txs, draw) ==
  LET leader == LeaderNow(draw)
  IN [Slot |-> Slot(NextTick),
      Tick |-> NextTick,
      Validator |-> leader,
      Signer |-> IF leader \in DOMAIN validators
                 THEN validators[leader].PrivKey ELSE NoKey,
      Transactions |-> txs,
      StateRoot |-> ApplyTransactions(st, txs, ProducerNow(draw)).st]

CanMakeBlock(st, txs, draw) ==
  /\ VerifyTransactions(txs)
  /\ ApplyTransactions(st, txs, ProducerNow(draw)).ok
  /\ verifyBlockOnAccept(NewHeader(st, txs, draw), st, SnapshotsNow, draw,
                         validators)

\* Time passes and the slot's draw is known from now on.
TickSlot(draw) ==
  /\ Slot(NextTick) <= MaxSlot
  /\ tick' = NextTick
  /\ draws' = Put(draws, Slot(NextTick), draw)

\* Any error before the block exists costs the slot's leader SlashPenalty.
Refuse(leader) ==
  /\ validators' = SlashValidator(validators, leader, SlashPenalty)
  /\ snapshots' = SnapshotsNow
  /\ UNCHANGED <<chainVars, stats, lastProcessed, genesis, slotProducers,
                 equivocations>>

\* Register, insert, choose the fork, reward, judge: the block is rewarded
\* and its slot counts even if fork choice leaves it aside.
Accept(hash) ==
  LET header == hash[Len(hash)]
      key == <<header.Slot, header.Validator>>
      double == Equivocates(hash)
      then == IF double
              THEN PunishEquivocation(validators, stats, header.Validator, header.Slot)
              ELSE [vals |-> validators, sts |-> stats]
      branch == Walk(blocks, hash)
      snaps == ensureSnapshots(SnapshotsNow, then.vals, then.sts,
                               EpochsOf(TipWalk(hash)) \cup EpochsOf(branch))
      verdict == IF branch = hash THEN Verdict(chain, hash, snaps) ELSE "missing"
      canonical == IF verdict = "adopt" THEN hash ELSE chain
      target == canonical[Len(canonical)].Slot
      judged == processMissedSlots(canonical, target,
                  Rewarded(then.vals, header.Validator), then.sts, snaps, draws')
  IN /\ slotProducers' = IF double THEN slotProducers
                         ELSE Put(slotProducers, key, hash)
     /\ equivocations' =
          IF double
          THEN Append(equivocations, [Slot |-> header.Slot,
                 Validator |-> header.Validator,
                 BlockA |-> slotProducers[key], BlockB |-> hash])
          ELSE equivocations
     /\ blocks' = blocks \cup {hash}
     /\ updateCanonical(hash, verdict, then.vals)
     /\ validators' = judged.vals
     /\ stats' = judged.sts
     /\ snapshots' = judged.snaps
     /\ lastProcessed' = IF target > lastProcessed THEN target ELSE lastProcessed
     /\ UNCHANGED genesis

-----------------------------------------------------------------------------
(* The calls.                                                                *)

\* SelectTxsForBlock
PickNow(draw) == PopForBlock(list, state, MaxBlockTxs, ProducerNow(draw))

TxsNow(batch, draw) == IF batch = <<>> THEN PickNow(draw).out ELSE batch

\* Faulty: a batch is taken from the mempool in any case.
AddBlockPops(batch, draw) ==
  /\ DOMAIN validators # {}
  /\ TickSlot(draw)
  /\ LET pick == PickNow(draw)
         txs == TxsNow(batch, draw)
     IN /\ Popped(pick)
        /\ IF CanMakeBlock(state, txs, draw)
           THEN Accept(Append(tip, NewHeader(state, txs, draw)))
           ELSE Refuse(LeaderNow(draw))

\* Without transactions of its own the block takes a batch from the mempool;
\* a refused block loses the batch it took.
AddBlock(batch, draw) ==
  /\ DOMAIN validators # {}
  /\ TickSlot(draw)
  /\ LET pick == PickNow(draw)
         txs == TxsNow(batch, draw)
     IN /\ IF batch = <<>> THEN Popped(pick) ELSE UNCHANGED mempoolVars
        /\ IF CanMakeBlock(state, txs, draw)
           THEN Accept(Append(tip, NewHeader(state, txs, draw)))
           ELSE Refuse(LeaderNow(draw))

\* A block on any known parent, checked against the ledger replayed for that
\* parent.  A replay that fails costs the leader nothing.
AddBlockExternal(parent, batch, draw) ==
  /\ DOMAIN validators # {}
  /\ parent \in blocks
  /\ TickSlot(draw)
  /\ UNCHANGED mempoolVars
  /\ LET base == stateAtTip(parent)
     IN \/ /\ VerifyTransactions(batch) => base.ok
           /\ IF CanMakeBlock(base.st, batch, draw)
              THEN Accept(Append(parent, NewHeader(base.st, batch, draw)))
              ELSE Refuse(LeaderNow(draw))
        \/ /\ VerifyTransactions(batch) /\ ~ base.ok
           /\ snapshots' = SnapshotsNow
           /\ UNCHANGED <<registryVars, chainVars, genesis, slotProducers,
                          equivocations>>

\* The links by hash hold in every branch; the slots are compared.
VerifyBlockLink(prev, cur) == cur.Slot >= prev.Slot

VerifyPoH(expectedTick, cur) ==
  cur.Tick > expectedTick /\ Slot(cur.Tick) = cur.Slot

VerifyValidator(name, vals) ==
  name \in DOMAIN vals /\ vals[name].Stake >= MinStake

\* Faulty: the leader is looked for among the stakes of today.
BlockVerifiesToday(i, snaps) ==
  LET header == chain[i]
  IN header.Validator =
       LeaderFromSnapshot(draws[header.Slot],
                          ActiveStakes(validators, stats, header.Slot))

\* VerifyChain looks at these before it looks for the epoch's snapshot.
Linked(i) ==
  /\ VerifyBlockLink(chain[i - 1], chain[i])
  /\ VerifyPoH(chain[i - 1].Tick, chain[i])

\* What VerifyChain requires of the block at position i of the chain.
BlockVerifies(i, snaps) ==
  LET header == chain[i]
      replayed == Replay(SubSeq(chain, 1, i), genesis, validators)
  IN /\ Linked(i)
     /\ leaderForSlot(snaps, header.Slot, draws[header.Slot]) = header.Validator
     /\ \A j \in 2..(i - 1) : chain[j].Slot # header.Slot
     /\ VerifyValidator(header.Validator, validators)
     /\ SignatureVerifies(validators, header)
     /\ VerifyTransactions(header.Transactions)
     /\ replayed.ok /\ replayed.st = header.StateRoot

\* The first block that does not verify ends the call and costs its producer
\* SlashPenalty.  The epochs looked at on the way are frozen: after a restart
\* some may be missing.
VerifyChain ==
  LET frozen(epochs) == ensureSnapshots(snapshots, validators, stats, epochs)
      bad == {i \in 2..Len(chain) : ~ BlockVerifies(i, frozen(EpochsOf(chain)))}
      reached == {i \in 2..Len(chain) : Linked(i) /\ \A j \in bad : i <= j}
  IN /\ validators' = IF bad = {} THEN validators
                      ELSE SlashValidator(validators, chain[Min(bad)].Validator,
                                          SlashPenalty)
     /\ snapshots' = frozen({epochForSlot(chain[i].Slot) : i \in reached})
     /\ UNCHANGED <<stats, lastProcessed, mempoolVars, chainVars, tick, draws,
                    genesis, slotProducers, equivocations>>

\* An overwrite of the ledger that only enters the genesis ledger, and so only
\* survives a replay, while there is nothing but the genesis block.
SetBalance(addr, amount) ==
  LET account == [AccountOf(state, addr) EXCEPT !.Balance = amount]
  IN /\ amount >= 0
     /\ state' = Put(state, addr, account)
     /\ genesis' = IF Len(chain) <= 1 THEN Put(genesis, addr, account) ELSE genesis
     /\ UNCHANGED <<registryVars, mempoolVars, blocks, tip, chain, finalized,
                    reorgStats, tick, draws, snapshots, slotProducers,
                    equivocations>>

AddTx(tx) ==
  /\ Add(tx)
  /\ UNCHANGED <<registryVars, chainVars, tick, draws, genesis, snapshots,
                 slotProducers, equivocations>>

\* Queries that freeze the snapshots of the epochs they look at.
Freeze(epochs) ==
  /\ snapshots' = ensureSnapshots(snapshots, validators, stats, epochs)
  /\ UNCHANGED <<registryVars, mempoolVars, chainVars, tick, draws, genesis,
                 slotProducers, equivocations>>

GetEpochSnapshot(slot) == Freeze({epochForSlot(slot)})

ScoreTip(hash) == hash \in blocks /\ Freeze(EpochsOf(Walk(blocks, hash)))

WeightDeltaRequired == Freeze({epochForSlot(chain[Len(chain)].Slot)})

\* Every block is on the walk from some leaf.
GetForkCandidates ==
  Freeze({epochForSlot(hash[Len(hash)].Slot) : hash \in blocks})

ResetReorgStats ==
  /\ reorgStats' = [Info |-> 0, Warn |-> 0, Error |-> 0, Critical |-> 0]
  /\ UNCHANGED <<registryVars, mempoolVars, blocks, tip, chain, state, finalized,
                 tick, draws, genesis, snapshots, slotProducers, equivocations>>

\* The operations of ValidatorRegistry that reach the chain's own maps.
ChangeValidators ==
  /\ \/ \E name \in Names, stake \in Stakes, pair \in KeyPairs :
          /\ "AddValidator" \in Calls
          /\ BelowMaxStake(name)
          /\ AddValidator(name, stake, pair[1], pair[2])
     \/ \E name \in Names, amount \in Stakes :
          "AddStake" \in Calls /\ BelowMaxStake(name) /\ AddStake(name, amount)
     \/ \E name \in Names, amount \in Stakes :
          "Unstake" \in Calls /\ Unstake(name, amount)
  /\ UNCHANGED <<mempoolVars, chainVars, tick, draws, genesis, snapshots,
                 slotProducers, equivocations>>

-----------------------------------------------------------------------------
\* NewBlockchain
Init ==
  /\ RegistryInit
  /\ MempoolInit
  /\ tick = 0
  /\ draws = EmptyMap
  /\ blocks = {GenesisBlock}
  /\ tip = GenesisBlock
  /\ chain = GenesisBlock
  /\ state = EmptyMap
  /\ genesis = EmptyMap
  /\ snapshots = EmptyMap
  /\ slotProducers = EmptyMap
  /\ equivocations = <<>>
  /\ finalized = 0
  /\ reorgStats = [Info |-> 0, Warn |-> 0, Error |-> 0, Critical |-> 0]

\* The calls that make no block.
OtherCall ==
  \/ "VerifyChain" \in Calls /\ VerifyChain
  \/ \E pair \in Balances : "SetBalance" \in Calls /\ SetBalance(pair[1], pair[2])
  \/ \E tx \in Txs : "AddTx" \in Calls /\ AddTx(tx)
  \/ \E slot \in Slots : "GetEpochSnapshot" \in Calls /\ GetEpochSnapshot(slot)
  \/ \E hash \in blocks : "ScoreTip" \in Calls /\ ScoreTip(hash)
  \/ "WeightDeltaRequired" \in Calls /\ WeightDeltaRequired
  \/ "GetForkCandidates" \in Calls /\ GetForkCandidates
  \/ "ResetReorgStats" \in Calls /\ ResetReorgStats
  \/ ChangeValidators

Next ==
  \/ \E batch \in Batches \cup {<<>>}, draw \in Draws : AddBlock(batch, draw)
  \/ \E parent \in blocks, batch \in Batches \cup {<<>>}, draw \in Draws :
       "AddBlockExternal" \in Calls /\ AddBlockExternal(parent, batch, draw)
  \/ OtherCall

Spec == Init /\ [][Next]_vars

-----------------------------------------------------------------------------
(* Types.                                                                    *)

IsLedger(st) == DOMAIN st \subseteq Nat /\ st \in [DOMAIN st -> Account]

IsHeader(h) ==
  /\ h.Slot \in Nat
  /\ h.Tick \in Nat
  /\ h.Validator \in Names \cup {NoLeader}
  /\ h.Signer \in Keys \cup {NoKey}
  /\ h.Transactions \in Seq(Transaction)
  /\ IsLedger(h.StateRoot)

TypeOK ==
  /\ RegistryTypeOK
  /\ MempoolTypeOK
  /\ tick \in Nat
  /\ DOMAIN draws \subseteq Nat /\ draws \in [DOMAIN draws -> Draws]
  /\ \A hash \in blocks : Len(hash) \in Nat /\ \A i \in DOMAIN hash : IsHeader(hash[i])
  /\ tip \in blocks
  /\ chain \in blocks
  /\ IsLedger(state) /\ IsLedger(genesis)
  /\ DOMAIN snapshots \subseteq Nat
  /\ \A e \in DOMAIN snapshots :
       /\ DOMAIN snapshots[e] \subseteq Names
       /\ snapshots[e] \in [DOMAIN snapshots[e] -> Nat]
  /\ DOMAIN slotProducers \subseteq Nat \X Names
  /\ slotProducers \in [DOMAIN slotProducers -> blocks]
  /\ finalized \in Nat
  /\ reorgStats \in [{"Info", "Warn", "Error", "Critical"} -> Nat]

-----------------------------------------------------------------------------
(* Finality and fork choice.                                                 *)

TipSlot == chain[Len(chain)].Slot

\* "Finality safety" (README), as far as the code keeps it: updateCanonical
\* never removes or replaces a canonical block whose slot is finalized, even
\* by a chain of reorgs none of which is deeper than MaxReorgDepth.
FinalizedBlocksStay ==
  [][\A i \in DOMAIN chain : chain[i].Slot <= finalized =>
       i \in DOMAIN chain' /\ chain'[i] = chain[i]]_vars

FinalizedChain ==
  [i \in {j \in DOMAIN chain : chain[j].Slot <= finalized} |-> chain[i]]

Log == INSTANCE FinalizedLog WITH log <- FinalizedChain, FirstEntry <- GenesisHeader

\* The engine implements the append-only log: reorgs, late forks and guards
\* together look to a reader of finalized blocks like appends.
ImplementsFinalizedLog == Log!LogSpec

\* "Reorgs cannot touch finalized slots" (README), taken by its word: nothing
\* appears in a finalized slot either.
FinalizedSlotsUntouched ==
  [][\A i \in DOMAIN chain' : chain'[i].Slot <= finalized =>
       i \in DOMAIN chain /\ chain'[i] = chain[i]]_vars

\* The finalized slot stays FinalitySlots behind the tip and every slot up to
\* the tip has been judged, exactly once and never ahead of time: the tip's
\* slot never goes back, not even in a reorg to a shorter branch.
TipNeverBehind ==
  /\ lastProcessed = TipSlot
  /\ finalized = IF TipSlot >= FinalitySlots THEN TipSlot - FinalitySlots ELSE 0

\* Fork choice never moves to a lighter branch, nor to one of equal weight
\* that is not ahead in slots, nor for less than the weight required, and it
\* never undoes more than MaxReorgDepth blocks: both branches are weighed with
\* the snapshots of after the step, and no block weighs less or more than before.
HeavierOnly ==
  [][chain' # chain =>
       LET old == scoreTip(snapshots', chain, tip).CumulativeWeight
           new == scoreTip(snapshots', chain', tip').CumulativeWeight
       IN /\ \/ new > old
             \/ new = old /\ chain'[Len(chain')].Slot > TipSlot
          /\ weightDeltaSatisfied(old, new, activeStake(snapshots', chain))
          /\ \A i \in 1..(Len(chain) - MaxReorgDepth) : chain'[i] = chain[i]
          /\ \A i \in 2..Len(chain) :
               snapshotStake(snapshots', chain[i]) = snapshotStake(snapshots, chain[i])]_vars

\* The weight of a branch, counted with the snapshots frozen so far, without
\* the genesis block that all branches share.
Weight(snaps, headers) ==
  MapThenSumSet(LAMBDA i : IF i = 1 THEN 0 ELSE snapshotStake(snaps, headers[i]),
                DOMAIN headers)

\* As long as no guard of updateCanonical has refused a branch, the canonical
\* tip is the best of all blocks ever inserted (README, fork choice): the
\* heaviest, and among the heaviest the latest.  Inserting one block at a time,
\* each compared with the tip of the moment, misses none.
CanonicalIsBest ==
  reorgStats.Critical = 0 /\ reorgStats.Error = 0 =>
  \A hash \in blocks :
    LET best == Weight(snapshots, chain)
        other == Weight(snapshots, hash)
    IN best > other \/ (best = other /\ TipSlot >= hash[Len(hash)].Slot)

-----------------------------------------------------------------------------
(* Snapshots and leaders.                                                    *)

\* "Snapshot safety" (README): once an epoch's stakes are frozen no reward,
\* slash, stake change, reorg or query changes them.
SnapshotsFrozen ==
  [][\A e \in DOMAIN snapshots :
       e \in DOMAIN snapshots' /\ snapshots'[e] = snapshots[e]]_vars

\* Every block of the tree, canonical or not, was made by the leader that the
\* snapshot of its epoch elects today, who counts in fork choice with at least
\* MinStake: no later registration, penalty or snapshot makes it illegitimate.
\* (A validator with the name "genesis" leads the slots nobody leads as well.)
BlocksByLeaders ==
  \A hash \in blocks : \A i \in 2..Len(hash) :
    LET header == hash[i]
    IN /\ epochForSlot(header.Slot) \in DOMAIN snapshots
       /\ header.Validator =
            leaderForSlot(snapshots, header.Slot, draws[header.Slot])
       /\ header.Validator # NoLeader => snapshotStake(snapshots, header) >= MinStake

\* A slot never holds two blocks, whatever parents callers choose: every
\* attempt takes a slot of its own.  So registerSlotProducer never finds an
\* equivocation among the blocks the engine makes itself.
OneBlockPerSlot ==
  /\ equivocations = <<>>
  /\ \A a, b \in blocks : a[Len(a)].Slot = b[Len(b)].Slot => a = b

\* A jail sentence is never shortened, by no order of strikes, reorgs,
\* removals and registrations.
SentencesStand ==
  [][\A n \in Names :
       stats'[n].JailedUntilEpoch >= stats[n].JailedUntilEpoch]_vars

\* "Jailed validators are excluded from active stake and snapshots" (README):
\* a sentence covers at least one epoch whose snapshot leaves the validator
\* out, or is still to be frozen.
SentenceExcludes ==
  [][\A n \in Names :
       stats'[n].JailedUntilEpoch > stats[n].JailedUntilEpoch =>
         \E e \in 0..MaxSlot :
           /\ IsJailed(stats', n, e * EpochLength)
           /\ \/ e \notin DOMAIN snapshots'
              \/ n \notin DOMAIN snapshots'[e]]_vars

\* The slots from lastProcessed on that n was to lead and has not led.
MissedSlots(n) ==
  {slot \in lastProcessed + 1 .. lastProcessed' :
     /\ leaderForSlot(snapshots', slot, draws'[slot]) = n
     /\ \A i \in 2..Len(chain') :
          chain'[i].Slot = slot => chain'[i].Validator # n}

\* "Missed-slot thresholds must produce slash + jail" (README): every slot up
\* to the tip is judged once, whatever forks and reorgs come before and after,
\* against the canonical chain of the moment.  Each slot missed is a strike;
\* when the strikes exceed MaxMissedSlots they start again from 0, with a
\* sentence for one of these slots.  (Nothing is counted of a validator with
\* the name "genesis".)
MissedSlotsCounted ==
  [][\A n \in Names \ {NoLeader} :
       LET strikes == stats[n].MissedSlots + Cardinality(MissedSlots(n))
       IN /\ stats'[n].MissedSlots = strikes % (MaxMissedSlots + 1)
          /\ strikes > MaxMissedSlots =>
               \E slot \in MissedSlots(n) :
                 stats'[n].JailedUntilEpoch >= JailedUntil(slot)]_vars

-----------------------------------------------------------------------------
(* The ledger.                                                               *)

\* The ledger is the one the canonical tip commits to: reorgs, replays and
\* blocks left aside never leave balances of another branch behind.
LedgerMatchesTip == Len(chain) > 1 => state = chain[Len(chain)].StateRoot

\* VerifyChain finds nothing to object to in the chain the engine built.
ChainVerifies == \A i \in 2..Len(chain) : BlockVerifies(i, snapshots)

LedgerSupply(st) == MapThenSumSet(LAMBDA a : st[a].Balance, DOMAIN st)

\* All money of the ledger comes from the genesis balances, across forks,
\* reorgs and replays.
SupplyConserved == LedgerSupply(state) = LedgerSupply(genesis)

CanSign(name) ==
  /\ name \in DOMAIN validators
  /\ validators[name].PrivKey = validators[name].PubKey
  /\ validators[name].PubKey \notin NotHex

\* Transactions leave the mempool only into the block they were selected for,
\* or with the slot of a leader who cannot sign: a selected batch itself never
\* makes its block fail.
PoppedIntoBlock ==
  [][\A tx \in byHash \ byHash' :
       \/ \E hash \in blocks' \ blocks :
            \E i \in DOMAIN hash[Len(hash)].Transactions :
              hash[Len(hash)].Transactions[i] = tx
       \/ LET slot == Slot(tick')
          IN ~ CanSign(leaderForSlot(snapshots', slot, draws'[slot]))]_vars
=============================================================================

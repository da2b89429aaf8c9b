# A TLA+ model of Xenium

Xenium is a single-node blockchain engine in Go: Proof of History gives time,
Proof of Stake elects the leader of each slot, Proof of Validity checks blocks
and ledgers, and file stores let a node start again. This directory models the
consensus core, the stores and the restart, checks them with TLC and proves
their central safety properties with TLAPS.

## The system

| Part | State | Operations | Talks to |
|---|---|---|---|
| Chain engine, `core/blockchain.go` | block tree, canonical tip and chain, ledger, genesis ledger, epoch snapshots, slot producers, finalized slot, reorg counters | `AddBlock`, `AddBlockExternal`, `VerifyChain`, `SetBalance`, `AddTx`, `GetEpochSnapshot`, `ScoreTip`, `WeightDeltaRequired`, `GetForkCandidates`, `ResetReorgStats` | calls everything below, in the caller's goroutine |
| Stake registry, `consensus/pos.go` | validators (stake, keys), stats (strikes, jail) | `AddValidator`, `AddStake`, `Unstake`, `RewardValidator`, `SlashValidator[Percent]`, `LeaderFromSnapshot`, `IsJailed` | maps are owned by the engine |
| Ledger rules, `consensus/pov.go` | none | `ApplyTransactions`, `VerifyTransactions`, block checks | used by engine and mempool |
| Proof of History, `consensus/poh.go` | tick | `Tick`, `Slot` | advanced by every attempt to make a block |
| Mempool, `core/mempool.go` | sorted list, hash map, a mutex | `Add`, `PopForBlock` | reads a ledger, uses `ApplyTransactions` |
| Hashes and signatures, `consensus/crypto.go` | none | hashing, signing, verification | everywhere |
| Persistence, `adapters/storage_file.go` | `blocks.jsonl`, `index.json`, `epoch_N.json` | `SaveBlock`, `GetRange`, `SaveEpochSnapshot`, `LoadLatestSnapshot` | called by the engine, read at start |
| Recovery, `core/recovery.go`, `app/node.go` | none | `RestoreFromStorage`, `NewNode` | stores to engine |
| Simulation, clocks, loggers, wallets | none of interest | | |

What is hard here is not threads (the mempool and the stores have a mutex; the
engine is sequential) but **order** and **interruption**: forks on any known
parent, reorgs guarded by four conditions, penalties judged against whatever
branch is canonical at the time, snapshots frozen at first use and consulted much
later, replays that resolve addresses in today's registry, handlers that fail
halfway with time, pool or stakes already changed, and saves in two files that a
crash or an error may separate. `PROJECT.json` lists these hazards with their
lines.

What makes each part correct:

* engine: finalized blocks stay; fork choice follows weight, then slot; every
  block has one slot and a legitimate leader; the ledger is the tip's; the money
  supply is kept;
* registry: nobody rests below the minimum stake; strikes are punished; jail is
  not shortened; keys stay;
* ledger and mempool: no overdraft, no replay, no money made; what is selected
  applies; what applies is eventually selected;
* persistence: while the files can be read, what was acknowledged is never
  forgotten and a height leads to one block, which is there.  That they stay
  readable is not among it: an append that is cut short breaks the file;
* restart: a node whose genesis block is stored starts again as long as the files
  can be read, with a tip that is not lower.

## Modules

| Module | Models |
|---|---|
| `Maps` | Go's map operations |
| `ProofOfStake` | the pure part of `pos.go`: results of each operation, jail, leader election from a snapshot |
| `ValidatorRegistry` | the registry as a state machine, with the penalties of `processMissedSlots` and `handleEquivocation` |
| `ProofOfValidity` | `ApplyTransactions` and signature checks of transactions |
| `Mempool` | `Add`, `PopForBlock` |
| `TxPipeline` | mempool and ledger together: submissions, blocks that become canonical and blocks that are lost |
| `Blockchain` | the engine; extends `ValidatorRegistry` and `Mempool` |
| `FinalizedLog` | abstract specification: what is finalized is an append-only log |
| `StorageFile` | the pure part of `storage_file.go`: what is in the files, what each write leaves there, what a reader finds |
| `FileStores` | both stores as a state machine: one step per file operation, failures, crashes |
| `DurableMap` | abstract specification: a map of registers that survives crashes |
| `Node` | `NewNode` and `RestoreFromStorage`; extends `Blockchain` and `StorageFile`: every call with the saves it makes |
| `MCRegistry`, `MCTxPipeline`, `MCBlockchain`, `MCFileStores`, `MCNode` | small instances for TLC |
| `LedgerProofs` | lemmas on the ledger rules, sums of balances and the mempool |
| `PipelineProofs` | theorems about `TxPipeline` |
| `BlockchainProofs` | theorems about the tree, finality and the snapshots |
| `DisciplineProofs` | theorems about the registry, alone and inside the engine |
| `CanonicalProofs` | theorems about fork choice and the ledger it leads to |
| `StorageFileProofs`, `FileStoreProofs` | lemmas and theorems about the stores |
| `NodeProofs` | theorems about the node and its restarts |

```
Maps -- ProofOfStake -- ValidatorRegistry --+
                                            +-- Blockchain --+-- Node
Maps -- ProofOfValidity -- Mempool ---------+                |
                              |                              |
                              TxPipeline      StorageFile ---+
                                                   |
                                                   FileStores  (implements DurableMap)
```

Operators marked `Faulty` are variants of the definition below them with one
plausible mistake. No specification uses them; `PROJECT.json` says which
property each one breaks when it takes the definition's place.

### How the state corresponds

* **Hashes.** `HashBlock` commits to the header and, through `PrevHash`, to all
  ancestors. SHA-256 is taken to be injective, so a block's hash is the sequence
  of headers from genesis to it; `Blocks` and `Parents` are the set `blocks` of
  such sequences, `Index` is the length, `TxRoot` and `StateRoot` are the values
  they commit to, and the PoH hash is its tick. A block's signature is the key
  that made it (`Signer`); a transaction's is the flag `Signed`.
* **Draws.** `deterministicDraw` is the SHA-256 of the slot modulo the total
  stake. A slot's number is drawn from `Draws` when the slot comes and kept in
  `draws`, so every later look-up of the slot's leader uses the same one.
* **Names and keys** are numbers, ordered as the strings are; 0 is "genesis"
  among the names, which a validator may have too, and the empty string and the
  nil key among the keys. Keys in `NotHex` are the strings that
  `hex.DecodeString` refuses.
* **Stats** are total: no reader distinguishes an absent entry from a zero one.
* **SlotProduced** is a function of the chain and computed from it.
* **Walks along `PrevHash`.** In one life of the engine every parent is known, so
  the walk from a hash yields the hash itself. After a restart the tree may lack
  a parent: `Walk` is the part of the branch that is there, `stateAtTip` reports
  what is missing, and `TipWalk` is what `scoreTip` sees of the canonical tip once
  a new block is in the tree, which may be the parent that was missing.
* **Not kept:** `Validator.LastSlot` and `currentEpoch` are never read.

### How the actions correspond

`AddBlock` and `AddBlockExternal` are one action each, from the tick to
`processMissedSlots`. Both advance the clock and freeze the slot's snapshot
first; every error up to the block's verification is `Refuse` (the leader is
slashed by `SlashPenalty`, popped transactions are gone), except a parent whose
replay fails, which costs nothing. `Accept` is the rest: `registerSlotProducer`,
`insertBlock`, `updateCanonical` with its guards in the code's order
(`Verdict`), the reward and the judgement of missed slots. Calls that return an
error and change nothing are not steps. Queries that freeze snapshots are
actions (`Freeze`). `VerifyChain` is a step when it slashes somebody.
`ChangeValidators` stands for callers of the registry operations on the chain's
own maps.

`TxPipeline` looks at `AddBlock(nil)` from the mempool's side. `ProduceBlock` is a
block that extends the canonical chain: its batch is applied. `LoseBlock` is every
other way the call can end after the batch was popped: an error, or a block that
`updateCanonical` leaves aside (line 467): the batch is gone and the ledger stays.
Either may happen at any time, with any producer; a block without an address for
its producer cannot be signed and is always lost. The producers of canonical blocks
are taken to stay registered: after one has left, a replay pays other addresses
than the block did, which `Blockchain` models and `removed_producer` shows.

### The stores

`blocks.jsonl` is `[lines, open, ended, bad]`: its complete lines, a block whose
line lacks only the newline (a reader still accepts it), whether the file ends
with a newline, and whether some line is no block. `Appended` writes all of a
line, all but the newline, or less; what follows an unfinished line runs into it
and makes the file bad. `index.json` changes only by its rename, so it is never
half written; `index.json.tmp` is not looked at. `rebuildIndex` ranges over a Go
map, so `Rebuilt` is the set of its possible results. `TooLong` are blocks whose
line exceeds the buffer of `bufio.Scanner`. A snapshot is a pair of files,
`epoch_N.json` and `epoch_N.json.tmp`; the latter also matches the pattern of
`LoadLatestSnapshot`.

`FileStores` has one action per file operation: `AppendBlock` (append and maps),
`WriteIndex`, `WriteTmp`, `Rename`, a failing variant of each, and `Crash`
between any two. `OpenStores` is `NewFileBlockStore`. The variables `may`,
`acked`, `maySnap`, `ackedSnaps` are not in the code: they record what a caller
knows, and the properties are stated in them.

Assumed of the disk: files keep what was written, in order, and only the last
write may be cut short. Nothing is synced in the code, so after a power failure
the operating system might break this; a crash of the process does not.

### The node

`Node` makes a save one step: `SaveBlock` succeeds, or `SaveBlockFails` before
the append, in it, or at the index, when the maps have changed. A call of the
engine either gets past its save (`AddBlock`, `AddBlockExternal` with a
successful `SaveBlock`) or ends there (`EndsInSave`), with the clock advanced, the
snapshot frozen, a batch popped, and nothing inserted, rewarded or slashed. The
process may die in the save or between calls. Snapshots are saved as they are
frozen; an error is ignored and may leave a temporary file. `Start` opens the
stores and is one of `StartFresh`, where an error in saving genesis is ignored,
`Restore`, or a failed start, which may have rebuilt the index. After a restart
validators, stats, genesis balances, mempool and slot producers are empty and the
tick is 0. The PoH seed is that of `DeterministicPoH`, as in `main.go`, so every
life has the same genesis block and the same PoH hash for a tick. With a seed
taken from the clock a block made again in a later life would have another hash.

## Runs

| Run | Question | Bounds |
|---|---|---|
| `registry` | do stake floor, strike threshold and keys survive every order of operations? | 2 names, one of them "genesis", 2 keys and the empty one, amounts -1..4, 3 slots, epochs of 2 |
| `pipeline` | mempool and ledger with competing, waiting, overdrawing, resubmitted and badly signed transactions, while blocks are lost | 7 transactions, 2 per block, a producer that is also a sender, or none |
| `forks` | every tree of up to 5 blocks by 3 validators of stakes 14, 4, 3: finality, fork choice, snapshots, strikes and sentences | 2 epochs, finality 3, depth 2, 10% threshold, 1 strike: each of the four guards refuses something, a query freezes epoch 1 early |
| `ledger` | mempool, batches and forks while validators join and none leaves; the reorg counters are reset in between | 3 slots, 2 validators, good, bad and empty keys, 2 pooled transfers, a batch that competes with one and a wrongly signed one |
| `removal` | validators leave while snapshots and blocks name them; balances are overwritten and queries come in between | 4 slots, 2 per epoch |
| `filestores` | both stores with failures and crashes at every file operation | genesis, two blocks on it, one on the first, one line too long; 2 epochs, 2 contents |
| `restart` | the engine on its stores over three lives, `VerifyChain` included | 1 validator that registers anew in each life, 2 slots per life in one epoch, 3 starts |

The runs of the engine stop at `MaxSlot` and `MaxStarts`, and the stores may end
up unreadable: those runs do not check for deadlock. `registry` and `pipeline`
do; there, nothing can end because callers can always try something. The
parameters of the code (minimum 10, 20 ticks, 50 slots per epoch, 3 strikes) are
constants; the runs use small ones so that thresholds, epoch changes and removals
happen within a few slots. Five slots are enough for a two-block reorg over a
two-block branch above a finalized block.

`OneStoreInUse` is a bound of `filestores`: block store and snapshot store share
no file and no variable but the process, so a behaviour uses one of them. Four
blocks give a fork at height 1 and a block above one of its branches; each may be
saved again, and the number of starts and crashes is not bounded. Two slots in each of three lives give
a chain, a fork at each height, and slots that are used again after a restart.

In one life two branches are never compared by hash, because no slot holds two
blocks (`OneBlockPerSlot`); the order of hashes is arbitrary there. After a
restart slots repeat, and `MCNode` orders hashes by a numbering of the branches.

### Disagreements with the documentation

Five runs show, by a counterexample, that the code does not do what the
repository's documents say:

* `finalized_slots`: finality looks only at the undone blocks of the old branch
  (blockchain.go:456). After slots 1 and 4 are canonical and slot 2 is final but
  empty, a branch with a block in slot 2 can become canonical: "Reorgs cannot
  touch finalized slots" (README.md:109) holds for blocks
  (`FinalizedBlocksStay`), not for slots.
* `jail_sentence`: a sentence runs from the missed slot but is imposed when a
  later block becomes canonical; the snapshots of its epochs may already be
  frozen with the validator in them (README.md:53).
* `removed_producer`: the ledger is replayed with the reward addresses of today.
  A producer that has been slashed out of the registry has none, so its fees
  vanish from the rebuilt ledger, which no longer matches the tip's `StateRoot`
  (Project.md:113).
* `acknowledged_found`: what has been acknowledged is not always found by the next
  start (Project.md:60, "Node survives restart"). A block of 64 KiB is saved but too
  long for the buffer of `bufio.Scanner` (storage_file.go:166). An append that stops
  in the middle of its line leaves a file that `loadBlocks` refuses, nothing repairs
  it, and the line of the next save, which is acknowledged, runs into it (line 208).
  A torn `epoch_N.json.tmp` matches the pattern of `LoadLatestSnapshot` (line 287)
  and hides `epoch_N.json`. Each clause of the property is violated by one of these,
  and TLC reports one of the shortest behaviours. `NothingLost` and the other
  properties of the stores therefore speak of stores that open.
* `restored_tip`: the stored tip is the block saved last at the greatest height
  (storage_file.go:64), whatever fork choice said, and `RestoreFromStorage` takes
  it together with one block per height. A restart after a fork may come back
  with a block the engine had left aside, where Project.md:85 says "Restore
  canonical tip". It may even come back with a chain that ends, downwards, at a
  block whose parent was overwritten at its height: `NodeTypeOK` says no more than
  that the restored chain is a suffix of the tip's branch.

`ledger` therefore lets no validator leave when it checks `LedgerMatchesTip`, and
`restart` states what does hold: `RestoredExtends` (with one branch in the store
the restored chain extends the canonical one) and `TipNotLower`.

Other consequences of the code that the model has and that no run is spent on:

* The threshold is asked of every better branch, also of a block on top of the
  canonical tip (blockchain.go:467). The block of a light leader is stored and
  rewarded but never becomes canonical, its batch is lost and its slot counts as
  missed. `LoseBlock` of `TxPipeline` stands for it too.
* `processMissedSlots` takes the leader "genesis" for nobody (blockchain.go:769),
  and `AddValidator` accepts the name (pos.go:22): such a validator leads slots and
  misses them without a strike. `registry` has one; `MissedSlotsCounted` is about
  the others.
* `RestoreFromStorage` ignores an error in saving genesis (recovery.go:18). Blocks are
  then saved above a height that the store does not have, and no later start gets past
  `GetRange`. This is the premise of `RestartsSafely`.
* Genesis balances are in no file: after a restart the ledger is replayed from an
  empty one (recovery.go:51) and need not be the one the restored tip commits to.
* After a restart slots are used again and `registerSlotProducer` does not know the
  stored blocks: a second block of a leader in a slot is no equivocation to it.
  `OneBlockPerSlot` speaks of one life.

### Liveness

`PendingServed` (`pipeline`) assumes a driver, which the repository does not have
beyond a script: one that keeps calling `AddBlock`, and again and again one of the
blocks becomes canonical. Any number of blocks may be lost between two of them, and
nothing is assumed about users. The model has the parity of the canonical height
and asks that it changes infinitely often; what the run shows is that, given such a
driver, selection passes over no transaction for ever.

The engine itself has no other promise of progress: it only moves when it is
called. Nor have the stores: a node that cannot read its files stays down.

## Proofs

The theorems hold for all values of the constants that satisfy the named
assumptions (`NamesAssumption`, `KeysAssumption`, `StakingAssumption`,
`RegistryBounds`, `ConfigAssumption`, `WorldAssumption`, `PipelineAssumption`,
`StoresAssumption`, `StartsAssumption`), which the passing runs evaluate. They say what the code's
types and its configuration say: amounts, fees and nonces are natural numbers, the
genesis ledger is a finite map from addresses to accounts, and so on.

The proof modules build on each other:

```
LedgerProofs -- BlockchainProofs -- DisciplineProofs -- CanonicalProofs --+
     |                                                                    +-- NodeProofs
     PipelineProofs                          StorageFileProofs -----------+
                                                   |
                                                   FileStoreProofs
```

Registry and engine:

* `RegistrySafe` - types, `StakeFloor` and `StrikesPunished` are invariants of
  the registry. The conjunction is inductive (`RegistryInv`): a slash needs the
  types to know that what it leaves is a natural number, a strike needs the
  previous bound. `RegistryTypesHold`, `StrikesPunishedHolds` follow.
* `KeysStableHolds` - no step of the registry replaces keys.
* `ThresholdPunishedHolds` - the epoch written into a sentence is later than the
  epoch of the slot it is written for (`EpochsLater`), and what a slash takes is
  not zero (`SlashTakesStake`).
* `ChainInvariant` - the inductive invariant `ChainInv` of the engine. `TreeInv`:
  every block is a branch from genesis with strictly rising slots, none is ahead
  of the clock, and no two end in the same slot. `ProducersInv`: the producers on
  record are of past slots, so no equivocation is ever found. `CanonicalInv`: the
  chain is the tip's, and finality and judgement are where the tip puts them. The
  reason for all three is that each attempt takes a slot of its own
  (`NextSlotIsNext`), so a new block is ahead of all others; and that a new
  block's parent is in the tree, so that no walk stops early.
* `OneBlockPerSlotHolds`, `TipNeverBehindHolds` follow at once.
* `FinalizedBlocksStayHolds` - `AdoptedIsLate` (the guard), `DivergenceProperties`
  (before the divergence the branches agree) and rising slots give
  `LateDivergenceKeepsFinalized`: a finalized block lies before the divergence.
  The depth limit and the threshold are not needed.
* `EngineImplementsFinalizedLog` - the refinement; `FinalizedPrefix` shows that
  the finalized headers are a prefix of the chain.

Snapshots, discipline and fork choice:

* `SnapshotInvariant` - `SnapshotInv` adds to `ChainInv` that the draw of every
  slot with a block is known, that a snapshot holds registered names with stakes
  that count, and that each block's header is by the leader of its slot.
  `processMissedSlots` is the hard part: it passes the snapshots through a loop
  that both penalises and freezes. The loop is a recursive function; `RunExists`
  and `RunKeeps` show that it exists and what all its values have by looking at
  the first slot for which they do not. `SnapshotsFrozenHolds` and
  `BlocksByLeadersHolds` follow, the second because leader and weight of a header
  depend on frozen stakes and a drawn number only (`ByLeaderStays`).
* `DisciplineInvariant` - `DisciplineInv` joins `SnapshotInv` and `RegistryInv`
  and adds that no sentence on record reaches further than one written for the
  last judged slot. Slots are judged in order, once, so the next sentence is as
  long or longer (`JailedUntilMonotone`, `JudgedDisciplines`). Hence
  `SentencesStandHolds`, and with it `EngineKeepsRegistry` and `EngineKeepsKeys`:
  what the registry promises it promises inside the engine too.
* `HeavierOnlyHolds` - the weights that `scoreTip` computes in the middle of a
  call are the weights the branches have after it, and ever after
  (`ScoreIsWeight`, `WeightStays`): the epochs of both branches are frozen before
  they are scored. The threshold that `Verdict` compares with is that of the same
  snapshots. The depth guard and `DivergenceProperties` bound what is undone.
* `CanonicalIsBestHolds` - the inductive invariant `BestInv` says besides that
  every ancestor of a block is in the tree (`Rooted`), so that `updateCanonical`
  never gives up for a missing one, and that the counters only grow. A chain that
  beats all blocks of the tree and is replaced only by one that beats it beats
  them all; that the comparison is total needs weights to be numbers
  (`WeightIsNat`), which rests on `SumExists`, `SumUnique` and `SumIsNat`, shown by
  looking at a smallest set for which they fail (`SmallestBad`). The theorem
  assumes that `ResetReorgStats` is not among the calls: it would clear the
  counters that tell whether a guard has refused a branch.

Ledger and mempool:

* `LedgerProofs` has what the other modules need. `ApplyTransactions`,
  `PopForBlock` and `Replay` are recursive functions over an index; `UpTo`
  looks at the first index for which a claim fails, which is induction without an
  induction principle. `ApplyOneMore` says that a batch applies iff all but its
  last transaction do and the last applies to what they leave. `Total`, the sum of
  the balances, is taken over a finite set; that it does not depend on the
  order is shown by looking at a smallest set for which it would
  (`SmallestBad`). `PickIsGood` is the invariant of the loop in `PopForBlock`.
* `PoolInv`, the inductive invariant of the mempool: the list is in the order of
  fees and nonces, has no transaction twice and has those in the hash map. `sort.Slice` is
  any permutation that is in order; both inserting and popping keep `PoolInv`
  whichever it is. `InSync`, `Priority` follow.
* `Applies` - what `PickIsGood` says of the whole batch.
* `ReplayFree` - the strengthening ties the nonce of every account to the
  transactions settled so far. The nonces of a batch that applies are consecutive
  for each sender (`NoncesRun`), so none of them was on the chain before. A lost
  block changes the pool only. `MoneyKept` - a transaction moves its amount and its
  fee, also when sender, receiver and producer coincide (`TxTotal`); canonical
  blocks have a producer with an address, so no fee is lost.

The engine's ledger (`CanonicalProofs`):

* `EngineTypes` - the inductive invariant `TypedInv` adds to `DisciplineInv` that
  the headers of all blocks are typed, that what they commit to are ledgers, and
  that the mempool keeps `PoolInv`. A ledger from a replay is one because every
  transaction of a block is typed and `ApplyTransactions` never leaves a negative
  balance.
* `PoppedIntoBlockHolds` - what was selected on the parent's ledger applies to
  it again, so `verifyBlockOnAccept` cannot refuse a block of popped transactions;
  the loss of a leader's slot is the only other way out of the pool.
* `LedgerMatchesTipHolds`, `SupplyConservedHolds`, `ChainVerifiesHolds` - the
  inductive invariant `FollowInv`: the replay of every branch of the tree, from
  today's genesis ledger and with today's registry, ends with the `StateRoot` of
  its last block and with the sum of the genesis balances, and its blocks still
  verify. Two hypotheses are needed, and the code violates the theorems without
  them. `ProducersStay`: nobody who made a block has left the registry, whose
  addresses the replay reads (run `removed_producer`). `BalancesFirst`:
  `SetBalance` is not called after the first block; later it would change ledger and
  genesis ledger in different ways, as `PROJECT.json` lists under its hazards.
  Keys never change (`KeepsKeys`), so with them the replay of an old branch pays
  the same addresses as it did, whatever strikes, slashes and reorgs have come
  between.

Stores:

* `StoresInvariant` - the inductive invariant of `FileStores`: while the file is
  good, every acknowledged block and every block an index leads to is in it; the
  maps and the index lead from a height to a block of that height, the tip is
  the block of the greatest one; and `may` allows, for each height, whatever the
  index or the maps would give if the store opened now. The appended block that
  is not yet in the index is the reason why `may` is a set.
* `TypesHold`, `NothingLostHolds`, `ReadsSucceedHolds` are parts or consequences.
* `BlockStoreImplementsDurableMap` - the refinement: each file operation is a
  `Write`, an `Attempt`, an `Acknowledge`, a stop, an opening or a stutter of
  `DurableMap`, with `value` read off the maps.
* `LatestSnapshotSavedHolds` - the inductive invariant `SnapFilesInv`: every file
  and temporary file holds a set that was saved or tried for its epoch, an
  acknowledged epoch has its file, and as only finitely many saves have been made
  one of the epochs is the latest, so that the maximum `LoadLatestSnapshot` looks
  for exists.

Node:

* `NodeInvariant` - the inductive invariant `NodeInv`. `DiskInv`: once genesis is
  in a good file, the heights of the stored blocks have no gaps. `IndexInv`: nor
  have the heights of the index, however far behind it is, and it leads to stored
  blocks only. `MemInv`: the maps know every height of the engine's tree, unless
  a failed append of genesis has left a file to which nothing can be added
  without breaking it. `EngineInv` and `TreeOnDisk`: the tip is in the tree, and
  the tree is on disk as long as the file is good. The argument is that a new block's parent is in the tree,
  hence on disk and in the maps, so that its height closes up to the ones below.
* `RestartsSafelyHolds` follows.
* `TipNotLowerHolds`, `RestoredExtendsHolds` - `RestartInv` adds that the index is
  never behind the canonical tip and the maps never behind the index: a save
  that fails leaves them where they were or ahead, and an engine call that ends
  in its save leaves the tip alone. So what the next start opens leads at least as
  high. If the stored blocks are one branch, there is one block per height, so that
  what `rebuildCanonicalChain` reads by height is the branch of the stored tip
  (`RangeIsBranch`), and the chain of the engine was a prefix of it.
* `NodeTypes` - `NodeTypeOK` over any restarts. After a restart the clock starts
  again, so slots no longer rise along a branch, a slot may have two blocks and a
  chain may end, downwards, at a block whose parent is gone: the invariants of
  the engine's first life (`ChainInv`, on which `TypedInv` rests) do not hold in
  later ones. `NodeTyped` rests on none of this. It says that every block is typed,
  in the tree (`EngineTyped`) and in the file (`FilesTyped`), and that the chain
  ends with the tip. So whatever a start reads back, and replays without validators
  and without genesis balances, gives a ledger again (`ReplayTyped` asks for typed
  transactions only), and so does every reorg, equivocation and missing parent
  after it (`AcceptTyped`).

Only model-checked:

* `PendingServed`: liveness is out of the prover's reach.
* `MissedSlotsCounted`: that the strikes of a validator are the number of slots it
  has missed needs an induction over the judged slots that counts.
* The disagreements above are counterexamples; there is nothing to prove.

## Not modelled

* 64-bit arithmetic in `ApplyTransactions`, stakes and weights: the model's
  integers do not wrap.
* Readers of the stores and of the mempool in other threads: all operations hold
  their mutex from beginning to end, and the program starts no goroutine.
* A start with the clock as PoH seed (`DeterministicPoH` off), see above.
* The contents of `state_root` in a snapshot file, which `RestoreFromStorage`
  reads and drops.
* Encodings and file formats beyond what a crash can tear, logging, printing, key
  generation, `GetValidatorSummaries` and the other calls that only read.
* `DeterministicLeader` and `VerifyLeader`: nothing calls them.
* The simulation script, the unused network and signer ports and the memory
  store, which nothing opens.

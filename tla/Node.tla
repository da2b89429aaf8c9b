------------------------------- MODULE Node -------------------------------
(* The engine with its file stores: app.NewNode, RestoreFromStorage          *)
(* (core/recovery.go), and every engine call with the saves it makes.        *)
(* FileStores has the steps inside a save; here a save succeeds or fails in  *)
(* one step, and the process may die between calls or in a save.             *)
(*                                                                           *)
(* While the node is down the engine's variables keep their last values,     *)
(* which nothing reads.  The PoH seed is fixed (DeterministicPoH, as in      *)
(* main.go), so every start has the same genesis block and the same hashes.  *)
EXTENDS Blockchain, StorageFile

CONSTANT MaxStarts  \* a bound of the model

ASSUME StartsAssumption == MaxStarts \in Nat

VARIABLES
  up,      \* the node has started
  disk,    \* blocks.jsonl
  index,   \* index.json
  mem,     \* the maps of FileBlockStore
  files,   \* snapshots/
  starts   \* how often it has started

blockStore == <<disk, index, mem>>
nodeVars == <<vars, up, blockStore, files, starts>>

-----------------------------------------------------------------------------
(* Saves.                                                                    *)

\* Faulty: the index is written before the maps change.
SaveBlockIndexFirst(m, i, hash) ==
  /\ disk' = Appended(disk, hash, "whole")
  /\ mem' = Saved(m, hash)
  /\ index' = IndexOf(m)

\* SaveBlock on the maps m and the index i returns no error.
SaveBlock(m, i, hash) ==
  /\ disk' = Appended(disk, hash, "whole")
  /\ mem' = Saved(m, hash)
  /\ index' = IndexOf(Saved(m, hash))

\* Faulty: the maps change only after the index is written.
SaveBlockFailsTidily(m, i, hash) ==
  /\ disk' \in {disk} \cup {Appended(disk, hash, cut) : cut \in Cuts}
  /\ mem' = m
  /\ index' = i

\* SaveBlock fails before it writes, in the append, or at the index.
SaveBlockFails(m, i, hash) ==
  /\ \/ disk' \in {disk} \cup {Appended(disk, hash, cut) : cut \in Cuts \ {"whole"}}
        /\ mem' = m
     \/ disk' = Appended(disk, hash, "whole") /\ mem' = Saved(m, hash)
  /\ index' = i

\* ensureSnapshot saves each snapshot it freezes and ignores an error, which
\* may leave epoch_N.json.tmp behind, in part or complete.
SaveSnapshots ==
  LET new == DOMAIN snapshots' \ DOMAIN snapshots
  IN \E save \in [new -> {"renamed", "written", "torn", "lost"}] :
       LET Ended(how) == {e \in new : save[e] = how}
       IN files' =
            [json |-> [e \in DOMAIN files.json \cup Ended("renamed") |->
                         IF e \in Ended("renamed") THEN snapshots'[e]
                         ELSE files.json[e]],
             tmp |-> [e \in (DOMAIN files.tmp \ Ended("renamed"))
                               \cup Ended("written") \cup Ended("torn") |->
                        CASE e \in Ended("written") -> {snapshots'[e]}
                          [] e \in Ended("torn") -> {}
                          [] OTHER -> files.tmp[e]]]

-----------------------------------------------------------------------------
(* Starts.                                                                   *)

\* What NewBlockchain sets and no store changes.
FreshEngine ==
  /\ validators' = EmptyMap
  /\ stats' = [n \in Names |-> ZeroStats]
  /\ lastProcessed' = 0
  /\ list' = <<>>
  /\ byHash' = {}
  /\ tick' = 0
  /\ genesis' = EmptyMap
  /\ slotProducers' = EmptyMap
  /\ equivocations' = <<>>
  /\ reorgStats' = [Info |-> 0, Warn |-> 0, Error |-> 0, Critical |-> 0]
  /\ UNCHANGED draws

\* Faulty: the subtraction is not guarded.
FinalityOf(slot) == slot - FinalitySlots

\* updateFinality of an engine that has finalized nothing.
FirstFinality(slot) == IF slot >= FinalitySlots THEN slot - FinalitySlots ELSE 0

\* A fresh store: an error in saving the genesis block is ignored.
StartFresh(m) ==
  /\ FreshEngine
  /\ blocks' = {GenesisBlock}
  /\ tip' = GenesisBlock
  /\ chain' = GenesisBlock
  /\ state' = EmptyMap
  /\ finalized' = 0
  /\ snapshots' = EmptyMap
  /\ \/ SaveBlock(m, IndexOf(m), GenesisBlock)
     \/ SaveBlockFails(m, IndexOf(m), GenesisBlock)

\* RestoreFromStorage finds what it needs.
CanRestore(m) ==
  /\ SnapshotEpochs(files) # {} => LatestSnapshot(files) # {}
  /\ GetRangeOk(m, Height(m.tip))

\* The last block saved at each height up to the tip, the latest snapshot, and
\* a replay without validators and without genesis balances.
Restore(m) ==
  LET known == GetRange(m, Height(m.tip))
      branch == Walk(known, m.tip)
      replayed == Replay(branch, EmptyMap, EmptyMap)
  IN /\ FreshEngine
     /\ blocks' = known
     /\ tip' = m.tip
     /\ chain' = branch
     /\ state' = IF replayed.ok THEN replayed.st ELSE EmptyMap
     /\ finalized' = FirstFinality(branch[Len(branch)].Slot)
     /\ snapshots' = [e \in {x \in SnapshotEpochs(files) : x = LatestEpoch(files)} |->
                        CHOOSE set \in LatestSnapshot(files) : TRUE]
     /\ mem' = m
     /\ index' = IndexOf(m)
     /\ UNCHANGED disk

\* NewNode.  A start that fails may have rebuilt the index.
Start ==
  /\ ~ up
  /\ starts < MaxStarts
  /\ Loadable(disk)
  /\ UNCHANGED files
  /\ \E m \in Opened(disk, index) :
       \/ /\ GetTipOk(m) => CanRestore(m)
          /\ IF GetTipOk(m) THEN Restore(m) ELSE StartFresh(m)
          /\ up' = TRUE
          /\ starts' = starts + 1
       \/ /\ GetTipOk(m) /\ ~ CanRestore(m)
          /\ index' = IndexOf(m)
          /\ UNCHANGED <<vars, up, disk, mem, starts>>

Crash == up /\ up' = FALSE /\ UNCHANGED <<vars, blockStore, files, starts>>

-----------------------------------------------------------------------------
(* Calls.                                                                    *)

\* The draw of a slot is the same in every life of the node.
DrawFits(draw) ==
  Slot(NextTick) \in DOMAIN draws => draws[Slot(NextTick)] = draw

\* A call that gets as far as SaveBlock ends there: with an error, or because
\* the process dies in the save or right after it.
EndsInSave(hash) ==
  /\ \/ SaveBlockFails(mem, index, hash) /\ up' \in BOOLEAN
     \/ SaveBlock(mem, index, hash) /\ up' = FALSE
  /\ snapshots' = SnapshotsNow
  /\ UNCHANGED <<registryVars, chainVars, genesis, slotProducers, equivocations>>

NodeAddBlock(batch, draw) ==
  LET txs == TxsNow(batch, draw)
      hash == Append(tip, NewHeader(state, txs, draw))
  IN \/ /\ AddBlock(batch, draw)
        /\ IF CanMakeBlock(state, txs, draw)
           THEN SaveBlock(mem, index, hash)
           ELSE UNCHANGED blockStore
        /\ UNCHANGED up
     \/ /\ DOMAIN validators # {}
        /\ TickSlot(draw)
        /\ IF batch = <<>> THEN Popped(PickNow(draw)) ELSE UNCHANGED mempoolVars
        /\ CanMakeBlock(state, txs, draw)
        /\ EndsInSave(hash)

NodeAddBlockExternal(parent, batch, draw) ==
  LET base == stateAtTip(parent)
      hash == Append(parent, NewHeader(base.st, batch, draw))
      made == base.ok /\ CanMakeBlock(base.st, batch, draw)
  IN \/ /\ AddBlockExternal(parent, batch, draw)
        /\ IF made THEN SaveBlock(mem, index, hash) ELSE UNCHANGED blockStore
        /\ UNCHANGED up
     \/ /\ DOMAIN validators # {}
        /\ TickSlot(draw)
        /\ UNCHANGED mempoolVars
        /\ made
        /\ EndsInSave(hash)

\* The calls that make no block save at most snapshots.
NodeOtherCall == OtherCall /\ UNCHANGED <<up, blockStore>>

Call ==
  /\ up
  /\ \/ \E batch \in Batches \cup {<<>>}, draw \in Draws :
          DrawFits(draw) /\ NodeAddBlock(batch, draw)
     \/ \E parent \in blocks, batch \in Batches \cup {<<>>}, draw \in Draws :
          /\ "AddBlockExternal" \in Calls
          /\ DrawFits(draw)
          /\ NodeAddBlockExternal(parent, batch, draw)
     \/ NodeOtherCall
  /\ SaveSnapshots
  /\ UNCHANGED starts

-----------------------------------------------------------------------------
\* Before the first start the data directory is empty.
NodeInit ==
  /\ Init
  /\ up = FALSE
  /\ disk = EmptyFile
  /\ index = EmptyIndex
  /\ mem = EmptyStore
  /\ files = NoFiles
  /\ starts = 0

NodeNext == Start \/ Crash \/ Call

NodeSpec == NodeInit /\ [][NodeNext]_nodeVars

-----------------------------------------------------------------------------
(* Properties.                                                               *)

NodeTypeOK ==
  /\ up \in BOOLEAN
  /\ starts \in 0..MaxStarts
  /\ tip \in blocks
  /\ chain # <<>> /\ IsSuffix(chain, tip)
  /\ IsLedger(state) /\ IsLedger(genesis)
  /\ finalized \in Nat
  /\ DOMAIN snapshots \subseteq Nat
  /\ \A e \in DOMAIN snapshots : DOMAIN snapshots[e] \subseteq Names
  /\ DOMAIN files.json \subseteq Nat

\* "Persist genesis so the node can restart safely" (recovery.go): once the
\* genesis block is in the file, a file that can be read is enough to start
\* from, whatever saves failed or were interrupted before and after, as long
\* as no failed save of a snapshot has left half a file for the latest epoch.
RestartsSafely ==
  /\ Loadable(disk) /\ GenesisBlock \in ReadBack(disk)
  /\ SnapshotEpochs(files) # {} => LatestSnapshot(files) # {}
  => \A m \in Opened(disk, index) : GetTipOk(m) /\ CanRestore(m)

Restarts == ~ up /\ up'

\* "Restore tip" (Project.md), when the stored blocks are one branch: a restart
\* brings back the canonical chain, with at most blocks added that were saved
\* and not adopted, through any sequence of crashes and failing saves.
RestoredExtends ==
  [][Restarts /\ (\A a, b \in ReadBack(disk) : IsPrefix(a, b) \/ IsPrefix(b, a))
       => IsPrefix(chain, chain')]_nodeVars

\* With forks in the store the restored tip may be on another branch, but it
\* is never lower than the canonical tip was.
TipNotLower == [][Restarts => Len(tip') >= Len(tip)]_nodeVars

\* "Restore canonical tip" (Project.md), taken by its word: if the engine knew
\* just the blocks of the store when it stopped, it starts with the tip it had.
RestoresCanonicalTip ==
  [][Restarts /\ blocks = ReadBack(disk) => tip' = tip]_nodeVars
=============================================================================

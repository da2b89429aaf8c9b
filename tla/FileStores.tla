----------------------------- MODULE FileStores -----------------------------
(* FileBlockStore and FileSnapshotStore (adapters/storage_file.go) under     *)
(* crashes and failing writes.  The engine calls them from one goroutine, so *)
(* one call at a time is on its way; each of its file operations is a step,  *)
(* and between any two the process may die.                                  *)
EXTENDS StorageFile

CONSTANTS
  Blocks,    \* arguments of SaveBlock
  Epochs,    \* and of SaveEpochSnapshot
  Contents

ASSUME StoresAssumption ==
  /\ NoBlock \notin Blocks
  /\ \A b \in Blocks : Height(b) \in Nat
  /\ Epochs \subseteq Nat

VARIABLES
  up,      \* the process runs and its stores are open
  disk,    \* blocks.jsonl
  index,   \* index.json
  mem,     \* the maps of FileBlockStore; after a crash, their last values
  saving,  \* the block between its append and the index that leads to it
  files,   \* snapshots/
  naming,  \* {the epoch whose file is complete but not yet renamed}
  \* Observability variables: what callers know.
  may,     \* height -> the blocks it may lead to after a crash
  acked,   \* the blocks whose SaveBlock has returned no error
  maySnap,    \* epoch -> the validator sets its file may hold
  ackedSnaps  \* the epochs whose SaveEpochSnapshot has returned no error

blockVars == <<disk, index, mem, saving, may, acked>>
snapVars == <<files, naming, maySnap, ackedSnaps>>
vars == <<up, blockVars, snapVars>>

Heights == {Height(b) : b \in Blocks}

\* GetBlockByHeight
At(i, k) == IF k \in DOMAIN i.heights THEN i.heights[k] ELSE NoBlock

Idle == up /\ saving = NoBlock /\ naming = {}

Try(block) == may' = [may EXCEPT ![Height(block)] = @ \cup {block}]

-----------------------------------------------------------------------------
\* NewFileBlockStore: the index it may have to rebuild is written, or it fails.
OpenStores ==
  /\ ~ up
  /\ Loadable(disk)
  /\ up' = TRUE
  /\ \E m \in Opened(disk, index) :
       /\ mem' = m
       /\ index' = IndexOf(m)
       /\ may' = [k \in Heights |-> {At(m, k)}]
  /\ UNCHANGED <<disk, saving, acked, snapVars>>

\* SaveBlock up to the change of the maps.
AppendBlock(block) ==
  /\ Idle
  /\ disk' = Appended(disk, block, "whole")
  /\ mem' = Saved(mem, block)
  /\ saving' = block
  /\ Try(block)
  /\ UNCHANGED <<up, index, acked, snapVars>>

\* An error in the middle of the append: SaveBlock returns it.
AppendFails(block, cut) ==
  /\ Idle
  /\ disk' = Appended(disk, block, cut)
  /\ Try(block)
  /\ UNCHANGED <<up, index, mem, saving, acked, snapVars>>

\* writeIndex reaches its rename: SaveBlock has succeeded.
WriteIndex ==
  /\ saving # NoBlock
  /\ index' = IndexOf(mem)
  /\ saving' = NoBlock
  /\ may' = [may EXCEPT ![Height(saving)] = {At(mem, Height(saving))}]
  /\ acked' = acked \cup {saving}
  /\ UNCHANGED <<up, disk, mem, snapVars>>

\* writeIndex fails: SaveBlock returns an error, but the maps have changed.
WriteIndexFails ==
  /\ saving # NoBlock
  /\ saving' = NoBlock
  /\ UNCHANGED <<up, disk, index, mem, may, acked, snapVars>>

\* SaveEpochSnapshot up to its rename.
WriteTmp(epoch, set) ==
  /\ Idle
  /\ files' = WithTmp(files, epoch, {set})
  /\ naming' = {epoch}
  /\ maySnap' = [maySnap EXCEPT ![epoch] = @ \cup {set}]
  /\ UNCHANGED <<up, blockVars, ackedSnaps>>

\* An error in the middle of writing the temporary file.
WriteTmpFails(epoch) ==
  /\ Idle
  /\ files' = WithTmp(files, epoch, {})
  /\ UNCHANGED <<up, blockVars, naming, maySnap, ackedSnaps>>

Rename ==
  \E epoch \in naming : \E set \in files.tmp[epoch] :
    /\ files' = Renamed(files, epoch, set)
    /\ naming' = {}
    /\ maySnap' = [maySnap EXCEPT ![epoch] = {set}]
    /\ ackedSnaps' = ackedSnaps \cup {epoch}
    /\ UNCHANGED <<up, blockVars>>

RenameFails ==
  /\ naming # {}
  /\ naming' = {}
  /\ UNCHANGED <<up, blockVars, files, maySnap, ackedSnaps>>

Crash ==
  /\ up
  /\ up' = FALSE
  /\ saving' = NoBlock
  /\ naming' = {}
  /\ UNCHANGED <<disk, index, mem, files, may, acked, maySnap, ackedSnaps>>

-----------------------------------------------------------------------------
Init ==
  /\ up = FALSE
  /\ disk = EmptyFile
  /\ index = EmptyIndex
  /\ mem = EmptyStore
  /\ saving = NoBlock
  /\ files = NoFiles
  /\ naming = {}
  /\ may = [k \in Heights |-> {NoBlock}]
  /\ acked = {}
  /\ maySnap = [e \in Epochs |-> {}]
  /\ ackedSnaps = {}

Next ==
  \/ OpenStores
  \/ \E block \in Blocks : AppendBlock(block)
  \/ \E block \in Blocks, cut \in Cuts \ {"whole"} : AppendFails(block, cut)
  \/ WriteIndex
  \/ WriteIndexFails
  \/ \E epoch \in Epochs, set \in Contents : WriteTmp(epoch, set)
  \/ \E epoch \in Epochs : WriteTmpFails(epoch)
  \/ Rename
  \/ RenameFails
  \/ Crash

Spec == Init /\ [][Next]_vars

-----------------------------------------------------------------------------
(* Properties.                                                               *)

IsIndex(i) ==
  /\ DOMAIN i.heights \subseteq Heights
  /\ \A k \in DOMAIN i.heights : i.heights[k] \in Blocks /\ Height(i.heights[k]) = k
  /\ i.tip \in Blocks \cup {NoBlock}

TypeOK ==
  /\ up \in BOOLEAN
  /\ disk.lines \subseteq Blocks /\ disk.open \subseteq Blocks
  /\ disk.ended \in BOOLEAN /\ disk.bad \in BOOLEAN
  /\ disk.ended => disk.open = {}
  /\ IsIndex(index) /\ IsIndex(mem)
  /\ mem.blocks \subseteq Blocks
  /\ saving \in Blocks \cup {NoBlock}
  /\ naming \subseteq Epochs
  /\ may \in [Heights -> SUBSET (Blocks \cup {NoBlock})]
  /\ acked \subseteq Blocks

Store == INSTANCE DurableMap
  WITH Keys <- Heights, Values <- Blocks, Missing <- NoBlock,
       open <- up, value <- [k \in Heights |-> At(mem, k)]

\* By height the block store is a durable map: what SaveBlock acknowledged is
\* there after any crash until the height is saved again, and what it did not
\* acknowledge is there or not, once and for all from the next start on.
ImplementsDurableMap == Store!StoreSpec

\* A store that opens has every block whose SaveBlock succeeded, by hash: a
\* crash in the middle of a later append makes it fail, never forget.
NothingLost == up => acked \subseteq mem.blocks

\* "Persistence: recover after restart" (Project.md) must not meet half of a
\* save: every height and the tip lead to a block that is there, and the tip
\* is the block its height leads to, at the greatest height of all.
ReadsSucceed ==
  up =>
    /\ \A k \in DOMAIN mem.heights : mem.heights[k] \in mem.blocks
    /\ mem.tip # NoBlock <=> DOMAIN mem.heights # {}
    /\ mem.tip # NoBlock =>
         /\ GetTipOk(mem)
         /\ At(mem, Height(mem.tip)) = mem.tip
         /\ \A k \in DOMAIN mem.heights : k <= Height(mem.tip)

\* LoadLatestSnapshot either fails or returns a validator set that was saved
\* last, or tried since, for its epoch; no acknowledged epoch is later than
\* that one.  LoadSnapshotByEpoch finds such a set as well.
LatestSnapshotSaved ==
  /\ SnapshotEpochs(files) # {} =>
       LET epoch == LatestEpoch(files)
       IN /\ LatestSnapshot(files) \subseteq maySnap[epoch]
          /\ \A e \in ackedSnaps : e <= epoch
  /\ \A e \in DOMAIN files.json : files.json[e] \in maySnap[e]
  /\ ackedSnaps \subseteq DOMAIN files.json

\* "Node survives restart" (Project.md): what the next start would find, if the
\* process died now, has all that has been acknowledged.  The file of blocks
\* can be read, every block whose SaveBlock returned no error is in it, and of
\* the acknowledged snapshots, or a later one, LoadLatestSnapshot finds one.
AcknowledgedFound ==
  /\ acked # {} => Loadable(disk)
  /\ acked \subseteq ReadBack(disk)
  /\ ackedSnaps # {} => LatestSnapshot(files) # {}
=============================================================================

---------------------------- MODULE StorageFile ----------------------------
(* The pure part of adapters/storage_file.go: what is in the files of the    *)
(* data directory, what each write leaves there, and what a reader finds.    *)
(*                                                                           *)
(* A block is a sequence: the hash that stands for it in Blockchain.  Files  *)
(* keep what was written to them, in order; a crash or an error may only cut *)
(* the last write short.  A write to index.json.tmp leaves nothing a reader  *)
(* looks at, so only the rename of the index appears here; an absent index   *)
(* is an empty one.                                                          *)
EXTENDS Integers, Sequences, FiniteSetsExt, Maps

CONSTANT TooLong  \* the blocks whose line exceeds the buffer of bufio.Scanner

\* The zero Block, and the empty hash of a block that is not there.
NoBlock == <<>>

\* Block.Index
Height(block) == Len(block) - 1

-----------------------------------------------------------------------------
(* blocks.jsonl: the complete lines, a block whose line lacks its newline,   *)
(* whether the file ends with a newline, and whether some line is no block.  *)

EmptyFile == [lines |-> {}, open |-> {}, ended |-> TRUE, bad |-> FALSE]

\* How much of a line gets written: all of it, all but the newline, less.
Cuts == {"whole", "open", "torn"}

\* appendBlock.  What follows a line that was cut short becomes part of it.
Appended(file, block, cut) ==
  LET fresh == file.ended /\ cut # "torn"
  IN [lines |-> IF fresh /\ cut = "whole" THEN file.lines \cup {block} ELSE file.lines,
      open |-> IF fresh /\ cut = "open" THEN {block} ELSE {},
      ended |-> cut = "whole",
      bad |-> file.bad \/ ~ fresh]

\* The blocks loadBlocks reads, if it reads the file without an error.
ReadBack(file) == file.lines \cup file.open

\* Faulty: lines that are no blocks are skipped.
LoadableAlways(file) == TRUE

Loadable(file) == ~ file.bad /\ ReadBack(file) \cap TooLong = {}

-----------------------------------------------------------------------------
(* index.json and the maps of FileBlockStore.                                *)

EmptyIndex == [heights |-> EmptyMap, tip |-> NoBlock]

\* Faulty: the tip stays with the first block of its height.
SavedHigher(mem, block) ==
  [blocks |-> mem.blocks \cup {block},
   heights |-> Put(mem.heights, Height(block), block),
   tip |-> IF Height(block) > Height(mem.tip) THEN block ELSE mem.tip]

\* Faulty: the last block saved is the tip, however low it is.
SavedLast(mem, block) ==
  [blocks |-> mem.blocks \cup {block},
   heights |-> Put(mem.heights, Height(block), block),
   tip |-> block]

\* Faulty: heights are counted from 1.
SavedFromOne(mem, block) ==
  [blocks |-> mem.blocks \cup {block},
   heights |-> Put(mem.heights, Height(block) + 1, block),
   tip |-> IF Height(block) >= Height(mem.tip) THEN block ELSE mem.tip]

\* SaveBlock after the append: the last block saved at a height is the one
\* that the height leads to.
Saved(mem, block) ==
  [blocks |-> mem.blocks \cup {block},
   heights |-> Put(mem.heights, Height(block), block),
   tip |-> IF Height(block) >= Height(mem.tip) THEN block ELSE mem.tip]

\* What writeIndex writes.
IndexOf(mem) == [heights |-> mem.heights, tip |-> mem.tip]

\* rebuildIndex.  Go visits a map in any order, so of the blocks at a height
\* any one may be the last.
OneOfEachHeight(known) ==
  LET levels == {Height(b) : b \in known}
  IN {f \in [levels -> known] : \A k \in levels : Height(f[k]) = k}

Rebuilt(known) ==
  IF known = {}
  THEN {EmptyIndex}
  ELSE UNION {{[heights |-> f, tip |-> top] :
                 top \in {f[k] : k \in {j \in DOMAIN f : \A l \in DOMAIN f : l <= j}}} :
                 f \in OneOfEachHeight(known)}

\* Faulty: an index that is there is rebuilt as well.
OpenedRebuilt(file, index) ==
  {[blocks |-> ReadBack(file), heights |-> i.heights, tip |-> i.tip] :
     i \in Rebuilt(ReadBack(file))}

\* load: what the maps may be after NewFileBlockStore.
Opened(file, index) ==
  {[blocks |-> ReadBack(file), heights |-> i.heights, tip |-> i.tip] :
     i \in IF DOMAIN index.heights = {} THEN Rebuilt(ReadBack(file)) ELSE {index}}

EmptyStore == [blocks |-> {}, heights |-> EmptyMap, tip |-> NoBlock]

GetTipOk(mem) == mem.tip # NoBlock /\ mem.tip \in mem.blocks

\* GetRange(0, top) meets no missing block.
GetRangeOk(mem, top) ==
  \A k \in 0..top : k \in DOMAIN mem.heights /\ mem.heights[k] \in mem.blocks

GetRange(mem, top) == {mem.heights[k] : k \in 0..top}

-----------------------------------------------------------------------------
(* snapshots/: per epoch a file epoch_N.json, and epoch_N.json.tmp if a save *)
(* did not get to its rename.  The latter holds {validator set}, or {} when  *)
(* it was cut short.                                                         *)

NoFiles == [json |-> EmptyMap, tmp |-> EmptyMap]

WithTmp(files, epoch, content) ==
  [json |-> files.json, tmp |-> Put(files.tmp, epoch, content)]

Renamed(files, epoch, set) ==
  [json |-> Put(files.json, epoch, set), tmp |-> Delete(files.tmp, epoch)]

SnapshotEpochs(files) == DOMAIN files.json \cup DOMAIN files.tmp

\* Faulty: the epochs are compared the wrong way round.
OldestEpoch(files) == Min(SnapshotEpochs(files))

LatestEpoch(files) == Max(SnapshotEpochs(files))

\* LoadLatestSnapshot.  Sscanf accepts epoch_N.json.tmp as well, and of the two
\* files of an epoch the one with the longer name comes last.  {} is an error.
LatestSnapshot(files) ==
  LET epoch == LatestEpoch(files)
  IN IF epoch \in DOMAIN files.tmp THEN files.tmp[epoch] ELSE {files.json[epoch]}
=============================================================================

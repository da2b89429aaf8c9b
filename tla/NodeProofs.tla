----------------------------- MODULE NodeProofs -----------------------------
(* The engine writes ahead, and a node that was started once can be started  *)
(* again, for any validators, transactions, forks, failing saves and crashes.*)
EXTENDS Node, StorageFileProofs, CanonicalProofs

(***************************************************************************)
(* The inductive invariant.  In a good file that has the genesis block     *)
(* every stored block has stored blocks below it, because its parent was   *)
(* in the engine's tree and the tree is written ahead.  The index lags     *)
(* behind, but what it has is contiguous too.  Memory may miss the genesis *)
(* block of a fresh store whose first save failed; then the file lacks it  *)
(* as well, or ends without a newline and the next append makes it bad.    *)
(***************************************************************************)

DiskInv ==
  /\ disk.ended => disk.open = {}
  /\ \A b \in ReadBack(disk) : IsBlock(b)
  /\ ~ disk.bad /\ GenesisBlock \in ReadBack(disk) => Contiguous(Levels(ReadBack(disk)))

IndexInv ==
  /\ IndexOk(index)
  /\ ~ disk.bad =>
       \A k \in DOMAIN index.heights : index.heights[k] \in ReadBack(disk)
  /\ ~ disk.bad /\ GenesisBlock \in ReadBack(disk) => Contiguous(DOMAIN index.heights)

MemInv ==
  up =>
    /\ IndexOk(mem)
    /\ ~ disk.bad => \A k \in DOMAIN mem.heights : mem.heights[k] \in ReadBack(disk)
    /\ ~ disk.bad /\ disk.ended /\ GenesisBlock \in ReadBack(disk) =>
         /\ Contiguous(DOMAIN mem.heights)
         /\ \A b \in blocks : Height(b) \in DOMAIN mem.heights

EngineInv ==
  up =>
    /\ tip \in blocks
    /\ \A b \in blocks : IsBlock(b)

\* As long as no write was cut short, the tree has no block the file lacks.
TreeOnDisk ==
  up /\ ~ disk.bad => blocks \ {GenesisBlock} \subseteq ReadBack(disk)

NodeInv == DiskInv /\ IndexInv /\ MemInv /\ EngineInv /\ TreeOnDisk

-----------------------------------------------------------------------------
(* The tree, the canonical chain and the block store in a call.             *)

LEMMA GenesisIsBlock == IsBlock(GenesisBlock) /\ Height(GenesisBlock) = 0
<1>1. GenesisBlock \in Seq({GenesisBlock[i] : i \in DOMAIN GenesisBlock})
  BY DEF GenesisBlock
<1> QED
  BY <1>1 DEF IsBlock, Height, GenesisBlock

\* A block on a known parent is saved in full, with or without the index, or
\* its save ends before the maps change.
SavesBlock(hash) ==
  \/ /\ disk' = Appended(disk, hash, "whole")
     /\ mem' = Saved(mem, hash)
     /\ index' \in {index, IndexOf(Saved(mem, hash))}
  \/ /\ disk' \in {disk} \cup {Appended(disk, hash, cut) : cut \in Cuts \ {"whole"}}
     /\ mem' = mem
     /\ index' = index

\* It enters the tree only if its save has succeeded.
InsertsSaved(hash) ==
  /\ disk' = Appended(disk, hash, "whole")
  /\ mem' = Saved(mem, hash)
  /\ index' = IndexOf(Saved(mem, hash))
  /\ blocks' = blocks \cup {hash}
  /\ \/ tip' = hash /\ chain' = hash
     \/ UNCHANGED <<tip, chain>>

KeepsTree == UNCHANGED <<blocks, tip, chain>>

CallMakes(parent, header) ==
  \/ InsertsSaved(Append(parent, header))
  \/ SavesBlock(Append(parent, header)) /\ KeepsTree

LEMMA OtherCallKeepsTree == OtherCall => KeepsTree
<1> SUFFICES ASSUME OtherCall PROVE KeepsTree
  OBVIOUS
<1> USE DEF KeepsTree
<1>1. CASE VerifyChain
  BY <1>1 DEF VerifyChain, chainVars
<1>2. ASSUME NEW addr, NEW amount, SetBalance(addr, amount)
      PROVE  KeepsTree
  BY <1>2 DEF SetBalance
<1>3. ASSUME NEW tx, AddTx(tx)
      PROVE  KeepsTree
  BY <1>3 DEF AddTx, chainVars
<1>4. ASSUME NEW epochs, Freeze(epochs)
      PROVE  KeepsTree
  BY <1>4 DEF Freeze, chainVars
<1>5. CASE ResetReorgStats
  BY <1>5 DEF ResetReorgStats
<1>6. CASE ChangeValidators
  BY <1>6 DEF ChangeValidators, chainVars
<1> QED
  BY <1>1, <1>2, <1>3, <1>4, <1>5, <1>6
     DEF OtherCall, GetEpochSnapshot, ScoreTip, WeightDeltaRequired, GetForkCandidates

LEMMA EndsInSaveMakes ==
  ASSUME NEW hash, EndsInSave(hash)
  PROVE  SavesBlock(hash) /\ KeepsTree
BY DEF EndsInSave, SaveBlock, SaveBlockFails, SavesBlock, KeepsTree, chainVars

LEMMA AcceptInserts ==
  ASSUME NEW hash, Accept(hash), SaveBlock(mem, index, hash)
  PROVE  InsertsSaved(hash)
<1>1. /\ blocks' = blocks \cup {hash}
      /\ \/ tip' = hash /\ chain' = hash
         \/ UNCHANGED <<tip, chain>>
  BY DEF Accept, updateCanonical
<1> QED
  BY <1>1 DEF InsertsSaved, SaveBlock

\* Either the call touches neither the tree nor the block store, or it makes
\* a block on a known parent.
LEMMA CallKinds ==
  ASSUME tip \in blocks, Call
  PROVE  \/ KeepsTree /\ UNCHANGED <<up, blockStore>>
         \/ \E parent \in blocks : \E header : CallMakes(parent, header)
<1>1. ASSUME NEW batch, NEW draw, NodeAddBlock(batch, draw)
      PROVE  \/ KeepsTree /\ UNCHANGED <<up, blockStore>>
             \/ \E header : CallMakes(tip, header)
  <2> DEFINE txs == TxsNow(batch, draw)
             header == NewHeader(state, txs, draw)
  <2>1. CASE EndsInSave(Append(tip, header))
    BY <2>1, EndsInSaveMakes DEF CallMakes
  <2>2. CASE AddBlock(batch, draw) /\ CanMakeBlock(state, txs, draw)
             /\ SaveBlock(mem, index, Append(tip, header))
    <3>1. Accept(Append(tip, header))
      BY <2>2 DEF AddBlock
    <3> QED
      BY <2>2, <3>1, AcceptInserts DEF CallMakes
  <2>3. CASE AddBlock(batch, draw) /\ ~ CanMakeBlock(state, txs, draw)
             /\ UNCHANGED <<blockStore, up>>
    <3>1. Refuse(LeaderNow(draw))
      BY <2>3 DEF AddBlock
    <3> QED
      BY <2>3, <3>1 DEF Refuse, chainVars, KeepsTree
  <2> QED
    BY <1>1, <2>1, <2>2, <2>3 DEF NodeAddBlock
<1>2. ASSUME NEW parent \in blocks, NEW batch, NEW draw,
             NodeAddBlockExternal(parent, batch, draw)
      PROVE  \/ KeepsTree /\ UNCHANGED <<up, blockStore>>
             \/ \E header : CallMakes(parent, header)
  <2> DEFINE base == stateAtTip(parent)
             header == NewHeader(base.st, batch, draw)
             can == CanMakeBlock(base.st, batch, draw)
  <2>1. CASE EndsInSave(Append(parent, header))
    BY <2>1, EndsInSaveMakes DEF CallMakes
  <2>2. CASE AddBlockExternal(parent, batch, draw) /\ base.ok /\ can
             /\ SaveBlock(mem, index, Append(parent, header))
    <3>1. Accept(Append(parent, header))
      BY <2>2 DEF AddBlockExternal
    <3> QED
      BY <2>2, <3>1, AcceptInserts DEF CallMakes
  <2>3. CASE AddBlockExternal(parent, batch, draw) /\ ~ (base.ok /\ can)
             /\ UNCHANGED <<blockStore, up>>
    <3>1. can => VerifyTransactions(batch)
      BY DEF CanMakeBlock
    <3>2. Refuse(LeaderNow(draw)) \/ UNCHANGED chainVars
      BY <2>3, <3>1 DEF AddBlockExternal
    <3> QED
      BY <2>3, <3>2 DEF Refuse, chainVars, KeepsTree
  <2> QED
    BY <1>2, <2>1, <2>2, <2>3 DEF NodeAddBlockExternal
<1>3. CASE NodeOtherCall
  BY <1>3, OtherCallKeepsTree DEF NodeOtherCall
<1> QED
  BY <1>1, <1>2, <1>3 DEF Call

-----------------------------------------------------------------------------
(* Steps.                                                                    *)

\* A save that gets past the append, with or without the index, of a block on
\* a known parent that enters the tree or not.
LEMMA SavedStep ==
  ASSUME NodeInv, up, NEW parent \in blocks, NEW header,
         disk' = Appended(disk, Append(parent, header), "whole"),
         mem' = Saved(mem, Append(parent, header)),
         index' \in {index, IndexOf(Saved(mem, Append(parent, header)))},
         blocks' \in {blocks, blocks \cup {Append(parent, header)}},
         tip' \in blocks'
  PROVE  NodeInv'
<1> DEFINE hash == Append(parent, header)
           f == Appended(disk, hash, "whole")
           s == Saved(mem, hash)
<1>1. IsBlock(parent) /\ Height(parent) \in Nat
  BY BlockHeight DEF NodeInv, EngineInv
<1>2. IsBlock(hash) /\ Height(hash) = Height(parent) + 1 /\ Height(hash) \in Nat
  BY <1>1, AppendBlockHeight
<1>3. hash # GenesisBlock
  <2> HIDE DEF hash
  <2>1. Height(hash) # Height(GenesisBlock)
    BY <1>1, <1>2, GenesisIsBlock
  <2> QED
    BY <2>1, Zenon
<1>4. /\ f.ended => f.open = {}
      /\ ReadBack(f) \subseteq ReadBack(disk) \cup {hash}
      /\ ~ f.bad => /\ ~ disk.bad /\ disk.ended
                    /\ ReadBack(f) = ReadBack(disk) \cup {hash}
  BY AppendedGood, AppendedReadBack DEF NodeInv, DiskInv
<1>5. /\ IndexOk(s)
      /\ DOMAIN s.heights = DOMAIN mem.heights \cup {Height(hash)}
      /\ \A k \in DOMAIN s.heights :
           \/ s.heights[k] = hash
           \/ k \in DOMAIN mem.heights /\ s.heights[k] = mem.heights[k]
      /\ /\ Contiguous(DOMAIN mem.heights)
         /\ Height(hash) = 0 \/ Height(hash) - 1 \in DOMAIN mem.heights
         => Contiguous(DOMAIN s.heights)
  BY <1>2, SavedIndex DEF NodeInv, MemInv
<1>6. /\ disk' = f /\ mem' = s /\ index' \in {index, IndexOf(s)}
      /\ blocks' \in {blocks, blocks \cup {hash}}
  OBVIOUS
<1>7. ~ f.bad /\ GenesisBlock \in ReadBack(f) =>
        /\ GenesisBlock \in ReadBack(disk)
        /\ parent \in ReadBack(disk)
        /\ Contiguous(DOMAIN s.heights)
        /\ \A b \in blocks \cup {hash} : Height(b) \in DOMAIN s.heights
  <2> SUFFICES ASSUME ~ f.bad, GenesisBlock \in ReadBack(f)
               PROVE  /\ GenesisBlock \in ReadBack(disk)
                      /\ parent \in ReadBack(disk)
                      /\ Contiguous(DOMAIN s.heights)
                      /\ \A b \in blocks \cup {hash} : Height(b) \in DOMAIN s.heights
    OBVIOUS
  <2>1. GenesisBlock \in ReadBack(disk) /\ ~ disk.bad /\ disk.ended
    BY <1>3, <1>4
  <2>2. parent \in ReadBack(disk)
    BY <2>1 DEF NodeInv, TreeOnDisk
  <2>3. /\ Contiguous(DOMAIN mem.heights)
        /\ \A b \in blocks : Height(b) \in DOMAIN mem.heights
    BY <2>1 DEF NodeInv, MemInv
  <2>4. Height(hash) - 1 \in DOMAIN mem.heights
    BY <1>1, <1>2, <2>3
  <2> QED
    BY <1>5, <2>1, <2>2, <2>3, <2>4
<1>8. ~ f.bad => \A k \in DOMAIN s.heights : s.heights[k] \in ReadBack(f)
  BY <1>4, <1>5 DEF NodeInv, MemInv
<1> HIDE DEF hash, f, s
<1>9. DiskInv'
  <2>1. ASSUME ~ f.bad, GenesisBlock \in ReadBack(f)
        PROVE  Contiguous(Levels(ReadBack(f)))
    <3>1. /\ Contiguous(Levels(ReadBack(disk)))
          /\ Height(parent) \in Levels(ReadBack(disk))
      BY <1>4, <1>7, <2>1 DEF NodeInv, DiskInv, Levels
    <3>2. Levels(ReadBack(f)) = Levels(ReadBack(disk)) \cup {Height(hash)}
      BY <1>4, <2>1 DEF Levels
    <3> QED
      BY <1>1, <1>2, <3>1, <3>2, ContiguousAdd
  <2>2. \A b \in ReadBack(f) : IsBlock(b)
    BY <1>2, <1>4 DEF NodeInv, DiskInv
  <2> QED
    BY <1>4, <1>6, <2>1, <2>2 DEF DiskInv, ReadBack, Levels
<1>10. IndexInv'
  <2>1. CASE index' = index
    <3>1. IndexOk(index')
      BY <2>1 DEF NodeInv, IndexInv
    <3>2. ~ f.bad => \A k \in DOMAIN index.heights : index.heights[k] \in ReadBack(f)
      BY <1>4 DEF NodeInv, IndexInv
    <3>3. ~ f.bad /\ GenesisBlock \in ReadBack(f) => Contiguous(DOMAIN index.heights)
      BY <1>4, <1>7 DEF NodeInv, IndexInv
    <3> QED
      BY <1>6, <2>1, <3>1, <3>2, <3>3 DEF IndexInv, IndexOk, ReadBack
  <2>2. CASE index' = IndexOf(s)
    <3>1. index'.heights = s.heights /\ index'.tip = s.tip
      BY <2>2 DEF IndexOf
    <3>2. IndexOk(index')
      BY <1>5, <3>1 DEF IndexOk
    <3> QED
      BY <1>6, <1>7, <1>8, <3>1, <3>2 DEF IndexInv, IndexOk, ReadBack
  <2> QED
    BY <1>6, <2>1, <2>2
<1>11. MemInv'
  <2>1. IndexOk(mem')
    BY <1>5, <1>6
  <2> QED
    BY <1>6, <1>7, <1>8, <2>1 DEF MemInv, IndexOk, ReadBack
<1>12. EngineInv'
  BY <1>2, <1>6 DEF NodeInv, EngineInv
<1>13. TreeOnDisk'
  BY <1>4, <1>6 DEF NodeInv, TreeOnDisk, ReadBack
<1> QED
  BY <1>9, <1>10, <1>11, <1>12, <1>13 DEF NodeInv

\* A save that ends in the append, or before it.
LEMMA UnsavedStep ==
  ASSUME NodeInv, up, NEW parent \in blocks, NEW header,
         disk' \in {disk} \cup {Appended(disk, Append(parent, header), cut) :
                                cut \in Cuts \ {"whole"}},
         UNCHANGED <<mem, index, blocks, tip>>
  PROVE  NodeInv'
<1> DEFINE hash == Append(parent, header)
<1>1. CASE disk' = disk
  BY <1>1 DEF NodeInv, DiskInv, IndexInv, MemInv, EngineInv, TreeOnDisk
<1>2. ASSUME NEW cut \in Cuts \ {"whole"}, disk' = Appended(disk, hash, cut)
      PROVE  NodeInv'
  <2> DEFINE f == Appended(disk, hash, cut)
  <2>1. IsBlock(parent) /\ Height(parent) \in Nat
    BY BlockHeight DEF NodeInv, EngineInv
  <2>2. IsBlock(hash) /\ Height(hash) = Height(parent) + 1 /\ Height(hash) \in Nat
    BY <2>1, AppendBlockHeight
  <2> HIDE DEF hash
  <2>3. hash # GenesisBlock
    <3>1. Height(hash) # Height(GenesisBlock)
      BY <2>1, <2>2, GenesisIsBlock
    <3> QED
      BY <3>1, Zenon
  <2>4. /\ f.ended => f.open = {}
        /\ ReadBack(f) \subseteq ReadBack(disk) \cup {hash}
        /\ ~ f.ended
        /\ ~ f.bad => /\ ~ disk.bad /\ disk.ended
                      /\ ReadBack(f) = ReadBack(disk) \cup {hash}
    <3>1. cut # "whole" /\ cut \in {"open", "torn"}
      BY <1>2 DEF Cuts
    <3>2. ~ f.bad => cut = "open"
      BY <3>1 DEF Appended
    <3> QED
      BY <3>1, <3>2, AppendedGood, AppendedReadBack DEF NodeInv, DiskInv
  <2> HIDE DEF f
  <2>5. disk' = f
    BY <1>2 DEF f
  <2>6. ~ f.bad /\ GenesisBlock \in ReadBack(f) =>
          GenesisBlock \in ReadBack(disk) /\ parent \in ReadBack(disk)
    BY <2>3, <2>4 DEF NodeInv, TreeOnDisk
  <2>7. DiskInv'
    <3>1. ASSUME ~ f.bad, GenesisBlock \in ReadBack(f)
          PROVE  Contiguous(Levels(ReadBack(f)))
      <4>1. /\ Contiguous(Levels(ReadBack(disk)))
            /\ Height(parent) \in Levels(ReadBack(disk))
        BY <2>4, <2>6, <3>1 DEF NodeInv, DiskInv, Levels
      <4>2. Levels(ReadBack(f)) = Levels(ReadBack(disk)) \cup {Height(hash)}
        BY <2>4, <3>1 DEF Levels
      <4> QED
        BY <2>1, <2>2, <4>1, <4>2, ContiguousAdd
    <3>2. \A b \in ReadBack(f) : IsBlock(b)
      BY <2>2, <2>4 DEF NodeInv, DiskInv
    <3> QED
      BY <2>4, <2>5, <3>1, <3>2 DEF DiskInv, ReadBack, Levels
  <2>8. IndexInv'
    <3>1. ~ f.bad => \A k \in DOMAIN index.heights : index.heights[k] \in ReadBack(f)
      BY <2>4 DEF NodeInv, IndexInv
    <3>2. ~ f.bad /\ GenesisBlock \in ReadBack(f) => Contiguous(DOMAIN index.heights)
      BY <2>4, <2>6 DEF NodeInv, IndexInv
    <3>3. IndexOk(index)
      BY DEF NodeInv, IndexInv
    <3> QED
      BY <2>5, <3>1, <3>2, <3>3 DEF IndexInv, IndexOk, ReadBack
  <2>9. MemInv'
    <3>1. ~ f.bad => \A k \in DOMAIN mem.heights : mem.heights[k] \in ReadBack(f)
      BY <2>4 DEF NodeInv, MemInv
    <3>2. IndexOk(mem)
      BY DEF NodeInv, MemInv
    <3> QED
      BY <2>4, <2>5, <3>1, <3>2 DEF MemInv, IndexOk, ReadBack
  <2>10. EngineInv'
    BY DEF NodeInv, EngineInv
  <2>11. TreeOnDisk'
    BY <2>4, <2>5 DEF NodeInv, TreeOnDisk, ReadBack
  <2> QED
    BY <2>7, <2>8, <2>9, <2>10, <2>11 DEF NodeInv
<1> QED
  BY <1>1, <1>2

\* What a start finds in the files.
LEMMA OpenedStore ==
  ASSUME NodeInv, Loadable(disk), NEW m \in Opened(disk, index)
  PROVE  /\ IndexOk(m)
         /\ m.blocks = ReadBack(disk)
         /\ \A k \in DOMAIN m.heights : m.heights[k] \in ReadBack(disk)
         /\ ReadBack(disk) # {} => DOMAIN m.heights # {}
         /\ DOMAIN m.heights # {} => GetTipOk(m)
         /\ GetTipOk(m) => /\ Height(m.tip) \in DOMAIN m.heights
                           /\ m.heights[Height(m.tip)] = m.tip
         /\ GenesisBlock \in ReadBack(disk) => Contiguous(DOMAIN m.heights)
<1>1. ~ disk.bad
  BY DEF Loadable
<1>2. /\ \A b \in ReadBack(disk) : IsBlock(b)
      /\ IndexOk(index)
      /\ \A k \in DOMAIN index.heights : index.heights[k] \in ReadBack(disk)
      /\ GenesisBlock \in ReadBack(disk) =>
           Contiguous(DOMAIN index.heights) /\ Contiguous(Levels(ReadBack(disk)))
  BY <1>1 DEF NodeInv, DiskInv, IndexInv
<1>3. /\ m.blocks = ReadBack(disk)
      /\ IndexOk(m)
      /\ \A k \in DOMAIN m.heights : m.heights[k] \in ReadBack(disk)
      /\ DOMAIN m.heights = {} => ReadBack(disk) = {}
      /\ GenesisBlock \in ReadBack(disk) => Contiguous(DOMAIN m.heights)
  BY <1>2, OpenedIndex
<1> QED
  BY <1>3 DEF IndexOk, GetTipOk

\* A fresh start: the file has no block, and may have the genesis block then.
LEMMA FreshStart ==
  ASSUME NodeInv, Loadable(disk), NEW m \in Opened(disk, index), ~ GetTipOk(m),
         StartFresh(m)
  PROVE  NodeInv'
<1> DEFINE s == Saved(m, GenesisBlock)
<1>1. /\ IndexOk(m)
      /\ DOMAIN m.heights = {}
      /\ ReadBack(disk) = {}
  BY OpenedStore
<1>2. IsBlock(GenesisBlock) /\ Height(GenesisBlock) = 0
  BY GenesisIsBlock
<1>3. /\ IndexOk(s)
      /\ DOMAIN s.heights = {0}
      /\ s.heights[0] = GenesisBlock
  BY <1>1, <1>2, SavedIndex
<1>4. blocks' = {GenesisBlock} /\ tip' = GenesisBlock
  BY DEF StartFresh
<1>5. \A D : D = {} \/ D = {0} => Contiguous(D)
  BY DEF Contiguous
<1>6. DiskInv /\ ~ disk.bad
  BY DEF NodeInv, Loadable
<1>7. EngineInv' /\ TreeOnDisk'
  BY <1>2, <1>4 DEF EngineInv, TreeOnDisk
<1>8. CASE /\ disk' = Appended(disk, GenesisBlock, "whole")
           /\ mem' = s
           /\ index' \in {IndexOf(m), IndexOf(s)}
  <2> DEFINE f == Appended(disk, GenesisBlock, "whole")
  <2>1. /\ f.ended => f.open = {}
        /\ ReadBack(f) \subseteq {GenesisBlock}
        /\ ~ f.bad => ReadBack(f) = {GenesisBlock}
    BY <1>1, <1>6, AppendedGood, AppendedReadBack DEF DiskInv
  <2> HIDE DEF f, s
  <2>2. disk' = f /\ mem' = s
    BY <1>8 DEF f
  <2>3. DiskInv'
    <3>1. ~ f.bad => Levels(ReadBack(f)) = {0}
      BY <1>2, <2>1 DEF Levels
    <3> QED
      BY <1>2, <1>5, <2>1, <2>2, <3>1 DEF DiskInv, Levels, ReadBack
  <2>4. \/ index'.heights = m.heights /\ index'.tip = m.tip
        \/ index'.heights = s.heights /\ index'.tip = s.tip
    BY <1>8 DEF IndexOf
  <2>5. IndexInv'
    BY <1>1, <1>3, <1>5, <2>1, <2>2, <2>4 DEF IndexInv, IndexOk, ReadBack
  <2>6. MemInv'
    BY <1>2, <1>3, <1>4, <1>5, <2>1, <2>2 DEF MemInv, IndexOk, ReadBack
  <2> QED
    BY <1>7, <2>3, <2>5, <2>6 DEF NodeInv
<1>9. CASE /\ disk' \in {disk} \cup {Appended(disk, GenesisBlock, cut) :
                                       cut \in Cuts \ {"whole"}}
           /\ mem' = m
           /\ index' = IndexOf(m)
  <2>1. /\ disk'.ended => disk'.open = {} /\ (~ disk'.bad => ReadBack(disk') = {})
        /\ ReadBack(disk') \subseteq {GenesisBlock}
    <3>1. CASE disk' = disk
      BY <1>1, <1>6, <3>1 DEF DiskInv
    <3>2. ASSUME NEW cut \in Cuts \ {"whole"},
                 disk' = Appended(disk, GenesisBlock, cut)
          PROVE  ~ disk'.ended /\ ReadBack(disk') \subseteq {GenesisBlock}
      BY <1>1, <1>6, <3>2, AppendedGood DEF DiskInv
    <3> QED
      BY <1>9, <3>1, <3>2
  <2>2. index'.heights = m.heights /\ index'.tip = m.tip
    BY <1>9 DEF IndexOf
  <2>3. DiskInv'
    <3>1. Contiguous(Levels(ReadBack(disk')))
      <4>1. Levels(ReadBack(disk')) \in {{}, {0}}
        BY <1>2, <2>1 DEF Levels
      <4> QED
        BY <1>5, <4>1
    <3> QED
      BY <1>2, <2>1, <3>1 DEF DiskInv, ReadBack, Levels
  <2>4. IndexInv'
    BY <1>1, <1>5, <2>2 DEF IndexInv, IndexOk
  <2>5. MemInv'
    BY <1>1, <1>9, <2>1 DEF MemInv, IndexOk, ReadBack
  <2> QED
    BY <1>7, <2>3, <2>4, <2>5 DEF NodeInv
<1> QED
  BY <1>8, <1>9 DEF StartFresh, SaveBlock, SaveBlockFails

\* A start from the store.
LEMMA RestoringStart ==
  ASSUME NodeInv, Loadable(disk), NEW m \in Opened(disk, index), GetTipOk(m),
         CanRestore(m), Restore(m)
  PROVE  NodeInv'
<1>1. /\ IndexOk(m)
      /\ \A k \in DOMAIN m.heights : m.heights[k] \in ReadBack(disk)
      /\ Height(m.tip) \in DOMAIN m.heights
      /\ m.heights[Height(m.tip)] = m.tip
      /\ GenesisBlock \in ReadBack(disk) => Contiguous(DOMAIN m.heights)
  BY OpenedStore
<1>2. /\ blocks' = GetRange(m, Height(m.tip))
      /\ tip' = m.tip
      /\ mem' = m
      /\ index' = IndexOf(m)
      /\ disk' = disk
  BY DEF Restore
<1>3. /\ \A k \in 0..Height(m.tip) : k \in DOMAIN m.heights
      /\ Height(m.tip) \in Nat
  BY <1>1 DEF CanRestore, GetRangeOk, IndexOk
<1>4. \A b \in blocks' : /\ IsBlock(b)
                          /\ Height(b) \in DOMAIN m.heights
                          /\ b \in ReadBack(disk)
  BY <1>1, <1>2, <1>3 DEF GetRange, IndexOk
<1>5. tip' \in blocks'
  BY <1>1, <1>2, <1>3 DEF GetRange
<1>6. index'.heights = m.heights /\ index'.tip = m.tip
  BY <1>2 DEF IndexOf
<1>7. IndexOk(index') /\ IndexOk(mem')
  BY <1>1, <1>2, <1>6 DEF IndexOk
<1>8. ReadBack(disk') = ReadBack(disk) /\ disk'.bad = disk.bad
  BY <1>2
<1>9. DiskInv'
  BY <1>2 DEF NodeInv, DiskInv
<1>10. IndexInv'
  BY <1>1, <1>2, <1>6, <1>7 DEF IndexInv, IndexOk, ReadBack
<1>11. MemInv'
  BY <1>1, <1>2, <1>4, <1>7 DEF MemInv, IndexOk, ReadBack
<1>12. EngineInv'
  BY <1>4, <1>5 DEF EngineInv
<1>13. TreeOnDisk'
  BY <1>2, <1>4 DEF TreeOnDisk, ReadBack
<1> QED
  BY <1>9, <1>10, <1>11, <1>12, <1>13 DEF NodeInv

\* A step that touches neither the tree nor the block store.
LEMMA IdleStep ==
  ASSUME NodeInv, up' => up, UNCHANGED <<blocks, tip, disk, mem, index>>
  PROVE  NodeInv'
BY DEF NodeInv, DiskInv, IndexInv, MemInv, EngineInv, TreeOnDisk

LEMMA StartStep == NodeInv /\ Start => NodeInv'
<1> SUFFICES ASSUME NodeInv, Start PROVE NodeInv'
  OBVIOUS
<1>1. Loadable(disk) /\ ~ up
  BY DEF Start
<1>2. PICK m \in Opened(disk, index) :
        \/ /\ GetTipOk(m) => CanRestore(m)
           /\ IF GetTipOk(m) THEN Restore(m) ELSE StartFresh(m)
        \/ /\ GetTipOk(m)
           /\ index' = IndexOf(m)
           /\ UNCHANGED <<up, disk>>
  BY DEF Start
<1>3. CASE ~ GetTipOk(m)
  BY <1>1, <1>2, <1>3, FreshStart
<1>4. CASE GetTipOk(m) /\ CanRestore(m) /\ Restore(m)
  BY <1>1, <1>4, RestoringStart
<1>5. CASE index' = IndexOf(m) /\ UNCHANGED <<up, disk>>
  <2>1. /\ IndexOk(m)
        /\ \A k \in DOMAIN m.heights : m.heights[k] \in ReadBack(disk)
        /\ GenesisBlock \in ReadBack(disk) => Contiguous(DOMAIN m.heights)
    BY <1>1, OpenedStore
  <2>2. index'.heights = m.heights /\ index'.tip = m.tip
    BY <1>5 DEF IndexOf
  <2>3. IndexInv'
    BY <1>5, <2>1, <2>2 DEF IndexInv, IndexOk, ReadBack
  <2> QED
    BY <1>1, <1>5, <2>3 DEF NodeInv, DiskInv, MemInv, EngineInv, TreeOnDisk
<1> QED
  BY <1>2, <1>3, <1>4, <1>5

\* A call, whether it makes a block or not.
LEMMA CallStep == NodeInv /\ Call => NodeInv'
<1> SUFFICES ASSUME NodeInv, Call PROVE NodeInv'
  OBVIOUS
<1>1. up /\ tip \in blocks
  BY DEF Call, NodeInv, EngineInv
<1>2. ASSUME NEW parent \in blocks, NEW header, CallMakes(parent, header)
      PROVE  NodeInv'
  <2> DEFINE hash == Append(parent, header)
  <2>1. CASE InsertsSaved(hash)
    <3>1. tip' \in blocks'
      BY <1>1, <2>1 DEF InsertsSaved
    <3> QED
      BY <1>1, <2>1, <3>1, SavedStep DEF InsertsSaved
  <2>2. CASE SavesBlock(hash) /\ KeepsTree
    BY <1>1, <2>2, SavedStep, UnsavedStep DEF SavesBlock, KeepsTree
  <2> QED
    BY <1>2, <2>1, <2>2 DEF CallMakes
<1> QED
  BY <1>1, <1>2, CallKinds, IdleStep DEF KeepsTree, blockStore

-----------------------------------------------------------------------------
(* Theorems.                                                                 *)

\* The tree, the files and the maps agree in every state.
THEOREM NodeInvariant == NodeSpec => []NodeInv
<1>1. NodeInit => NodeInv
  <2> SUFFICES ASSUME NodeInit PROVE NodeInv
    OBVIOUS
  <2>1. /\ ReadBack(disk) = {}
        /\ disk.open = {}
        /\ ~ up
        /\ DOMAIN index.heights = {}
        /\ index.tip = NoBlock
    BY DEF NodeInit, EmptyFile, EmptyIndex, EmptyMap, ReadBack
  <2> QED
    BY <2>1 DEF NodeInv, DiskInv, IndexInv, MemInv, EngineInv, TreeOnDisk,
                IndexOk, Contiguous
<1>2. NodeInv /\ [NodeNext]_nodeVars => NodeInv'
  <2> SUFFICES ASSUME NodeInv, [NodeNext]_nodeVars PROVE NodeInv'
    OBVIOUS
  <2>1. CASE Start
    BY <2>1, StartStep
  <2>2. CASE Call
    BY <2>2, CallStep
  <2>3. CASE Crash
    BY <2>3, IdleStep DEF Crash, vars, chainVars, blockStore
  <2>4. CASE UNCHANGED nodeVars
    BY <2>4, IdleStep DEF nodeVars, vars, chainVars, blockStore
  <2> QED
    BY <2>1, <2>2, <2>3, <2>4 DEF NodeNext
<1> QED
  BY <1>1, <1>2, PTL DEF NodeSpec

\* RestoreFromStorage: once the genesis block is in a file that can be read,
\* every start finds a tip and a block at each height up to it.
THEOREM RestartsSafelyHolds == NodeSpec => []RestartsSafely
<1>1. NodeInv => RestartsSafely
  <2> SUFFICES ASSUME NodeInv, Loadable(disk), GenesisBlock \in ReadBack(disk),
                      SnapshotEpochs(files) # {} => LatestSnapshot(files) # {},
                      NEW m \in Opened(disk, index)
               PROVE  GetTipOk(m) /\ CanRestore(m)
    BY DEF RestartsSafely
  <2>1. /\ GetTipOk(m)
        /\ m.blocks = ReadBack(disk)
        /\ \A k \in DOMAIN m.heights : m.heights[k] \in ReadBack(disk)
        /\ Height(m.tip) \in DOMAIN m.heights
        /\ Contiguous(DOMAIN m.heights)
    BY OpenedStore
  <2>2. 0..Height(m.tip) \subseteq DOMAIN m.heights
    BY <2>1 DEF Contiguous
  <2> QED
    BY <2>1, <2>2 DEF CanRestore, GetRangeOk
<1> QED
  BY <1>1, NodeInvariant, PTL

-----------------------------------------------------------------------------
(* What a restart brings back.                                               *)

(***************************************************************************)
(* Of two stored blocks one is an ancestor of the other.                   *)
(***************************************************************************)
OneBranch(known) == \A a, b \in known : IsPrefix(a, b) \/ IsPrefix(b, a)

FromGenesis(known) == \A b \in known : IsBlock(b) /\ b[1] = GenesisHeader

(***************************************************************************)
(* The canonical tip is in the file, the index leads at least as high, and *)
(* memory at least as high as the index: a save that fails leaves both     *)
(* where they were or ahead.  All blocks begin with the genesis block, and *)
(* a store without forks means a canonical chain without a gap.            *)
(***************************************************************************)
RestartInv ==
  /\ tip \in blocks
  /\ FromGenesis(blocks) /\ FromGenesis(ReadBack(disk))
  /\ tip # GenesisBlock => Height(tip) <= Height(index.tip)
  /\ up => Height(index.tip) <= Height(mem.tip)
  /\ ~ disk.bad /\ tip # GenesisBlock => tip \in ReadBack(disk)
  /\ ~ disk.bad /\ OneBranch(ReadBack(disk)) => chain = tip

\* The height of an index, -1 if there is nothing in it.
LEMMA IndexHeight ==
  ASSUME NEW i, IndexOk(i)
  PROVE  /\ Height(i.tip) \in Int
         /\ i.tip = NoBlock => Height(i.tip) = -1
         /\ i.tip # NoBlock => Height(i.tip) \in Nat
<1>1. Height(NoBlock) = -1
  BY DEF Height, NoBlock
<1> QED
  BY <1>1 DEF IndexOk

\* A save raises the tip of the maps to its block, or leaves it.
LEMMA SavedRaises ==
  ASSUME NEW m, IndexOk(m), NEW block, IsBlock(block)
  PROVE  /\ Height(m.tip) <= Height(Saved(m, block).tip)
         /\ Height(block) <= Height(Saved(m, block).tip)
<1>1. Height(m.tip) \in Int /\ Height(block) \in Nat
  BY IndexHeight, BlockHeight
<1>2. Saved(m, block).tip = IF Height(block) >= Height(m.tip) THEN block ELSE m.tip
  BY DEF Saved
<1> QED
  BY <1>1, <1>2

LEMMA RootedAppend ==
  ASSUME NEW parent, IsBlock(parent), parent[1] = GenesisHeader, NEW header
  PROVE  /\ IsBlock(Append(parent, header))
         /\ Append(parent, header)[1] = GenesisHeader
         /\ Append(parent, header) # GenesisBlock
<1>1. /\ IsBlock(Append(parent, header))
      /\ Height(Append(parent, header)) = Height(parent) + 1
      /\ Height(parent) \in Nat
  BY AppendBlockHeight, BlockHeight
<1>2. Append(parent, header)[1] = parent[1]
  <2>1. parent \in Seq({parent[i] : i \in DOMAIN parent} \cup {header})
    BY DEF IsBlock
  <2>2. 1 \in 1..Len(parent)
    BY DEF IsBlock
  <2> QED
    BY <2>1, <2>2
<1>3. Append(parent, header) # GenesisBlock
  <2> DEFINE hash == Append(parent, header)
  <2> HIDE DEF hash
  <2>1. Height(hash) # Height(GenesisBlock)
    BY <1>1, GenesisIsBlock DEF hash
  <2>2. hash # GenesisBlock
    BY <2>1, Zenon
  <2> QED
    BY <2>2 DEF hash
<1> QED
  BY <1>1, <1>2, <1>3

\* What an append leaves for a reader of a file that can still be read.
LEMMA AppendedReads ==
  ASSUME NEW file, NEW block, NEW cut, file.ended => file.open = {}
  PROVE  LET f == Appended(file, block, cut)
         IN /\ ReadBack(f) \subseteq ReadBack(file) \cup {block}
            /\ ~ f.bad => ~ file.bad /\ ReadBack(file) \subseteq ReadBack(f)
            /\ ~ f.bad /\ cut = "whole" => block \in ReadBack(f)
BY AppendedGood, AppendedReadBack

LEMMA FewerOneBranch ==
  ASSUME NEW known, OneBranch(known), NEW some \in SUBSET known
  PROVE  OneBranch(some)
BY DEF OneBranch

\* A call that makes a block.
LEMMA CallMakesRestart ==
  ASSUME NodeInv, RestartInv, up, NEW parent \in blocks, NEW header,
         CallMakes(parent, header)
  PROVE  RestartInv'
<1> DEFINE hash == Append(parent, header)
<1>1. /\ IsBlock(hash)
      /\ hash[1] = GenesisHeader
      /\ hash # GenesisBlock
  BY RootedAppend DEF RestartInv, FromGenesis
<1>2. /\ IndexOk(mem) /\ IndexOk(index)
      /\ disk.ended => disk.open = {}
  BY DEF NodeInv, MemInv, IndexInv, DiskInv
<1>3. CallMakes(parent, header) <=>
        InsertsSaved(hash) \/ (SavesBlock(hash) /\ KeepsTree)
  BY DEF CallMakes
<1> HIDE DEF hash
<1>4. /\ Height(mem.tip) <= Height(Saved(mem, hash).tip)
      /\ Height(hash) <= Height(Saved(mem, hash).tip)
      /\ {Height(mem.tip), Height(index.tip), Height(Saved(mem, hash).tip)} \subseteq Int
  <2>1. IndexOk(Saved(mem, hash))
    BY <1>1, <1>2, SavedIndex
  <2> QED
    BY <1>1, <1>2, <2>1, SavedRaises, IndexHeight
<1>5. IsBlock(tip) /\ Height(tip) \in Nat
  BY BlockHeight DEF RestartInv, FromGenesis
<1>6. /\ FromGenesis(blocks \cup {hash})
      /\ FromGenesis(ReadBack(disk) \cup {hash})
  BY <1>1 DEF RestartInv, FromGenesis
<1>7. /\ Height(index.tip) <= Height(mem.tip)
      /\ tip # GenesisBlock => Height(tip) <= Height(index.tip)
  BY DEF RestartInv
<1>8. CASE InsertsSaved(hash)
  <2>1. /\ disk' = Appended(disk, hash, "whole")
        /\ mem' = Saved(mem, hash)
        /\ index' = IndexOf(Saved(mem, hash))
        /\ blocks' = blocks \cup {hash}
        /\ \/ tip' = hash /\ chain' = hash
           \/ UNCHANGED <<tip, chain>>
    BY <1>8 DEF InsertsSaved
  <2> DEFINE f == Appended(disk, hash, "whole")
  <2>2. /\ ReadBack(f) \subseteq ReadBack(disk) \cup {hash}
        /\ ~ f.bad => ~ disk.bad /\ ReadBack(disk) \subseteq ReadBack(f)
        /\ ~ f.bad => hash \in ReadBack(f)
    BY <1>2, AppendedReads
  <2> HIDE DEF f
  <2>3. disk' = f
    BY <2>1 DEF f
  <2>4. tip' \in blocks'
    BY <2>1 DEF RestartInv
  <2>5. FromGenesis(blocks') /\ FromGenesis(ReadBack(disk'))
    BY <1>6, <2>1, <2>2, <2>3 DEF FromGenesis
  <2>6. index'.tip = Saved(mem, hash).tip /\ mem'.tip = Saved(mem, hash).tip
    BY <2>1 DEF IndexOf
  <2>7. /\ tip' # GenesisBlock => Height(tip') <= Height(index'.tip)
        /\ Height(index'.tip) <= Height(mem'.tip)
    <3>1. CASE tip' = hash
      BY <1>4, <2>6, <3>1
    <3>2. CASE tip' = tip
      BY <1>4, <1>5, <1>7, <2>6, <3>2
    <3> QED
      BY <2>1, <3>1, <3>2
  <2>8. ~ disk'.bad /\ tip' # GenesisBlock => tip' \in ReadBack(disk')
    BY <2>1, <2>2, <2>3 DEF RestartInv
  <2>9. ~ disk'.bad /\ OneBranch(ReadBack(disk')) => chain' = tip'
    BY <2>1, <2>2, <2>3, FewerOneBranch DEF RestartInv
  <2> QED
    BY <2>4, <2>5, <2>7, <2>8, <2>9 DEF RestartInv, FromGenesis, ReadBack, OneBranch
<1>9. CASE SavesBlock(hash) /\ KeepsTree
  <2>1. /\ ReadBack(disk') \subseteq ReadBack(disk) \cup {hash}
        /\ ~ disk'.bad => ~ disk.bad /\ ReadBack(disk) \subseteq ReadBack(disk')
    <3>1. CASE disk' = disk
      BY <3>1
    <3>2. ASSUME NEW cut, disk' = Appended(disk, hash, cut)
          PROVE  /\ ReadBack(disk') \subseteq ReadBack(disk) \cup {hash}
                 /\ ~ disk'.bad => ~ disk.bad /\ ReadBack(disk) \subseteq ReadBack(disk')
      BY <1>2, <3>2, AppendedReads
    <3> QED
      BY <1>9, <3>1, <3>2 DEF SavesBlock
  <2>2. UNCHANGED <<blocks, tip, chain>>
    BY <1>9 DEF KeepsTree
  <2>3. FromGenesis(ReadBack(disk'))
    BY <1>6, <2>1 DEF FromGenesis
  <2>4. /\ index'.tip \in {index.tip, Saved(mem, hash).tip}
        /\ mem'.tip \in {mem.tip, Saved(mem, hash).tip}
        /\ index'.tip = Saved(mem, hash).tip => mem'.tip = index'.tip \/ index' = index
    BY <1>9 DEF SavesBlock, IndexOf
  <2>5. /\ tip # GenesisBlock => Height(tip) <= Height(index'.tip)
        /\ Height(index'.tip) <= Height(mem'.tip)
    BY <1>4, <1>5, <1>7, <2>4
  <2>6. ~ disk'.bad /\ tip # GenesisBlock => tip \in ReadBack(disk')
    BY <2>1 DEF RestartInv
  <2>7. ~ disk'.bad /\ OneBranch(ReadBack(disk')) => chain = tip
    BY <2>1, FewerOneBranch DEF RestartInv
  <2> QED
    BY <2>2, <2>3, <2>5, <2>6, <2>7 DEF RestartInv, FromGenesis, ReadBack, OneBranch
<1> QED
  BY <1>3, <1>8, <1>9

\* A store whose blocks are one branch gives back that branch, up to its tip.
LEMMA RangeIsBranch ==
  ASSUME NEW known, OneBranch(known), FromGenesis(known), NEW m, IndexOk(m),
         \A k \in DOMAIN m.heights : m.heights[k] \in known,
         m.tip \in known, GetRangeOk(m, Height(m.tip))
  PROVE  Walk(GetRange(m, Height(m.tip)), m.tip) = m.tip
<1> DEFINE top == m.tip
           range == GetRange(m, Height(m.tip))
<1>1. Len(top) \in Nat /\ Height(top) = Len(top) - 1
  BY DEF FromGenesis, IsBlock, Height
<1>2. ASSUME NEW i \in 2..Len(top)
      PROVE  SubSeq(top, 1, i - 1) \in range
  <2>1. i - 2 \in 0..Height(top)
    BY <1>1, <1>2
  <2> DEFINE b == m.heights[i - 2]
  <2>2. i - 2 \in DOMAIN m.heights /\ b \in range
    BY <2>1 DEF GetRange, GetRangeOk
  <2>3. b \in known /\ IsBlock(b) /\ Height(b) = i - 2
    BY <2>2 DEF IndexOk
  <2>4. Len(b) = i - 1 /\ b \in Seq({b[j] : j \in DOMAIN b})
    BY <1>1, <1>2, <2>3 DEF Height, IsBlock
  <2> HIDE DEF b
  <2>5. SubSeq(b, 1, Len(b)) = b
    BY <2>4
  <2>6. IsPrefix(b, top) \/ IsPrefix(top, b)
    BY <2>3 DEF OneBranch
  <2>7. Len(b) < Len(top)
    BY <1>1, <1>2, <2>4
  <2>8. IsPrefix(b, top)
    BY <1>1, <2>4, <2>6, <2>7 DEF IsPrefix
  <2>9. b = SubSeq(top, 1, i - 1)
    BY <2>4, <2>5, <2>8 DEF IsPrefix
  <2> QED
    BY <2>2, <2>9
<1>3. {i \in 2..Len(top) : SubSeq(top, 1, i - 1) \notin range} = {}
  BY <1>2
<1> QED
  BY <1>3 DEF Walk

\* The tip a start finds is at least as high as the canonical tip was.
LEMMA OpenedTipHigh ==
  ASSUME NodeInv, RestartInv, Loadable(disk), NEW m \in Opened(disk, index)
  PROVE  /\ GetTipOk(m) => m.tip \in ReadBack(disk) /\ Height(tip) <= Height(m.tip)
         /\ ~ GetTipOk(m) => tip = GenesisBlock
<1>1. /\ IndexOk(m)
      /\ m.blocks = ReadBack(disk)
      /\ DOMAIN m.heights # {} => GetTipOk(m)
  BY OpenedStore
<1>2. GetTipOk(m) => m.tip \in ReadBack(disk) /\ IsBlock(m.tip) /\ Height(m.tip) \in Nat
  BY <1>1, BlockHeight DEF GetTipOk, RestartInv, FromGenesis
<1>3. CASE tip = GenesisBlock
  <2>1. Height(tip) = 0
    BY <1>3, GenesisIsBlock
  <2> QED
    BY <1>2, <1>3, <2>1
<1>4. CASE tip # GenesisBlock
  <2>1. Height(tip) \in Nat /\ Height(tip) <= Height(index.tip)
    BY <1>4, BlockHeight DEF RestartInv, FromGenesis
  <2>2. IndexOk(index)
    BY DEF NodeInv, IndexInv
  <2>3. index.tip # NoBlock
    BY <2>1, <2>2, IndexHeight
  <2>4. DOMAIN index.heights # {}
    BY <2>2, <2>3 DEF IndexOk
  <2>5. m = [blocks |-> ReadBack(disk), heights |-> index.heights, tip |-> index.tip]
    BY <2>4 DEF Opened
  <2> QED
    BY <1>1, <1>2, <1>4, <2>1, <2>4, <2>5
<1> QED
  BY <1>3, <1>4

\* A start from the store: the tip is stored, and with it comes its branch.
LEMMA RestoreBrings ==
  ASSUME NodeInv, RestartInv, Loadable(disk), NEW m \in Opened(disk, index),
         GetTipOk(m), CanRestore(m), Restore(m)
  PROVE  /\ tip' = m.tip /\ tip' \in ReadBack(disk)
         /\ tip' \in blocks' /\ blocks' \subseteq ReadBack(disk)
         /\ OneBranch(ReadBack(disk)) => chain' = m.tip
<1>1. /\ IndexOk(m)
      /\ \A k \in DOMAIN m.heights : m.heights[k] \in ReadBack(disk)
      /\ Height(m.tip) \in DOMAIN m.heights
      /\ m.heights[Height(m.tip)] = m.tip
  BY OpenedStore
<1>2. /\ blocks' = GetRange(m, Height(m.tip))
      /\ tip' = m.tip
      /\ chain' = Walk(GetRange(m, Height(m.tip)), m.tip)
  BY DEF Restore
<1>3. /\ \A k \in 0..Height(m.tip) : k \in DOMAIN m.heights
      /\ Height(m.tip) \in 0..Height(m.tip)
  BY <1>1 DEF CanRestore, GetRangeOk, IndexOk
<1>4. m.tip \in ReadBack(disk)
  BY OpenedTipHigh
<1>5. m.tip \in blocks' /\ blocks' \subseteq ReadBack(disk)
  BY <1>1, <1>2, <1>3 DEF GetRange
<1>6. OneBranch(ReadBack(disk)) => chain' = m.tip
  BY <1>1, <1>2, <1>4, RangeIsBranch DEF CanRestore, RestartInv
<1> QED
  BY <1>2, <1>4, <1>5, <1>6

\* A fresh start finds an empty file and leaves at most the genesis block.
LEMMA FreshReads ==
  ASSUME NodeInv, Loadable(disk), NEW m \in Opened(disk, index), ~ GetTipOk(m),
         StartFresh(m)
  PROVE  /\ ReadBack(disk) = {} /\ ReadBack(disk') \subseteq {GenesisBlock}
         /\ tip' = GenesisBlock /\ chain' = GenesisBlock /\ blocks' = {GenesisBlock}
         /\ Height(index'.tip) <= Height(mem'.tip)
<1> DEFINE s == Saved(m, GenesisBlock)
<1>1. IndexOk(m) /\ ReadBack(disk) = {} /\ (disk.ended => disk.open = {})
  BY OpenedStore DEF NodeInv, DiskInv
<1>2. IsBlock(GenesisBlock)
  BY GenesisIsBlock
<1>3. /\ Height(m.tip) <= Height(s.tip)
      /\ Height(m.tip) \in Int /\ Height(s.tip) \in Int
  BY <1>1, <1>2, SavedRaises, SavedIndex, IndexHeight
<1>4. /\ disk' \in {disk} \cup {Appended(disk, GenesisBlock, cut) : cut \in Cuts}
      /\ \/ mem' = s /\ index' = IndexOf(s)
         \/ mem' \in {m, s} /\ index' = IndexOf(m)
  BY DEF StartFresh, SaveBlock, SaveBlockFails, Cuts
<1>5. ReadBack(disk') \subseteq {GenesisBlock}
  <2>1. \A cut : ReadBack(Appended(disk, GenesisBlock, cut)) \subseteq {GenesisBlock}
    BY <1>1, AppendedReads
  <2> QED
    BY <1>1, <1>4, <2>1
<1>6. Height(index'.tip) <= Height(mem'.tip)
  <2> HIDE DEF s
  <2>1. \/ index'.tip = s.tip /\ mem'.tip = s.tip
        \/ index'.tip = m.tip /\ mem'.tip \in {m.tip, s.tip}
    BY <1>4 DEF IndexOf
  <2> QED
    BY <1>3, <2>1
<1> QED
  BY <1>1, <1>5, <1>6 DEF StartFresh

LEMMA GenesisRooted == FromGenesis({GenesisBlock})
<1>1. IsBlock(GenesisBlock) /\ GenesisBlock[1] = GenesisHeader
  BY GenesisIsBlock DEF GenesisBlock
<1> QED
  BY <1>1 DEF FromGenesis

LEMMA StartRestart ==
  ASSUME NodeInv, RestartInv, Start
  PROVE  RestartInv'
<1>1. Loadable(disk) /\ ~ up /\ ~ disk.bad
  BY DEF Start, Loadable
<1>2. PICK m \in Opened(disk, index) :
        \/ /\ GetTipOk(m) => CanRestore(m)
           /\ IF GetTipOk(m) THEN Restore(m) ELSE StartFresh(m)
        \/ /\ GetTipOk(m)
           /\ index' = IndexOf(m)
           /\ UNCHANGED <<vars, up, disk>>
  BY DEF Start
<1>3. CASE ~ GetTipOk(m)
  <2>1. /\ ReadBack(disk') \subseteq {GenesisBlock}
        /\ tip' = GenesisBlock /\ chain' = GenesisBlock /\ blocks' = {GenesisBlock}
        /\ Height(index'.tip) <= Height(mem'.tip)
    BY <1>1, <1>2, <1>3, FreshReads
  <2>2. FromGenesis(blocks') /\ FromGenesis(ReadBack(disk'))
    BY <2>1, GenesisRooted DEF FromGenesis
  <2> QED
    BY <2>1, <2>2 DEF RestartInv, FromGenesis, ReadBack, OneBranch
<1>4. CASE GetTipOk(m) /\ CanRestore(m) /\ Restore(m)
  <2>1. /\ tip' = m.tip /\ tip' \in ReadBack(disk)
        /\ tip' \in blocks' /\ blocks' \subseteq ReadBack(disk)
        /\ OneBranch(ReadBack(disk)) => chain' = m.tip
    BY <1>1, <1>4, RestoreBrings
  <2>2. /\ disk' = disk /\ mem'.tip = m.tip /\ index'.tip = m.tip
    BY <1>4 DEF Restore, IndexOf
  <2>3. Height(m.tip) \in Nat
    BY <2>1, BlockHeight DEF RestartInv, FromGenesis
  <2>4. FromGenesis(blocks') /\ FromGenesis(ReadBack(disk'))
    BY <2>1, <2>2 DEF RestartInv, FromGenesis
  <2> QED
    BY <2>1, <2>2, <2>3, <2>4 DEF RestartInv, FromGenesis, ReadBack, OneBranch
<1>5. CASE GetTipOk(m) /\ index' = IndexOf(m) /\ UNCHANGED <<vars, up, disk>>
  <2>1. index'.tip = m.tip /\ UNCHANGED <<blocks, tip, chain, up, disk>>
    BY <1>5 DEF IndexOf, vars, chainVars
  <2>2. Height(tip) <= Height(m.tip)
    BY <1>1, <1>5, OpenedTipHigh
  <2> QED
    BY <1>1, <2>1, <2>2 DEF RestartInv, FromGenesis, ReadBack, OneBranch
<1> QED
  BY <1>2, <1>3, <1>4, <1>5

LEMMA IdleRestart ==
  ASSUME RestartInv, up' => up, KeepsTree, UNCHANGED blockStore
  PROVE  RestartInv'
BY DEF RestartInv, FromGenesis, ReadBack, OneBranch, KeepsTree, blockStore

LEMMA RestartNext == NodeInv /\ RestartInv /\ [NodeNext]_nodeVars => RestartInv'
<1> SUFFICES ASSUME NodeInv, RestartInv, [NodeNext]_nodeVars PROVE RestartInv'
  OBVIOUS
<1>1. CASE Start
  BY <1>1, StartRestart
<1>2. CASE Call
  <2>1. up /\ tip \in blocks
    BY <1>2 DEF Call, RestartInv
  <2> QED
    BY <1>2, <2>1, CallKinds, CallMakesRestart, IdleRestart
<1>3. CASE Crash
  BY <1>3, IdleRestart DEF Crash, vars, chainVars, KeepsTree
<1>4. CASE UNCHANGED nodeVars
  BY <1>4, IdleRestart DEF nodeVars, vars, chainVars, KeepsTree
<1> QED
  BY <1>1, <1>2, <1>3, <1>4 DEF NodeNext

LEMMA RestartInvariant == NodeSpec => [](NodeInv /\ RestartInv)
<1>1. NodeInit => RestartInv
  <2> SUFFICES ASSUME NodeInit PROVE RestartInv
    OBVIOUS
  <2>1. ReadBack(disk) = {} /\ ~ up /\ tip = GenesisBlock /\ chain = GenesisBlock
        /\ blocks = {GenesisBlock}
    BY DEF NodeInit, Init, EmptyFile, ReadBack
  <2> QED
    BY <2>1, GenesisRooted DEF RestartInv, FromGenesis
<1> QED
  BY <1>1, NodeInvariant, RestartNext, PTL DEF NodeSpec

LEMMA BlockLength ==
  ASSUME NEW b, IsBlock(b)
  PROVE  Len(b) \in Nat /\ Len(b) >= 1
BY DEF IsBlock

LEMMA FirstAlike ==
  ASSUME NEW s, NEW t, s[1] = t[1]
  PROVE  SubSeq(s, 1, 1) = SubSeq(t, 1, 1)
<1> DEFINE a == SubSeq(s, 1, 1)
           b == SubSeq(t, 1, 1)
           S == {s[1]}
<1>1. a \in Seq(S) /\ Len(a) = 1 /\ a[1] = s[1]
  BY SubSeqProperties
<1>2. b \in Seq(S) /\ Len(b) = 1 /\ b[1] = s[1]
  BY SubSeqProperties
<1> HIDE DEF a, b, S
<1>3. a = b
  BY <1>1, <1>2
<1> QED
  BY <1>3 DEF a, b

\* What a step that starts the node brings back.
LEMMA RestartKeeps ==
  ASSUME NodeInv, RestartInv, [NodeNext]_nodeVars, Restarts
  PROVE  /\ Len(tip') >= Len(tip)
         /\ OneBranch(ReadBack(disk)) => IsPrefix(chain, chain')
<1>1. Start
  <2>1. CASE Call
    BY <2>1 DEF Call, Restarts
  <2>2. CASE Crash
    BY <2>2 DEF Crash, Restarts
  <2>3. CASE UNCHANGED nodeVars
    BY <2>3 DEF nodeVars, Restarts
  <2> QED
    BY <2>1, <2>2, <2>3 DEF NodeNext
<1>2. Loadable(disk) /\ ~ disk.bad
  BY <1>1 DEF Start, Loadable
<1>3. PICK m \in Opened(disk, index) :
        /\ GetTipOk(m) => CanRestore(m)
        /\ IF GetTipOk(m) THEN Restore(m) ELSE StartFresh(m)
  BY <1>1 DEF Start, Restarts
<1>4. Len(tip) \in Nat /\ IsBlock(tip) /\ tip[1] = GenesisHeader
  <2>1. IsBlock(tip) /\ tip[1] = GenesisHeader
    BY DEF RestartInv, FromGenesis
  <2> QED
    BY <2>1, BlockLength
<1>5. CASE ~ GetTipOk(m)
  <2>1. tip = GenesisBlock /\ tip' = GenesisBlock /\ chain' = GenesisBlock
        /\ ReadBack(disk) = {}
    BY <1>2, <1>3, <1>5, OpenedTipHigh, FreshReads
  <2>2. chain = GenesisBlock
    BY <1>2, <2>1 DEF RestartInv, OneBranch
  <2>3. IsPrefix(GenesisBlock, GenesisBlock)
    <3>1. Len(GenesisBlock) = 1
      BY DEF GenesisBlock
    <3> QED
      BY <3>1 DEF IsPrefix
  <2> QED
    BY <1>4, <2>1, <2>2, <2>3
<1>6. CASE GetTipOk(m)
  <2>1. /\ tip' = m.tip /\ tip' \in ReadBack(disk)
        /\ OneBranch(ReadBack(disk)) => chain' = m.tip
        /\ Height(tip) <= Height(m.tip)
    BY <1>2, <1>3, <1>6, RestoreBrings, OpenedTipHigh
  <2>2. /\ Len(m.tip) \in Nat /\ Len(m.tip) >= 1
        /\ m.tip[1] = GenesisHeader
    <3>1. IsBlock(m.tip) /\ m.tip[1] = GenesisHeader
      BY <2>1 DEF RestartInv, FromGenesis
    <3> QED
      BY <3>1, BlockLength
  <2>3. Len(tip) <= Len(m.tip)
    BY <1>4, <2>1, <2>2 DEF Height
  <2>4. ASSUME OneBranch(ReadBack(disk)) PROVE IsPrefix(tip, m.tip)
    <3>1. CASE tip = GenesisBlock
      <4>1. Len(tip) = 1
        BY <3>1 DEF GenesisBlock
      <4>2. SubSeq(tip, 1, 1) = SubSeq(m.tip, 1, 1)
        BY <1>4, <2>2, FirstAlike
      <4> QED
        BY <2>3, <4>1, <4>2 DEF IsPrefix
    <3>2. CASE tip # GenesisBlock
      <4>1. IsPrefix(tip, m.tip) \/ IsPrefix(m.tip, tip)
        BY <1>2, <2>1, <2>4, <3>2 DEF RestartInv, OneBranch
      <4>2. ASSUME IsPrefix(m.tip, tip) PROVE IsPrefix(tip, m.tip)
        <5>1. Len(m.tip) = Len(tip)
          BY <1>4, <2>2, <2>3, <4>2 DEF IsPrefix
        <5> QED
          BY <1>4, <4>2, <5>1 DEF IsPrefix
      <4> QED
        BY <4>1, <4>2
    <3> QED
      BY <3>1, <3>2
  <2>5. OneBranch(ReadBack(disk)) => chain = tip
    BY <1>2 DEF RestartInv
  <2> QED
    BY <1>4, <2>1, <2>2, <2>3, <2>4, <2>5
<1> QED
  BY <1>5, <1>6

\* RestoreFromStorage: whatever saves failed or were interrupted, the tip of a
\* node that starts again is at least as high as the tip it last had.
THEOREM TipNotLowerHolds == NodeSpec => TipNotLower
<1>1. NodeInv /\ RestartInv /\ [NodeNext]_nodeVars =>
        [Restarts => Len(tip') >= Len(tip)]_nodeVars
  BY RestartKeeps
<1> QED
  BY <1>1, RestartInvariant, PTL DEF NodeSpec, TipNotLower

\* RestoreFromStorage and rebuildCanonicalChain: without forks in the file,
\* the canonical chain comes back and may only have grown.
THEOREM RestoredExtendsHolds == NodeSpec => RestoredExtends
<1>1. NodeInv /\ RestartInv /\ [NodeNext]_nodeVars =>
        [Restarts /\ (\A a, b \in ReadBack(disk) : IsPrefix(a, b) \/ IsPrefix(b, a))
           => IsPrefix(chain, chain')]_nodeVars
  BY RestartKeeps DEF OneBranch
<1> QED
  BY <1>1, RestartInvariant, PTL DEF NodeSpec, RestoredExtends

-----------------------------------------------------------------------------
(* What the engine keeps in every life.                                      *)

(***************************************************************************)
(* After a restart the clock starts again: slots no longer rise along a    *)
(* branch, a slot may have two blocks, and the chain may end, downwards,   *)
(* at a block whose parent is gone.  The types rest on none of this: blocks *)
(* are typed in the tree and in the file, and the chain ends with the tip. *)
(***************************************************************************)

IsStored(hash) == IsBlock(hash) /\ AreTyped(hash)

EndsWith(headers, hash) ==
  \E m \in 1..Len(hash) : headers = SubSeq(hash, m, Len(hash))

EngineTyped ==
  /\ RegistryInv
  /\ PoolInv
  /\ tick \in Nat
  /\ finalized \in Nat
  /\ state \in Ledgers /\ genesis \in Ledgers
  /\ SnapsOk(snapshots)
  /\ \A hash \in blocks : IsStored(hash)
  /\ tip \in blocks /\ EndsWith(chain, tip)

SnapshotFilesTyped ==
  /\ SnapsOk(files.json)
  /\ DOMAIN files.tmp \subseteq Nat
  /\ \A e \in DOMAIN files.tmp : \A set \in files.tmp[e] : IsSnapshot(set)

FilesTyped == SnapshotFilesTyped /\ \A b \in ReadBack(disk) : IsStored(b)

NodeTyped == EngineTyped /\ FilesTyped /\ up \in BOOLEAN /\ starts \in 0..MaxStarts

\* rebuildCanonicalChain ends with the block it starts from.
LEMMA WalkEnds ==
  ASSUME NEW known, NEW hash, IsBlock(hash)
  PROVE  EndsWith(Walk(known, hash), hash)
<1> DEFINE orphans == {i \in 2..Len(hash) : SubSeq(hash, 1, i - 1) \notin known}
           n == Len(hash)
<1>1. n \in Nat /\ n >= 1
  BY DEF IsBlock
<1>2. CASE orphans = {}
  <2>1. Walk(known, hash) = hash
    BY <1>2 DEF Walk
  <2>2. SubSeq(hash, 1, Len(hash)) = hash
    BY DEF IsBlock
  <2>3. 1 \in 1..Len(hash)
    BY <1>1
  <2> QED
    BY <2>1, <2>2, <2>3 DEF EndsWith
<1>3. CASE orphans # {}
  <2>1. orphans \in SUBSET (0..n)
    BY <1>1
  <2>2. Walk(known, hash) = SubSeq(hash, Max(orphans), n)
    BY <1>3 DEF Walk
  <2> DEFINE m == Max(orphans)
  <2>3. m \in orphans
    <3> HIDE DEF orphans, n
    <3> QED
      BY <1>1, <1>3, <2>1, MaxProperties
  <2> HIDE DEF m
  <2>4. m \in 1..n
    BY <1>1, <2>3
  <2> QED
    BY <2>2, <2>4 DEF EndsWith, m
<1> QED
  BY <1>2, <1>3

\* The end of a typed block.
LEMMA EndFacts ==
  ASSUME NEW hash, IsStored(hash), NEW headers, EndsWith(headers, hash)
  PROVE  /\ headers # <<>>
         /\ IsSuffix(headers, hash)
         /\ headers[Len(headers)] = hash[Len(hash)]
         /\ hash[Len(hash)].Slot \in Nat
         /\ EpochsOf(headers) \subseteq Nat
         /\ Replayable(headers)
<1> DEFINE n == Len(hash)
           all == {hash[i] : i \in DOMAIN hash}
<1>1. n \in Nat /\ n >= 1 /\ hash \in Seq(all) /\ DOMAIN hash = 1..n
  BY DEF IsStored, IsBlock
<1>2. \A h \in all : IsTyped(h)
  BY <1>1 DEF IsStored, AreTyped
<1>3. PICK m \in 1..n : headers = SubSeq(hash, m, n)
  BY DEF EndsWith
<1> HIDE DEF n, all
<1> DEFINE k == n - m + 1
<1>4. k \in 1..n
  BY <1>1
<1>5. /\ headers \in Seq(all) /\ Len(headers) = k
      /\ \A i \in 1..k : headers[i] = hash[m + i - 1]
  <2>1. m \in 1..(Len(hash) + 1) /\ n \in m - 1..Len(hash)
    BY <1>1 DEF n
  <2>2. /\ Len(SubSeq(hash, m, n)) = IF m <= n THEN n - m + 1 ELSE 0
        /\ \A i \in 1..(n - m + 1) : SubSeq(hash, m, n)[i] = hash[m + i - 1]
        /\ SubSeq(hash, m, n) \in Seq(all)
    BY <1>1, <2>1, SubSeqProperties
  <2> QED
    BY <1>1, <1>3, <2>2
<1>6. /\ DOMAIN headers = 1..k /\ Len(headers) \in Nat /\ Len(headers) >= 1
      /\ headers # <<>>
  BY <1>4, <1>5
<1>7. headers[Len(headers)] = hash[n]
  BY <1>1, <1>3, <1>4, <1>5
<1>8. \A i \in 1..k : headers[i] \in all
  BY <1>5
<1>9. hash[n] \in all
  BY <1>1
<1>10. EpochsOf(headers) \subseteq Nat /\ hash[n].Slot \in Nat
  <2>1. \A h \in all : h.Slot \in Nat
    BY <1>2 DEF IsTyped
  <2>2. \A i \in 1..k : epochForSlot(headers[i].Slot) \in Nat
    BY <1>8, <2>1, EpochNat
  <2> QED
    BY <1>6, <1>9, <2>1, <2>2 DEF EpochsOf
<1>11. Replayable(headers)
  <2>1. \A h \in all : h.Transactions \in Seq(Transaction)
    BY <1>2 DEF IsTyped
  <2>2. \A i \in 1..Len(headers) : headers[i].Transactions \in Seq(Transaction)
    BY <1>5, <1>8, <2>1
  <2>3. headers \in Seq({headers[i] : i \in DOMAIN headers})
    BY <1>5, <1>6
  <2> QED
    BY <1>6, <2>2, <2>3 DEF Replayable
<1>12. IsSuffix(headers, hash)
  <2> DEFINE r == Reverse(headers)
             s == Reverse(hash)
  <2>1. /\ r = [i \in 1..k |-> headers[(k - i) + 1]]
        /\ s = [i \in 1..n |-> hash[(n - i) + 1]]
    BY <1>5 DEF Reverse, n
  <2>2. r \in Seq(all) /\ Len(r) = k
    <3>1. \A i \in 1..k : (k - i) + 1 \in 1..k
      BY <1>4
    <3> HIDE DEF k
    <3>2. \A i \in 1..k : headers[(k - i) + 1] \in all
      BY <1>8, <3>1
    <3>3. k \in Nat
      BY <1>1, <1>4
    <3> QED
      BY <2>1, <3>2, <3>3
  <2>3. s \in Seq(all) /\ Len(s) = n
    <3>1. \A i \in 1..n : (n - i) + 1 \in 1..n
      BY <1>1
    <3>2. \A i \in 1..n : hash[(n - i) + 1] \in all
      BY <1>1, <3>1
    <3> QED
      BY <1>1, <2>1, <3>2
  <2>4. \A i \in 1..k : r[i] = s[i]
    <3> SUFFICES ASSUME NEW i \in 1..k PROVE r[i] = s[i]
      OBVIOUS
    <3>1. /\ i \in 1..n /\ (k - i) + 1 \in 1..k
          /\ m + ((k - i) + 1) - 1 = (n - i) + 1
      BY <1>1, <1>4
    <3>2. headers[(k - i) + 1] = hash[(n - i) + 1]
      <4> HIDE DEF k
      <4> QED
        BY <1>5, <3>1
    <3> HIDE DEF k
    <3> QED
      BY <2>1, <3>1, <3>2
  <2> HIDE DEF r, s, k
  <2>5. SubSeq(r, 1, k) = SubSeq(s, 1, k)
    <3>1. k \in Nat /\ k <= n
      BY <1>1, <1>4
    <3>2. SubSeq(r, 1, k) = [i \in 1..k |-> r[i]]
      BY <2>2, <3>1
    <3>3. SubSeq(s, 1, k) = [i \in 1..k |-> s[i]]
      BY <2>3, <3>1
    <3> QED
      BY <2>4, <3>2, <3>3
  <2>6. Len(r) <= Len(s)
    BY <1>1, <1>4, <2>2, <2>3
  <2> QED
    BY <2>2, <2>5, <2>6 DEF IsSuffix, IsPrefix, r, s
<1> QED
  BY <1>6, <1>7, <1>10, <1>11, <1>12 DEF n

\* Judging slots, in any order, leaves validators, records and snapshots.
Judges(r) == SnapsOk(r.snaps) /\ IsRegistry(r.vals) /\ IsStats(r.sts)

LEMMA JudgedNextJudges ==
  ASSUME NEW r, Judges(r), NEW headers, NEW slot \in Nat, NEW drawn
  PROVE  Judges(JudgedNext(r, headers, slot, drawn))
<1> DEFINE frozen == ensureSnapshots(r.snaps, r.vals, r.sts, {epochForSlot(slot)})
           leader == leaderForSlot(frozen, slot, drawn[slot])
           producer == SlotProduced(headers, slot)
           judged == Judged(r.vals, r.sts, leader, producer, slot)
           next == JudgedNext(r, headers, slot, drawn)
<1>1. SnapsOk(r.snaps) /\ IsRegistry(r.vals) /\ IsStats(r.sts) /\ DOMAIN r.vals \subseteq Names
  BY DEF Judges, IsRegistry
<1>2. leader \in Names \cup {NoLeader}
  BY <1>1, FrozenLeader
<1>3. SnapsOk(frozen)
  BY <1>1, EnsureKeeps, EpochNat
<1>4. next.vals = judged.vals /\ next.sts = judged.sts /\ next.snaps = frozen
  BY DEF JudgedNext
<1> HIDE DEF frozen, leader, producer, next
<1>5. IsRegistry(judged.vals) /\ IsStats(judged.sts)
  <2>1. CASE leader \in {NoLeader, producer}
    <3>1. judged = [vals |-> r.vals, sts |-> r.sts]
      BY <2>1 DEF Judged
    <3> QED
      BY <1>1, <3>1
  <2>2. CASE leader \notin {NoLeader, producer}
    <3>1. judged = MissSlot(r.vals, r.sts, leader, slot) /\ leader \in Names
      BY <1>2, <2>2 DEF Judged
    <3> QED
      BY <1>1, <3>1, MissSlotKeeps
  <2> QED
    BY <2>1, <2>2
<1> HIDE DEF judged
<1> QED
  BY <1>3, <1>4, <1>5 DEF Judges, next

LEMMA RunJudges ==
  ASSUME NEW lo \in Nat, NEW hi \in Nat, NEW base, NEW headers, NEW drawn, NEW run,
         IsRun(run, lo, hi, base, headers, drawn), Judges(base)
  PROVE  \A n \in lo..hi : Judges(run[n])
<1> DEFINE bad == {n \in lo..hi : ~ Judges(run[n])}
           m == Min(bad)
<1> SUFFICES ASSUME bad # {} PROVE FALSE
  OBVIOUS
<1>1. m \in bad /\ \A n \in bad : m <= n
  BY MinProperties
<1> HIDE DEF m
<1>2. \A n \in lo..hi : run[n] = IF n = lo THEN base
                                 ELSE JudgedNext(run[n - 1], headers, n, drawn)
  BY DEF IsRun
<1>3. CASE m = lo
  BY <1>1, <1>2, <1>3
<1>4. CASE m # lo
  <2>1. m \in Nat /\ m - 1 \in lo..hi /\ m - 1 < m
    BY <1>1, <1>4
  <2>2. Judges(run[m - 1])
    BY <1>1, <2>1
  <2>3. Judges(JudgedNext(run[m - 1], headers, m, drawn))
    BY <2>1, <2>2, JudgedNextJudges
  <2> QED
    BY <1>1, <1>2, <1>4, <2>3
<1> QED
  BY <1>3, <1>4

LEMMA MissedSlotsJudge ==
  ASSUME lastProcessed \in Nat, NEW target \in Nat, NEW headers, NEW vals, NEW sts,
         NEW snaps, NEW drawn, SnapsOk(snaps), IsRegistry(vals), IsStats(sts)
  PROVE  Judges(processMissedSlots(headers, target, vals, sts, snaps, drawn))
<1> DEFINE base == [vals |-> vals, sts |-> sts, snaps |-> snaps]
           next == processMissedSlots(headers, target, vals, sts, snaps, drawn)
           run == CHOOSE f : IsRun(f, lastProcessed, target, base, headers, drawn)
<1>1. Judges(base)
  BY DEF Judges
<1>2. CASE target <= lastProcessed
  <2>1. next = base
    BY <1>2 DEF processMissedSlots
  <2> HIDE DEF next, base
  <2> QED
    BY <1>1, <2>1 DEF next
<1>3. CASE ~ (target <= lastProcessed)
  <2>1. next = run[target]
    BY <1>3 DEF processMissedSlots, IsRun
  <2> HIDE DEF next, base
  <2>2. \E f : IsRun(f, lastProcessed, target, base, headers, drawn)
    BY <1>3, RunExists
  <2>3. IsRun(run, lastProcessed, target, base, headers, drawn)
    BY <2>2
  <2> HIDE DEF run
  <2>4. \A n \in lastProcessed..target : Judges(run[n])
    BY <1>1, <2>3, RunJudges
  <2>5. Judges(run[target])
    BY <1>3, <2>4
  <2> QED
    BY <2>1, <2>5 DEF next
<1> QED
  BY <1>2, <1>3

\* A block with a typed header on a stored parent.
LEMMA AppendStored ==
  ASSUME NEW parent, IsStored(parent), NEW header, IsTyped(header)
  PROVE  LET hash == Append(parent, header)
         IN IsStored(hash) /\ hash[Len(hash)] = header
<1> DEFINE hash == Append(parent, header)
           all == {parent[i] : i \in DOMAIN parent}
<1>1. /\ parent \in Seq(all \cup {header}) /\ Len(parent) \in Nat
      /\ \A i \in 1..Len(parent) : IsTyped(parent[i])
  BY DEF IsStored, IsBlock, AreTyped
<1>2. IsBlock(hash)
  BY AppendBlockHeight DEF IsStored
<1>3. /\ Len(hash) = Len(parent) + 1
      /\ hash[Len(parent) + 1] = header
      /\ \A i \in 1..Len(parent) : hash[i] = parent[i]
  BY <1>1
<1> HIDE DEF hash, all
<1>4. \A i \in 1..Len(hash) : IsTyped(hash[i])
  <2>1. \A i \in 1..Len(hash) : i \in 1..Len(parent) \/ i = Len(parent) + 1
    BY <1>1, <1>3
  <2> QED
    BY <1>1, <1>3, <2>1
<1> QED
  BY <1>2, <1>3, <1>4 DEF IsStored, AreTyped, hash

\* updateFinality counts slots.
LEMMA FinalityTyped ==
  ASSUME finalized \in Nat, NEW slot \in Nat
  PROVE  FinalizedBy(slot) \in Nat /\ FirstFinality(slot) \in Nat
<1>1. FinalitySlots \in Nat
  BY ConfigAssumption
<1> QED
  BY <1>1 DEF FinalizedBy, FirstFinality

\* An accepted block, also one that proves an equivocation or misses a parent.
LEMMA AcceptTyped ==
  ASSUME EngineTyped, PoolInv', tick' \in Nat, NEW parent \in blocks, NEW st \in Ledgers,
         NEW txs \in Seq(Transaction), NEW draw, CanMakeBlock(st, txs, draw),
         Accept(Append(parent, NewHeader(st, txs, draw)))
  PROVE  EngineTyped'
<1> DEFINE header == NewHeader(st, txs, draw)
           hash == Append(parent, header)
           double == Equivocates(hash)
           then == IF double
                   THEN PunishEquivocation(validators, stats, header.Validator, header.Slot)
                   ELSE [vals |-> validators, sts |-> stats]
           branch == Walk(blocks, hash)
           epochs == EpochsOf(TipWalk(hash)) \cup EpochsOf(branch)
           snaps == ensureSnapshots(SnapshotsNow, then.vals, then.sts, epochs)
           verdict == IF branch = hash THEN Verdict(chain, hash, snaps) ELSE "missing"
           canonical == IF verdict = "adopt" THEN hash ELSE chain
           target == canonical[Len(canonical)].Slot
           vals == Rewarded(then.vals, header.Validator)
           judged == processMissedSlots(canonical, target, vals, then.sts, snaps, draws')
           replayed == Replay(hash, genesis, then.vals)
<1>1. /\ IsRegistry(validators) /\ IsStats(stats) /\ lastProcessed \in Nat
      /\ tick \in Nat /\ finalized \in Nat /\ state \in Ledgers /\ genesis \in Ledgers
      /\ SnapsOk(snapshots) /\ tip \in blocks /\ EndsWith(chain, tip)
      /\ \A b \in blocks : IsStored(b)
  BY DEF EngineTyped, RegistryInv
<1>2. IsTyped(header) /\ header.Validator \in Names /\ header.Slot \in Nat
  <2>1. Verified(header, st)
    BY <1>1, NewHeaderVerified
  <2> HIDE DEF header
  <2> QED
    BY <1>1, <2>1 DEF Verified, IsTyped, SignatureVerifies, IsRegistry
<1> HIDE DEF header
<1>3. IsStored(hash) /\ hash[Len(hash)] = header
  BY <1>1, <1>2, AppendStored
<1>4. /\ blocks' = blocks \cup {hash}
      /\ updateCanonical(hash, verdict, then.vals)
      /\ validators' = judged.vals
      /\ stats' = judged.sts
      /\ snapshots' = judged.snaps
      /\ lastProcessed' = IF target > lastProcessed THEN target ELSE lastProcessed
      /\ genesis' = genesis
  BY <1>3 DEF Accept, header
<1> HIDE DEF hash
<1>5. IsRegistry(then.vals) /\ IsStats(then.sts)
  BY <1>1, <1>2, PunishEquivocationKeeps
<1> HIDE DEF then
<1>6. IsRegistry(vals)
  BY <1>5, RewardedKeeps
<1>7. EndsWith(branch, hash) /\ EndsWith(TipWalk(hash), tip)
  BY <1>1, <1>3, WalkEnds DEF IsStored, TipWalk
<1>8. epochs \in SUBSET Nat
  BY <1>1, <1>3, <1>7, EndFacts
<1>9. SnapsOk(snaps)
  <2>1. SnapsOk(SnapshotsNow) /\ DOMAIN then.vals \subseteq Names
    BY <1>1, <1>5, NowKeeps DEF IsRegistry
  <2> HIDE DEF epochs
  <2> QED
    BY <1>8, <2>1, EnsureKeeps
<1> HIDE DEF epochs, snaps, vals, branch
<1>10. target \in Nat
  <2>1. chain[Len(chain)].Slot \in Nat
    BY <1>1, EndFacts
  <2>2. canonical \in {hash, chain}
    OBVIOUS
  <2> HIDE DEF canonical
  <2> QED
    BY <1>2, <1>3, <2>1, <2>2
<1> HIDE DEF target, canonical
<1>11. Judges(judged)
  BY <1>1, <1>5, <1>6, <1>9, <1>10, MissedSlotsJudge
<1> HIDE DEF judged
<1>12. RegistryInv' /\ SnapsOk(snapshots')
  <2>1. IsRegistry(validators') /\ IsStats(stats') /\ SnapsOk(snapshots')
    BY <1>4, <1>11 DEF Judges
  <2>2. lastProcessed' \in Nat
    BY <1>1, <1>4, <1>10
  <2> QED
    BY <2>1, <2>2 DEF RegistryInv, IsRegistry, IsStats
<1>13. replayed \in Results
  <2>1. IsBlock(hash) /\ EndsWith(hash, hash)
    <3>1. IsBlock(hash) /\ 1 \in 1..Len(hash) /\ SubSeq(hash, 1, Len(hash)) = hash
      BY <1>3 DEF IsStored, IsBlock
    <3> QED
      BY <3>1 DEF EndsWith
  <2>2. Replayable(hash)
    BY <1>3, <2>1, EndFacts
  <2> QED
    BY <1>1, <1>5, <2>2, ReplayTyped
<1>14. /\ state' \in {state, replayed.st}
       /\ \/ tip' = hash /\ chain' = hash /\ finalized' = FinalizedBy(header.Slot)
          \/ UNCHANGED <<tip, chain, finalized>>
  BY <1>3, <1>4 DEF updateCanonical
<1> HIDE DEF replayed
<1>15. state' \in Ledgers /\ genesis' \in Ledgers
  BY <1>1, <1>4, <1>13, <1>14 DEF Results
<1>16. tip' \in blocks' /\ EndsWith(chain', tip') /\ finalized' \in Nat
  <2>1. CASE tip' = hash /\ chain' = hash /\ finalized' = FinalizedBy(header.Slot)
    <3>1. 1 \in 1..Len(hash) /\ SubSeq(hash, 1, Len(hash)) = hash
      BY <1>3 DEF IsStored, IsBlock
    <3> QED
      BY <1>1, <1>2, <1>4, <2>1, <3>1, FinalityTyped DEF EndsWith
  <2>2. CASE UNCHANGED <<tip, chain, finalized>>
    BY <1>1, <1>4, <2>2 DEF EndsWith
  <2> QED
    BY <1>14, <2>1, <2>2
<1>17. \A b \in blocks' : IsStored(b)
  BY <1>1, <1>3, <1>4
<1> QED
  BY <1>12, <1>15, <1>16, <1>17 DEF EngineTyped

\* The pool is popped for a block or left alone.
LEMMA PoolOfBlock ==
  ASSUME EngineTyped, NEW draw, Popped(PickNow(draw)) \/ UNCHANGED mempoolVars
  PROVE  PoolInv'
<1>1. PoolInv /\ state \in Ledgers /\ IsRegistry(validators)
  BY DEF EngineTyped, RegistryInv
<1>2. CASE UNCHANGED mempoolVars
  BY <1>1, <1>2 DEF mempoolVars, PoolInv, MempoolTypeOK, NoneTwice, InOrder
<1>3. CASE Popped(PickNow(draw))
  <2>1. GoodPick(PickNow(draw), list, state, ProducerNow(draw), Len(list))
    BY <1>1, PickNowIsGood
  <2> QED
    BY <1>1, <1>3, <2>1, PoppedKeepsPool
<1> QED
  BY <1>2, <1>3

\* A batch of transactions, given or popped.
LEMMA BatchTyped ==
  ASSUME EngineTyped, NEW batch \in Batches \cup {<<>>}, NEW draw
  PROVE  batch \in Seq(Transaction) /\ TxsNow(batch, draw) \in Seq(Transaction)
<1>1. <<>> \in Seq(Transaction)
  OBVIOUS
<1>2. batch \in Seq(Transaction)
  BY <1>1, WorldAssumption
<1>3. PickNow(draw).out \in Seq(Transaction)
  BY PickNowIsGood DEF EngineTyped, RegistryInv
<1> QED
  BY <1>2, <1>3 DEF TxsNow

LEMMA EmptyLedger == EmptyMap \in Ledgers
<1>1. DOMAIN EmptyMap = {} /\ EmptyMap \in [{} -> Account]
  BY DEF EmptyMap
<1> QED
  BY <1>1, LedgerIs, FS_EmptySet

LEMMA WholeBlock ==
  ASSUME NEW hash, IsBlock(hash)
  PROVE  EndsWith(hash, hash)
<1>1. 1 \in 1..Len(hash) /\ SubSeq(hash, 1, Len(hash)) = hash
  BY DEF IsBlock
<1> QED
  BY <1>1 DEF EndsWith

\* The ledger of a stored parent, also one whose ancestors are missing.
LEMMA StoredLedger ==
  ASSUME EngineTyped, NEW parent \in blocks
  PROVE  stateAtTip(parent).st \in Ledgers
<1>1. IsStored(parent) /\ genesis \in Ledgers /\ IsRegistry(validators)
  BY DEF EngineTyped, RegistryInv
<1>2. Replayable(parent)
  BY <1>1, WholeBlock, EndFacts DEF IsStored
<1>3. Replay(parent, genesis, validators) \in Results
  BY <1>1, <1>2, ReplayTyped
<1>4. stateAtTip(parent) \in {Replay(parent, genesis, validators),
                              [ok |-> FALSE, st |-> EmptyMap]}
  BY DEF stateAtTip
<1> QED
  BY <1>3, <1>4, EmptyLedger DEF Results

\* A step that touches neither the tree nor the chain.
LEMMA SettledTyped ==
  ASSUME EngineTyped, UNCHANGED <<blocks, tip, chain, finalized>>, PoolInv',
         RegistryInv', tick' \in Nat, SnapsOk(snapshots'),
         state' \in Ledgers, genesis' \in Ledgers
  PROVE  EngineTyped'
BY DEF EngineTyped, EndsWith

LEMMA TickTyped ==
  ASSUME EngineTyped, NEW draw, TickSlot(draw)
  PROVE  tick' \in Nat
BY NextSlotIsNext DEF TickSlot, EngineTyped

LEMMA NowTyped ==
  ASSUME EngineTyped
  PROVE  SnapsOk(SnapshotsNow)
BY NowKeeps DEF EngineTyped, RegistryInv, IsRegistry

LEMMA RefusedTyped ==
  ASSUME EngineTyped, PoolInv', tick' \in Nat, NEW leader, Refuse(leader)
  PROVE  EngineTyped'
<1>1. /\ validators' = SlashValidator(validators, leader, SlashPenalty)
      /\ snapshots' = SnapshotsNow
      /\ UNCHANGED <<blocks, tip, chain, state, finalized, stats, lastProcessed, genesis>>
  BY DEF Refuse, chainVars
<1>2. SlashPenalty \in Nat
  BY StakingAssumption
<1>3. IsRegistry(validators')
  BY <1>1, <1>2, SlashRegistry DEF EngineTyped, RegistryInv
<1>4. RegistryInv'
  BY <1>1, <1>3 DEF EngineTyped, RegistryInv, IsRegistry, IsStats
<1>5. SnapsOk(snapshots') /\ state' \in Ledgers /\ genesis' \in Ledgers
  BY <1>1, NowTyped DEF EngineTyped
<1> QED
  BY <1>1, <1>4, <1>5, SettledTyped

LEMMA FreezeTyped ==
  ASSUME EngineTyped, NEW epochs \in SUBSET Nat, Freeze(epochs)
  PROVE  EngineTyped'
<1>1. /\ snapshots' = ensureSnapshots(snapshots, validators, stats, epochs)
      /\ UNCHANGED <<validators, stats, lastProcessed, blocks, tip, chain, state,
                     finalized, tick, genesis, list, byHash>>
  BY DEF Freeze, registryVars, chainVars, mempoolVars
<1>2. SnapsOk(snapshots) /\ DOMAIN validators \subseteq Names
  BY DEF EngineTyped, RegistryInv, IsRegistry
<1>3. SnapsOk(snapshots')
  BY <1>1, <1>2, EnsureKeeps
<1>4. PoolInv'
  BY <1>1 DEF EngineTyped, PoolInv, MempoolTypeOK, NoneTwice, InOrder
<1>5. RegistryInv'
  BY <1>1 DEF EngineTyped, RegistryInv, IsRegistry, IsStats
<1> QED
  BY <1>1, <1>3, <1>4, <1>5, SettledTyped DEF EngineTyped

\* The calls that make no block.
LEMMA OtherTyped ==
  ASSUME EngineTyped, OtherCall
  PROVE  EngineTyped'
<1>1. [Next]_vars
  BY DEF Next
<1>2. /\ PoolInv /\ state \in Ledgers /\ genesis \in Ledgers /\ IsRegistry(validators)
      /\ RegistryInv /\ tick \in Nat /\ SnapsOk(snapshots)
  BY DEF EngineTyped, RegistryInv
<1>3. PoolInv'
  BY <1>1, <1>2, PoolStep
<1>4. ASSUME UNCHANGED <<blocks, tip, chain, finalized, tick, snapshots>>, RegistryInv',
             state' \in Ledgers, genesis' \in Ledgers
      PROVE  EngineTyped'
  BY <1>2, <1>3, <1>4, SettledTyped
<1>5. ASSUME UNCHANGED registryVars PROVE RegistryInv'
  BY <1>2, <1>5 DEF registryVars, RegistryInv, IsRegistry, IsStats
<1>6. CASE VerifyChain
  <2>1. SlashPenalty \in Nat
    BY StakingAssumption
  <2>2. IsRegistry(validators')
    BY <1>2, <1>6, <2>1, SlashRegistry, VerifyChainEffect
  <2>3. /\ RegistryInv'
        /\ UNCHANGED <<blocks, tip, chain, state, finalized, tick, genesis>>
    BY <1>2, <1>6, <2>2, VerifyChainEffect DEF RegistryInv, IsRegistry, IsStats, chainVars
  <2>4. PICK epochs \in SUBSET {epochForSlot(chain[i].Slot) : i \in 2..Len(chain)} :
          snapshots' = ensureSnapshots(snapshots, validators, stats, epochs)
    BY <1>6, VerifyChainEffect
  <2>5. epochs \in SUBSET Nat
    <3>1. EpochsOf(chain) \subseteq Nat
      BY EndFacts DEF EngineTyped
    <3>2. \A i \in 2..Len(chain) : i \in DOMAIN chain
      BY EndFacts DEF EngineTyped, Replayable
    <3> QED
      BY <2>4, <3>1, <3>2 DEF EpochsOf
  <2>6. SnapsOk(snapshots')
    BY <1>2, <2>4, <2>5, EnsureKeeps DEF IsRegistry
  <2> QED
    BY <1>2, <1>3, <2>3, <2>6, SettledTyped
<1>7. ASSUME NEW pair \in Balances, SetBalance(pair[1], pair[2])
      PROVE  EngineTyped'
  <2>1. state' \in Ledgers /\ genesis' \in Ledgers
    BY <1>2, <1>7, SetBalanceTyped
  <2> QED
    BY <1>4, <1>5, <1>7, <2>1 DEF SetBalance
<1>8. ASSUME NEW tx, AddTx(tx)
      PROVE  EngineTyped'
  BY <1>2, <1>4, <1>5, <1>8 DEF AddTx, chainVars
<1>9. \A hash \in blocks : /\ IsStored(hash)
                           /\ hash[Len(hash)].Slot \in Nat
                           /\ EpochsOf(Walk(blocks, hash)) \subseteq Nat
  <2> SUFFICES ASSUME NEW hash \in blocks
               PROVE  /\ IsStored(hash)
                      /\ hash[Len(hash)].Slot \in Nat
                      /\ EpochsOf(Walk(blocks, hash)) \subseteq Nat
    OBVIOUS
  <2>1. IsStored(hash)
    BY DEF EngineTyped
  <2>2. EndsWith(Walk(blocks, hash), hash)
    BY <2>1, WalkEnds DEF IsStored
  <2> QED
    BY <2>1, <2>2, EndFacts
<1>10. ASSUME NEW slot \in Slots, GetEpochSnapshot(slot)
       PROVE  EngineTyped'
  <2>1. {epochForSlot(slot)} \in SUBSET Nat
    BY EpochNat, WorldAssumption
  <2> QED
    BY <1>10, <2>1, FreezeTyped DEF GetEpochSnapshot
<1>11. ASSUME NEW hash \in blocks, ScoreTip(hash)
       PROVE  EngineTyped'
  BY <1>9, <1>11, FreezeTyped DEF ScoreTip
<1>12. CASE WeightDeltaRequired
  <2>1. chain[Len(chain)].Slot \in Nat
    BY <1>9, EndFacts DEF EngineTyped
  <2>2. {epochForSlot(chain[Len(chain)].Slot)} \in SUBSET Nat
    BY <2>1, EpochNat
  <2> QED
    BY <1>12, <2>2, FreezeTyped DEF WeightDeltaRequired
<1>13. CASE GetForkCandidates
  <2>1. {epochForSlot(hash[Len(hash)].Slot) : hash \in blocks} \in SUBSET Nat
    BY <1>9, EpochNat
  <2> QED
    BY <1>13, <2>1, FreezeTyped DEF GetForkCandidates
<1>14. CASE ResetReorgStats
  BY <1>2, <1>4, <1>5, <1>14 DEF ResetReorgStats
<1>15. CASE ChangeValidators
  <2>1. ASSUME NEW pair \in KeyPairs
        PROVE  pair[1] \in Keys \cup {NoKey} /\ pair[2] \in Keys \cup {NoKey}
    BY WorldAssumption
  <2>2. RegistryNext
    BY <1>15, <2>1 DEF ChangeValidators, RegistryNext
  <2>3. RegistryInv'
    BY <1>2, <2>2, RegistryStep
  <2> QED
    BY <1>2, <1>4, <1>15, <2>3 DEF ChangeValidators, chainVars
<1> QED
  BY <1>6, <1>7, <1>8, <1>10, <1>11, <1>12, <1>13, <1>14, <1>15 DEF OtherCall

\* What a call appends to the file, in full or cut short, is a typed block.
AppendsStored ==
  \/ disk' = disk
  \/ \E hash, cut : IsStored(hash) /\ disk' = Appended(disk, hash, cut)

LEMMA SavesStored ==
  ASSUME NEW hash, IsStored(hash),
         SaveBlock(mem, index, hash) \/ SaveBlockFails(mem, index, hash)
  PROVE  AppendsStored
<1>1. disk' = disk \/ \E cut : disk' = Appended(disk, hash, cut)
  BY DEF SaveBlock, SaveBlockFails
<1> QED
  BY <1>1 DEF AppendsStored

LEMMA MadeStored ==
  ASSUME EngineTyped, NEW parent \in blocks, NEW st \in Ledgers,
         NEW txs \in Seq(Transaction), NEW draw, CanMakeBlock(st, txs, draw)
  PROVE  IsStored(Append(parent, NewHeader(st, txs, draw)))
<1>1. IsTyped(NewHeader(st, txs, draw))
  BY NewHeaderVerified DEF Verified, EngineTyped, RegistryInv
<1>2. IsStored(parent)
  BY DEF EngineTyped
<1> QED
  BY <1>1, <1>2, AppendStored

\* A call that ends in SaveBlock.
LEMMA EndsTyped ==
  ASSUME EngineTyped, PoolInv', tick' \in Nat, NEW hash, EndsInSave(hash)
  PROVE  EngineTyped'
<1>1. /\ snapshots' = SnapshotsNow
      /\ UNCHANGED <<validators, stats, lastProcessed, blocks, tip, chain, state,
                     finalized, genesis>>
  BY DEF EndsInSave, registryVars, chainVars
<1>2. RegistryInv'
  BY <1>1 DEF EngineTyped, RegistryInv, IsRegistry, IsStats
<1>3. SnapsOk(snapshots') /\ state' \in Ledgers /\ genesis' \in Ledgers
  BY <1>1, NowTyped DEF EngineTyped
<1> QED
  BY <1>1, <1>2, <1>3, SettledTyped

LEMMA NodeAddBlockTyped ==
  ASSUME EngineTyped, NEW batch \in Batches \cup {<<>>}, NEW draw,
         NodeAddBlock(batch, draw)
  PROVE  EngineTyped' /\ AppendsStored
<1> DEFINE txs == TxsNow(batch, draw)
           hash == Append(tip, NewHeader(state, txs, draw))
<1>1. tip \in blocks /\ state \in Ledgers
  BY DEF EngineTyped
<1>2. txs \in Seq(Transaction)
  BY BatchTyped
<1>3. /\ TickSlot(draw)
      /\ Popped(PickNow(draw)) \/ UNCHANGED mempoolVars
  BY DEF NodeAddBlock, AddBlock
<1>4. PoolInv' /\ tick' \in Nat
  BY <1>3, PoolOfBlock, TickTyped
<1> HIDE DEF txs
<1>5. CASE CanMakeBlock(state, txs, draw) /\ EndsInSave(hash)
  <2>1. IsStored(hash)
    BY <1>1, <1>2, <1>5, MadeStored
  <2> HIDE DEF hash
  <2>2. AppendsStored
    BY <1>5, <2>1, SavesStored DEF EndsInSave
  <2> QED
    BY <1>4, <1>5, <2>2, EndsTyped
<1>6. CASE CanMakeBlock(state, txs, draw) /\ Accept(hash) /\ SaveBlock(mem, index, hash)
  <2>1. EngineTyped'
    BY <1>1, <1>2, <1>4, <1>6, AcceptTyped
  <2>2. IsStored(hash)
    BY <1>1, <1>2, <1>6, MadeStored
  <2> HIDE DEF hash
  <2> QED
    BY <1>6, <2>1, <2>2, SavesStored
<1>7. CASE Refuse(LeaderNow(draw)) /\ UNCHANGED blockStore
  BY <1>4, <1>7, RefusedTyped DEF AppendsStored, blockStore
<1> QED
  BY <1>5, <1>6, <1>7 DEF NodeAddBlock, AddBlock, txs

LEMMA NodeAddBlockExternalTyped ==
  ASSUME EngineTyped, NEW parent \in blocks, NEW batch \in Batches \cup {<<>>}, NEW draw,
         NodeAddBlockExternal(parent, batch, draw)
  PROVE  EngineTyped' /\ AppendsStored
<1> DEFINE base == stateAtTip(parent)
           hash == Append(parent, NewHeader(base.st, batch, draw))
<1>1. base.st \in Ledgers
  BY StoredLedger
<1>2. batch \in Seq(Transaction)
  BY BatchTyped
<1>3. TickSlot(draw) /\ UNCHANGED mempoolVars
  BY DEF NodeAddBlockExternal, AddBlockExternal
<1>4. PoolInv' /\ tick' \in Nat
  BY <1>3, PoolOfBlock, TickTyped
<1>5. \/ CanMakeBlock(base.st, batch, draw) /\ EndsInSave(hash)
      \/ /\ CanMakeBlock(base.st, batch, draw) /\ Accept(hash)
         /\ SaveBlock(mem, index, hash)
      \/ Refuse(LeaderNow(draw)) /\ UNCHANGED blockStore
      \/ /\ snapshots' = SnapshotsNow
         /\ UNCHANGED <<registryVars, chainVars, genesis, blockStore>>
  <2> HIDE DEF base
  <2>1. CanMakeBlock(base.st, batch, draw) => VerifyTransactions(batch)
    BY DEF CanMakeBlock
  <2> QED
    BY <2>1 DEF NodeAddBlockExternal, AddBlockExternal, base
<1> HIDE DEF base
<1>6. CASE CanMakeBlock(base.st, batch, draw) /\ EndsInSave(hash)
  <2>1. IsStored(hash)
    BY <1>1, <1>2, <1>6, MadeStored
  <2> HIDE DEF hash
  <2>2. AppendsStored
    BY <1>6, <2>1, SavesStored DEF EndsInSave
  <2> QED
    BY <1>4, <1>6, <2>2, EndsTyped
<1>7. CASE CanMakeBlock(base.st, batch, draw) /\ Accept(hash) /\ SaveBlock(mem, index, hash)
  <2>1. EngineTyped'
    BY <1>1, <1>2, <1>4, <1>7, AcceptTyped
  <2>2. IsStored(hash)
    BY <1>1, <1>2, <1>7, MadeStored
  <2> HIDE DEF hash
  <2> QED
    BY <1>7, <2>1, <2>2, SavesStored
<1>8. CASE Refuse(LeaderNow(draw)) /\ UNCHANGED blockStore
  BY <1>4, <1>8, RefusedTyped DEF AppendsStored, blockStore
<1>9. CASE /\ snapshots' = SnapshotsNow
           /\ UNCHANGED <<registryVars, chainVars, genesis, blockStore>>
  <2>1. UNCHANGED <<validators, stats, lastProcessed, blocks, tip, chain, state,
                    finalized, genesis, disk>>
    BY <1>9 DEF registryVars, chainVars, blockStore
  <2>2. RegistryInv'
    BY <2>1 DEF EngineTyped, RegistryInv, IsRegistry, IsStats
  <2>3. SnapsOk(snapshots') /\ state' \in Ledgers /\ genesis' \in Ledgers
    BY <1>9, <2>1, NowTyped DEF EngineTyped
  <2> QED
    BY <1>4, <2>1, <2>2, <2>3, SettledTyped DEF AppendsStored
<1> QED
  BY <1>5, <1>6, <1>7, <1>8, <1>9

\* What a reader finds in the file after a call.
LEMMA ReadsStored ==
  ASSUME FilesTyped, disk.ended => disk.open = {}, AppendsStored
  PROVE  \A b \in ReadBack(disk') : IsStored(b)
<1>1. \A b \in ReadBack(disk) : IsStored(b)
  BY DEF FilesTyped
<1>2. CASE disk' = disk
  BY <1>1, <1>2
<1>3. ASSUME NEW hash, NEW cut, IsStored(hash), disk' = Appended(disk, hash, cut)
      PROVE  \A b \in ReadBack(disk') : IsStored(b)
  <2>1. ReadBack(disk') \subseteq ReadBack(disk) \cup {hash}
    BY <1>3, AppendedReads
  <2> QED
    BY <1>1, <1>3, <2>1
<1> QED
  BY <1>2, <1>3 DEF AppendsStored

\* Snapshots are saved as they are frozen.
LEMMA SavedSnapshotsTyped ==
  ASSUME SnapshotFilesTyped, SnapsOk(snapshots'), SaveSnapshots
  PROVE  SnapshotFilesTyped'
<1> DEFINE new == DOMAIN snapshots' \ DOMAIN snapshots
           Ended(save, how) == {e \in new : save[e] = how}
           json(save) == [e \in DOMAIN files.json \cup Ended(save, "renamed") |->
                            IF e \in Ended(save, "renamed") THEN snapshots'[e]
                            ELSE files.json[e]]
           tmp(save) == [e \in (DOMAIN files.tmp \ Ended(save, "renamed"))
                                 \cup Ended(save, "written") \cup Ended(save, "torn") |->
                           CASE e \in Ended(save, "written") -> {snapshots'[e]}
                             [] e \in Ended(save, "torn") -> {}
                             [] OTHER -> files.tmp[e]]
<1>1. PICK save : files' = [json |-> json(save), tmp |-> tmp(save)]
  BY DEF SaveSnapshots
<1>2. \A e \in new : e \in Nat /\ IsSnapshot(snapshots'[e])
  BY DEF SnapsOk
<1>3. DOMAIN files.json \subseteq Nat /\ \A e \in DOMAIN files.json : IsSnapshot(files.json[e])
  BY DEF SnapshotFilesTyped, SnapsOk
<1>4. /\ DOMAIN files.tmp \subseteq Nat
      /\ \A e \in DOMAIN files.tmp : \A set \in files.tmp[e] : IsSnapshot(set)
  BY DEF SnapshotFilesTyped
<1> HIDE DEF new
<1>5. SnapsOk(json(save))
  BY <1>2, <1>3 DEF SnapsOk
<1>6. DOMAIN tmp(save) \subseteq Nat
  BY <1>2, <1>4
<1>7. ASSUME NEW e \in DOMAIN tmp(save), NEW set \in tmp(save)[e]
      PROVE  IsSnapshot(set)
  <2>1. CASE e \in Ended(save, "written")
    <3>1. tmp(save)[e] = {snapshots'[e]}
      BY <2>1
    <3> QED
      BY <1>2, <1>7, <2>1, <3>1
  <2>2. CASE e \notin Ended(save, "written") /\ e \in Ended(save, "torn")
    <3>1. tmp(save)[e] = {}
      BY <2>2
    <3> QED
      BY <1>7, <3>1
  <2>3. CASE e \notin Ended(save, "written") /\ e \notin Ended(save, "torn")
    <3>1. e \in DOMAIN files.tmp /\ tmp(save)[e] = files.tmp[e]
      BY <1>7, <2>3
    <3> QED
      BY <1>4, <1>7, <3>1
  <2> QED
    BY <2>1, <2>2, <2>3
<1> HIDE DEF json, tmp
<1>8. files'.json = json(save) /\ files'.tmp = tmp(save)
  BY <1>1
<1> QED
  BY <1>5, <1>6, <1>7, <1>8 DEF SnapshotFilesTyped

LEMMA CallTyped ==
  ASSUME NodeTyped, disk.ended => disk.open = {}, Call
  PROVE  NodeTyped'
<1>1. EngineTyped /\ FilesTyped /\ SnapshotFilesTyped /\ starts \in 0..MaxStarts
      /\ up \in BOOLEAN
  BY DEF NodeTyped, FilesTyped, SnapshotFilesTyped
<1>2. EngineTyped' /\ AppendsStored
  <2>1. ASSUME NEW batch \in Batches \cup {<<>>}, NEW draw, NodeAddBlock(batch, draw)
        PROVE  EngineTyped' /\ AppendsStored
    BY <1>1, <2>1, NodeAddBlockTyped
  <2>2. ASSUME NEW parent \in blocks, NEW batch \in Batches \cup {<<>>}, NEW draw,
               NodeAddBlockExternal(parent, batch, draw)
        PROVE  EngineTyped' /\ AppendsStored
    BY <1>1, <2>2, NodeAddBlockExternalTyped
  <2>3. CASE NodeOtherCall
    BY <1>1, <2>3, OtherTyped DEF NodeOtherCall, AppendsStored, blockStore
  <2> QED
    BY <2>1, <2>2, <2>3 DEF Call
<1>3. FilesTyped'
  <2>1. \A b \in ReadBack(disk') : IsStored(b)
    BY <1>1, <1>2, ReadsStored
  <2>2. SnapshotFilesTyped'
    BY <1>1, <1>2, SavedSnapshotsTyped DEF EngineTyped, Call
  <2> QED
    BY <2>1, <2>2 DEF FilesTyped, ReadBack
<1>4. up' \in BOOLEAN /\ starts' = starts
  <2>1. starts' = starts /\ up
    BY DEF Call
  <2>2. ASSUME NEW hash, EndsInSave(hash) PROVE up' \in BOOLEAN
    BY <2>2 DEF EndsInSave
  <2>3. up' = up \/ up' \in BOOLEAN
    BY <2>2 DEF Call, NodeAddBlock, NodeAddBlockExternal, NodeOtherCall
  <2> QED
    BY <2>1, <2>3
<1> QED
  BY <1>1, <1>2, <1>3, <1>4 DEF NodeTyped

LEMMA GenesisStored == IsStored(GenesisBlock)
<1>1. IsTyped(GenesisHeader)
  BY EmptyLedger DEF IsTyped, GenesisHeader
<1> QED
  BY <1>1, GenesisIsBlock DEF IsStored, AreTyped, GenesisBlock

\* What every start sets is typed, whatever the store holds.
LEMMA FreshTyped ==
  ASSUME FreshEngine
  PROVE  RegistryInv' /\ PoolInv' /\ tick' = 0 /\ genesis' = EmptyMap
<1>1. RegistryInv'
  <2>1. IsRegistry(EmptyMap) /\ IsStats([n \in Names |-> ZeroStats])
    BY StakingAssumption DEF IsRegistry, IsStats, EmptyMap, ZeroStats, ValidatorStats
  <2>2. /\ validators' = EmptyMap /\ stats' = [n \in Names |-> ZeroStats]
        /\ lastProcessed' = 0
    BY DEF FreshEngine
  <2> QED
    BY <2>1, <2>2 DEF RegistryInv, IsRegistry, IsStats
<1>2. PoolInv'
  <2>1. list' = <<>> /\ byHash' = {} /\ <<>> \in Seq(Transaction) /\ Len(<<>>) = 0
    BY DEF FreshEngine
  <2> QED
    BY <2>1, EmptyToSet DEF PoolInv, MempoolTypeOK, NoneTwice, InOrder
<1> QED
  BY <1>1, <1>2 DEF FreshEngine

LEMMA StartTyped ==
  ASSUME NodeInv, RestartInv, NodeTyped, Start
  PROVE  NodeTyped'
<1>1. Loadable(disk) /\ starts < MaxStarts /\ files' = files
  BY DEF Start
<1>2. /\ EngineTyped /\ FilesTyped /\ starts \in 0..MaxStarts /\ up \in BOOLEAN
      /\ MaxStarts \in Nat
  BY StartsAssumption DEF NodeTyped
<1>3. starts + 1 \in 0..MaxStarts
  BY <1>1, <1>2
<1>4. PICK m \in Opened(disk, index) :
        \/ /\ GetTipOk(m) => CanRestore(m)
           /\ IF GetTipOk(m) THEN Restore(m) ELSE StartFresh(m)
           /\ up' = TRUE /\ starts' = starts + 1
        \/ UNCHANGED <<vars, up, disk, starts>>
  BY DEF Start
<1>5. CASE UNCHANGED <<vars, up, disk, starts>>
  BY <1>1, <1>2, <1>5
     DEF NodeTyped, EngineTyped, FilesTyped, SnapshotFilesTyped, RegistryInv, IsRegistry,
         IsStats, PoolInv, MempoolTypeOK, NoneTwice, InOrder, EndsWith, ReadBack, vars,
         registryVars, mempoolVars, chainVars
<1>6. CASE ~ GetTipOk(m) /\ StartFresh(m) /\ up' = TRUE /\ starts' = starts + 1
  <2>1. /\ FreshEngine /\ state' = EmptyMap /\ finalized' = 0 /\ snapshots' = EmptyMap
    BY <1>6 DEF StartFresh
  <2>2. /\ ReadBack(disk') \subseteq {GenesisBlock}
        /\ tip' = GenesisBlock /\ chain' = GenesisBlock /\ blocks' = {GenesisBlock}
    BY <1>1, <1>6, FreshReads
  <2>3. IsStored(GenesisBlock) /\ EndsWith(GenesisBlock, GenesisBlock)
    BY GenesisStored, WholeBlock DEF IsStored
  <2>4. SnapsOk(EmptyMap)
    BY DEF SnapsOk, EmptyMap
  <2>5. EngineTyped'
    BY <2>1, <2>2, <2>3, <2>4, FreshTyped, EmptyLedger DEF EngineTyped
  <2>6. FilesTyped'
    BY <1>1, <1>2, <2>2, <2>3 DEF FilesTyped, SnapshotFilesTyped
  <2> QED
    BY <1>3, <1>6, <2>5, <2>6 DEF NodeTyped
<1>7. CASE GetTipOk(m) /\ CanRestore(m) /\ Restore(m) /\ up' = TRUE /\ starts' = starts + 1
  <2> DEFINE branch == Walk(GetRange(m, Height(m.tip)), m.tip)
             replayed == Replay(branch, EmptyMap, EmptyMap)
             latest == [e \in {x \in SnapshotEpochs(files) : x = LatestEpoch(files)} |->
                          CHOOSE set \in LatestSnapshot(files) : TRUE]
  <2>1. /\ FreshEngine /\ chain' = branch /\ tip' = m.tip /\ disk' = disk
        /\ state' = IF replayed.ok THEN replayed.st ELSE EmptyMap
        /\ finalized' = FirstFinality(branch[Len(branch)].Slot)
        /\ snapshots' = latest
    BY <1>7 DEF Restore
  <2>2. tip' \in blocks' /\ blocks' \subseteq ReadBack(disk)
    BY <1>1, <1>7, RestoreBrings
  <2>3. IsStored(m.tip) /\ \A b \in blocks' : IsStored(b)
    BY <1>2, <2>1, <2>2 DEF FilesTyped
  <2>4. EndsWith(branch, m.tip)
    BY <2>3, WalkEnds DEF IsStored
  <2> HIDE DEF branch
  <2>5. Replayable(branch) /\ branch[Len(branch)].Slot \in Nat
    BY <2>3, <2>4, EndFacts
  <2>6. replayed \in Results
    <3>1. IsRegistry(EmptyMap)
      BY DEF IsRegistry, EmptyMap
    <3> QED
      BY <2>5, <3>1, EmptyLedger, ReplayTyped
  <2> HIDE DEF replayed
  <2>7. state' \in Ledgers
    BY <2>1, <2>6, EmptyLedger DEF Results
  <2>8. finalized' \in Nat
    BY <1>2, <2>1, <2>5, FinalityTyped DEF EngineTyped
  <2>9. SnapsOk(latest)
    <3> SUFFICES ASSUME NEW e \in SnapshotEpochs(files), e = LatestEpoch(files)
                 PROVE  e \in Nat /\ IsSnapshot(CHOOSE set \in LatestSnapshot(files) : TRUE)
      BY DEF SnapsOk
    <3>1. SnapsOk(files.json) /\ DOMAIN files.tmp \subseteq Nat
          /\ \A x \in DOMAIN files.tmp : \A set \in files.tmp[x] : IsSnapshot(set)
      BY <1>2 DEF FilesTyped, SnapshotFilesTyped
    <3>2. LatestSnapshot(files) # {}
      BY <1>7 DEF CanRestore
    <3>3. \A set \in LatestSnapshot(files) : IsSnapshot(set)
      BY <3>1 DEF LatestSnapshot, SnapshotEpochs, SnapsOk
    <3> QED
      BY <3>1, <3>2, <3>3 DEF SnapshotEpochs, SnapsOk
  <2> HIDE DEF latest
  <2>10. EngineTyped'
    BY <2>1, <2>2, <2>3, <2>4, <2>7, <2>8, <2>9, FreshTyped, EmptyLedger DEF EngineTyped
  <2>11. FilesTyped'
    BY <1>1, <1>2, <2>1 DEF FilesTyped, SnapshotFilesTyped
  <2> QED
    BY <1>3, <1>7, <2>10, <2>11 DEF NodeTyped
<1> QED
  BY <1>4, <1>5, <1>6, <1>7

LEMMA NodeTypedInit == NodeInit => NodeTyped
<1> SUFFICES ASSUME NodeInit PROVE NodeTyped
  OBVIOUS
<1>1. RegistryInv /\ PoolInv
  BY RegistryStart, PoolInvInit DEF NodeInit, Init
<1>2. IsStored(GenesisBlock) /\ EndsWith(GenesisBlock, GenesisBlock)
  BY GenesisStored, WholeBlock DEF IsStored
<1>3. SnapsOk(EmptyMap)
  BY DEF SnapsOk, EmptyMap
<1>4. EngineTyped
  BY <1>1, <1>2, <1>3, EmptyLedger DEF NodeInit, Init, EngineTyped
<1>5. ReadBack(disk) = {} /\ files.json = EmptyMap /\ DOMAIN files.tmp = {}
  BY DEF NodeInit, EmptyFile, ReadBack, NoFiles, EmptyMap
<1>6. FilesTyped
  BY <1>3, <1>5 DEF FilesTyped, SnapshotFilesTyped
<1>7. starts \in 0..MaxStarts
  <2>1. starts = 0 /\ MaxStarts \in Nat
    BY StartsAssumption DEF NodeInit
  <2> QED
    BY <2>1
<1>8. up \in BOOLEAN
  BY DEF NodeInit
<1> QED
  BY <1>4, <1>6, <1>7, <1>8 DEF NodeTyped

LEMMA NodeTypedNext ==
  NodeInv /\ RestartInv /\ NodeTyped /\ [NodeNext]_nodeVars => NodeTyped'
<1> SUFFICES ASSUME NodeInv, RestartInv, NodeTyped, [NodeNext]_nodeVars PROVE NodeTyped'
  OBVIOUS
<1>1. CASE Start
  BY <1>1, StartTyped
<1>2. CASE Call
  BY <1>2, CallTyped DEF NodeInv, DiskInv
<1>3. ASSUME UNCHANGED <<vars, disk, files, starts>>, up' \in BOOLEAN PROVE NodeTyped'
  BY <1>3
     DEF NodeTyped, EngineTyped, FilesTyped, SnapshotFilesTyped, RegistryInv, IsRegistry,
         IsStats, PoolInv, MempoolTypeOK, NoneTwice, InOrder, EndsWith, ReadBack, vars,
         registryVars, mempoolVars, chainVars
<1>4. CASE Crash
  BY <1>3, <1>4 DEF Crash, blockStore
<1>5. CASE UNCHANGED nodeVars
  BY <1>3, <1>5 DEF nodeVars, blockStore, NodeTyped
<1> QED
  BY <1>1, <1>2, <1>4, <1>5 DEF NodeNext

\* Over any restarts the node's state has its type: what is read back from the
\* files and replayed without validators is a tree that has the tip, a chain
\* that ends with it, a ledger without debts, and snapshots of validators.
THEOREM NodeTypes == NodeSpec => []NodeTypeOK
<1>1. NodeInit => NodeTyped
  BY NodeTypedInit
<1>2. NodeInv /\ RestartInv /\ NodeTyped /\ [NodeNext]_nodeVars => NodeTyped'
  BY NodeTypedNext
<1>3. NodeTyped => NodeTypeOK
  <2> SUFFICES ASSUME NodeTyped PROVE NodeTypeOK
    OBVIOUS
  <2>1. /\ up \in BOOLEAN /\ starts \in 0..MaxStarts /\ tip \in blocks
        /\ finalized \in Nat /\ SnapsOk(snapshots) /\ SnapsOk(files.json)
        /\ IsStored(tip) /\ EndsWith(chain, tip)
        /\ state \in Ledgers /\ genesis \in Ledgers
    BY DEF NodeTyped, EngineTyped, FilesTyped, SnapshotFilesTyped
  <2>2. chain # <<>> /\ IsSuffix(chain, tip)
    BY <2>1, EndFacts
  <2>3. IsLedger(state) /\ IsLedger(genesis)
    BY <2>1, LedgerIs DEF IsLedger
  <2>4. /\ DOMAIN snapshots \subseteq Nat
        /\ \A e \in DOMAIN snapshots : DOMAIN snapshots[e] \subseteq Names
        /\ DOMAIN files.json \subseteq Nat
    BY <2>1 DEF SnapsOk, IsSnapshot
  <2> QED
    BY <2>1, <2>2, <2>3, <2>4 DEF NodeTypeOK
<1> QED
  BY <1>1, <1>2, <1>3, RestartInvariant, PTL DEF NodeSpec
=============================================================================

-------------------------- MODULE FileStoreProofs --------------------------
(* The block store forgets nothing it acknowledged and implements a durable  *)
(* map, and the latest snapshot is one that was saved or tried last, for any *)
(* blocks and epochs and any number of crashes and failing writes.           *)
EXTENDS FileStores, StorageFileProofs

\* Each height leads to a block of that height.
HeightsOk(i) ==
  /\ DOMAIN i.heights \subseteq Heights
  /\ \A k \in DOMAIN i.heights : i.heights[k] \in Blocks /\ Height(i.heights[k]) = k

ShapeInv ==
  /\ disk.lines \subseteq Blocks /\ disk.open \subseteq Blocks
  /\ disk.ended => disk.open = {}
  /\ HeightsOk(index) /\ HeightsOk(mem)
  /\ may \in [Heights -> SUBSET (Blocks \cup {NoBlock})]
  /\ up \in BOOLEAN

\* Blocks by hash: what was acknowledged is in memory, and in the file as long
\* as the file can be read.
BlocksInv ==
  /\ ~ disk.bad => acked \subseteq ReadBack(disk)
  /\ up => acked \subseteq mem.blocks
  /\ up /\ ~ disk.bad => mem.blocks \subseteq ReadBack(disk)

\* Blocks by height: what a reader finds now, or would find after a crash, is
\* possible.  Without an index that is any block that can be read.
HeightsInv ==
  /\ up => \A k \in Heights : At(mem, k) \in may[k]
  /\ DOMAIN index.heights # {} => \A k \in Heights : At(index, k) \in may[k]
  /\ DOMAIN index.heights = {} =>
       /\ \A k \in Heights : NoBlock \in may[k]
       /\ \A b \in ReadBack(disk) : b \in may[Height(b)]

SavingInv ==
  saving # NoBlock =>
    /\ up
    /\ saving \in Blocks \cap mem.blocks
    /\ Height(saving) \in DOMAIN mem.heights
    /\ mem.heights[Height(saving)] = saving

\* The tip is the block its height leads to, at the greatest height of all.
TipOk(i) ==
  /\ i.tip # NoBlock <=> DOMAIN i.heights # {}
  /\ i.tip # NoBlock =>
       /\ i.tip \in Blocks
       /\ Height(i.tip) \in DOMAIN i.heights
       /\ i.heights[Height(i.tip)] = i.tip
       /\ \A k \in DOMAIN i.heights : k <= Height(i.tip)

\* What an index leads to is there, as long as the file can be read.
TipInv ==
  /\ TipOk(index) /\ TipOk(mem)
  /\ up => \A k \in DOMAIN mem.heights : mem.heights[k] \in mem.blocks
  /\ ~ disk.bad =>
       \A k \in DOMAIN index.heights : index.heights[k] \in ReadBack(disk)

StoresInv == ShapeInv /\ BlocksInv /\ HeightsInv /\ SavingInv /\ TipInv

-----------------------------------------------------------------------------
(* Operators.                                                                *)

\* The maps after a save: one height leads to another block.
LEMMA SavedHeights ==
  ASSUME NEW m, NEW block \in Blocks, HeightsOk(m)
  PROVE  LET s == Saved(m, block)
         IN /\ HeightsOk(s)
            /\ s.blocks = m.blocks \cup {block}
            /\ Height(block) \in DOMAIN s.heights
            /\ s.heights[Height(block)] = block
            /\ \A k \in Heights :
                 At(s, k) = IF k = Height(block) THEN block ELSE At(m, k)
BY DEF Saved, HeightsOk, Heights, At, Put

\* What a store opens with: all blocks of the file, and for each height what
\* the index says or, if it says nothing, a block of the file or none.
LEMMA OpenedHeights ==
  ASSUME NEW file, NEW i, ReadBack(file) \subseteq Blocks, HeightsOk(i),
         NEW m \in Opened(file, i)
  PROVE  /\ m.blocks = ReadBack(file)
         /\ HeightsOk(m)
         /\ DOMAIN i.heights # {} => m.heights = i.heights
         /\ DOMAIN i.heights = {} =>
              \A k \in DOMAIN m.heights : m.heights[k] \in ReadBack(file)
         /\ DOMAIN m.heights = {} => ReadBack(file) = {}
                                     \/ DOMAIN i.heights # {}
<1>1. CASE DOMAIN i.heights # {}
  <2>1. m = [blocks |-> ReadBack(file), heights |-> i.heights, tip |-> i.tip]
    BY <1>1 DEF Opened
  <2> QED
    BY <1>1, <2>1 DEF HeightsOk
<1>2. CASE DOMAIN i.heights = {}
  <2>1. PICK j \in Rebuilt(ReadBack(file)) :
          m = [blocks |-> ReadBack(file), heights |-> j.heights, tip |-> j.tip]
    BY <1>2 DEF Opened
  <2>2. CASE ReadBack(file) = {}
    <3>1. j.heights = EmptyMap
      BY <2>2 DEF Rebuilt, EmptyIndex
    <3>2. DOMAIN m.heights = {}
      BY <2>1, <3>1 DEF EmptyMap
    <3> QED
      BY <1>2, <2>1, <2>2, <3>2 DEF HeightsOk
  <2>3. CASE ReadBack(file) # {}
    <3> DEFINE known == ReadBack(file)
               levels == {Height(b) : b \in known}
    <3>1. PICK h \in OneOfEachHeight(known) : j.heights = h
      BY <2>1, <2>3, RebuiltIndex
    <3>2. /\ m.heights = h /\ m.blocks = known
          /\ h \in [levels -> known] /\ \A k \in levels : Height(h[k]) = k
      BY <2>1, <3>1 DEF OneOfEachHeight
    <3>3. levels \subseteq Heights /\ levels # {}
      BY <2>3 DEF Heights
    <3> QED
      BY <1>2, <3>1, <3>2, <3>3 DEF HeightsOk
  <2> QED
    BY <2>2, <2>3
<1> QED
  BY <1>1, <1>2

\* Heights count from 0, and no block is the missing one.
LEMMA BlockHeights ==
  /\ \A b \in Blocks : b # NoBlock /\ Height(b) \in Nat
  /\ Heights \subseteq Nat
  /\ Height(NoBlock) = -1
BY StoresAssumption DEF Heights, Height, NoBlock

\* The tip after a save.
LEMMA SavedTip ==
  ASSUME NEW m, NEW block \in Blocks, HeightsOk(m), TipOk(m)
  PROVE  TipOk(Saved(m, block))
<1> DEFINE s == Saved(m, block)
<1>1. /\ DOMAIN s.heights = DOMAIN m.heights \cup {Height(block)}
      /\ \A k \in DOMAIN s.heights :
           s.heights[k] = IF k = Height(block) THEN block ELSE m.heights[k]
      /\ s.tip = IF Height(block) >= Height(m.tip) THEN block ELSE m.tip
  BY DEF Saved, Put
<1>2. /\ DOMAIN m.heights \subseteq Nat
      /\ block # NoBlock /\ Height(block) \in Nat
  BY BlockHeights DEF HeightsOk
<1> HIDE DEF s
<1>3. CASE m.tip = NoBlock
  <2>1. Height(m.tip) = -1 /\ DOMAIN m.heights = {}
    BY <1>3, BlockHeights DEF TipOk
  <2>2. s.tip = block /\ DOMAIN s.heights = {Height(block)}
    BY <1>1, <1>2, <2>1
  <2> QED
    BY <1>1, <1>2, <2>2 DEF TipOk, s
<1>4. CASE m.tip # NoBlock
  <2>1. /\ m.tip \in Blocks /\ Height(m.tip) \in Nat
        /\ Height(m.tip) \in DOMAIN m.heights
        /\ m.heights[Height(m.tip)] = m.tip
        /\ \A k \in DOMAIN m.heights : k <= Height(m.tip)
    BY <1>4, BlockHeights DEF TipOk
  <2>2. CASE Height(block) >= Height(m.tip)
    <3>1. s.tip = block /\ Height(block) \in DOMAIN s.heights
      BY <1>1, <2>2
    <3>2. \A k \in DOMAIN s.heights : k <= Height(block)
      BY <1>1, <1>2, <2>1, <2>2
    <3> QED
      BY <1>1, <1>2, <3>1, <3>2 DEF TipOk, s
  <2>3. CASE ~ (Height(block) >= Height(m.tip))
    <3>1. s.tip = m.tip /\ Height(m.tip) # Height(block)
      BY <1>1, <1>2, <2>1, <2>3
    <3>2. \A k \in DOMAIN s.heights : k <= Height(m.tip)
      BY <1>1, <1>2, <2>1, <2>3
    <3> QED
      BY <1>1, <1>4, <2>1, <3>1, <3>2 DEF TipOk, s
  <2> QED
    BY <2>2, <2>3
<1> QED
  BY <1>3, <1>4

\* The tip of a store that opens: the index's, or a block of the greatest
\* height in the file.
LEMMA OpenedTip ==
  ASSUME NEW file, NEW i, ReadBack(file) \subseteq Blocks, TipOk(i),
         NEW m \in Opened(file, i)
  PROVE  TipOk(m)
<1>1. CASE DOMAIN i.heights # {}
  <2>1. m = [blocks |-> ReadBack(file), heights |-> i.heights, tip |-> i.tip]
    BY <1>1 DEF Opened
  <2> QED
    BY <2>1 DEF TipOk
<1>2. CASE DOMAIN i.heights = {}
  <2>1. PICK j \in Rebuilt(ReadBack(file)) :
          m = [blocks |-> ReadBack(file), heights |-> j.heights, tip |-> j.tip]
    BY <1>2 DEF Opened
  <2>2. CASE ReadBack(file) = {}
    <3>1. m.tip = NoBlock /\ DOMAIN m.heights = {}
      BY <2>1, <2>2 DEF Rebuilt, EmptyIndex, EmptyMap
    <3> QED
      BY <3>1 DEF TipOk
  <2>3. CASE ReadBack(file) # {}
    <3>0. PICK h \in OneOfEachHeight(ReadBack(file)) :
            \E k \in {l \in DOMAIN h : \A l2 \in DOMAIN h : l2 <= l} :
              j = [heights |-> h, tip |-> h[k]]
      BY <2>1, <2>3, RebuiltIndex
    <3>1. PICK k \in {l \in DOMAIN h : \A l2 \in DOMAIN h : l2 <= l} :
            j = [heights |-> h, tip |-> h[k]]
      BY <3>0
    <3>2. m.heights = h /\ m.tip = h[k]
      BY <2>1, <3>1
    <3>3. h[k] \in Blocks /\ h[k] # NoBlock /\ Height(h[k]) = k
      BY <3>1, BlockHeights DEF OneOfEachHeight
    <3>4. k \in DOMAIN h /\ \A l \in DOMAIN h : l <= k
      BY <3>1
    <3> QED
      BY <3>2, <3>3, <3>4 DEF TipOk
  <2> QED
    BY <2>2, <2>3
<1> QED
  BY <1>1, <1>2

-----------------------------------------------------------------------------
(* Steps.                                                                    *)

LEMMA StoresInvInit == Init => StoresInv
<1> SUFFICES ASSUME Init PROVE StoresInv
  OBVIOUS
<1>1. DOMAIN index.heights = {} /\ DOMAIN mem.heights = {}
  BY DEF Init, EmptyIndex, EmptyStore, EmptyMap
<1>2. ReadBack(disk) = {} /\ disk.lines = {} /\ disk.open = {}
  BY DEF Init, EmptyFile, ReadBack
<1>3. ShapeInv
  BY <1>1, <1>2 DEF Init, ShapeInv, HeightsOk
<1>4. BlocksInv
  BY <1>2 DEF Init, BlocksInv
<1>5. HeightsInv
  BY <1>1, <1>2 DEF Init, HeightsInv
<1>6. SavingInv
  BY DEF Init, SavingInv
<1>7. TipInv
  BY <1>1 DEF Init, TipInv, TipOk, EmptyIndex, EmptyStore
<1> QED
  BY <1>3, <1>4, <1>5, <1>6, <1>7 DEF StoresInv

\* Opening settles what each height leads to.
LEMMA OpenStep ==
  ASSUME StoresInv, OpenStores
  PROVE  StoresInv' /\ Store!Open
<1>1. PICK m \in Opened(disk, index) :
        /\ mem' = m
        /\ index' = IndexOf(m)
        /\ may' = [k \in Heights |-> {At(m, k)}]
  BY DEF OpenStores
<1>2. /\ ~ up /\ up' = TRUE /\ ~ disk.bad
      /\ UNCHANGED <<disk, saving, acked>>
  BY DEF OpenStores, Loadable
<1>3. ReadBack(disk) \subseteq Blocks
  BY DEF StoresInv, ShapeInv, ReadBack
<1>4. /\ m.blocks = ReadBack(disk)
      /\ HeightsOk(m)
      /\ DOMAIN index.heights # {} => m.heights = index.heights
      /\ DOMAIN index.heights = {} =>
           \A k \in DOMAIN m.heights : m.heights[k] \in ReadBack(disk)
      /\ DOMAIN m.heights = {} => ReadBack(disk) = {} \/ DOMAIN index.heights # {}
  BY <1>1, <1>3, OpenedHeights DEF StoresInv, ShapeInv
<1>5. \A k \in Heights : At(m, k) \in Blocks \cup {NoBlock}
  BY <1>4 DEF HeightsOk, At
<1>6. \A k \in Heights : At(m, k) \in may[k]
  <2>1. CASE DOMAIN index.heights # {}
    BY <1>4, <2>1 DEF StoresInv, HeightsInv, At
  <2>2. CASE DOMAIN index.heights = {}
    BY <1>4, <2>2 DEF StoresInv, HeightsInv, HeightsOk, At
  <2> QED
    BY <2>1, <2>2
<1>7. index'.heights = m.heights
  BY <1>1 DEF IndexOf
<1>8. ShapeInv'
  <2>1. HeightsOk(m)'  = HeightsOk(m) /\ HeightsOk(index)' = HeightsOk(m)
    BY <1>7 DEF HeightsOk
  <2> QED
    BY <1>1, <1>2, <1>4, <1>5, <2>1 DEF StoresInv, ShapeInv, HeightsOk
<1>9. BlocksInv'
  BY <1>1, <1>2, <1>4 DEF StoresInv, BlocksInv, ReadBack
<1>10. HeightsInv'
  <2>1. \A k \in Heights : At(mem, k)' = At(m, k) /\ At(index, k)' = At(m, k)
    BY <1>1, <1>7 DEF At
  <2>2. \A k \in Heights : At(m, k) \in may'[k]
    BY <1>1
  <2>3. ASSUME DOMAIN m.heights = {}
        PROVE  ReadBack(disk) = {} /\ \A k \in Heights : NoBlock \in may'[k]
    <3>1. \A k \in Heights : At(m, k) = NoBlock
      BY <2>3 DEF At
    <3> QED
      BY <1>4, <2>2, <2>3, <3>1
  <2> QED
    BY <1>2, <1>7, <2>1, <2>2, <2>3 DEF HeightsInv, ReadBack
<1>11. SavingInv'
  BY <1>2 DEF StoresInv, SavingInv
<1>12. Store!Open
  <2> DEFINE now == [k \in Heights |-> At(mem', k)]
  <2>1. now = [k \in Heights |-> At(m, k)]
    BY <1>1
  <2>2. now \in [Heights -> Blocks \cup {NoBlock}]
    BY <1>5, <2>1
  <2>3. \A k \in Heights : now[k] \in may[k]
    BY <1>6, <2>1
  <2>4. may' = [k \in Heights |-> {now[k]}]
    BY <1>1, <2>1
  <2>5. now = [k \in Heights |-> At(mem, k)]'
    BY DEF At
  <2> QED
    BY <1>2, <2>2, <2>3, <2>4, <2>5 DEF Store!Open
<1>13. TipInv'
  <2>1. TipOk(m)
    BY <1>1, <1>3, OpenedTip DEF StoresInv, TipInv
  <2>2. TipOk(mem)' /\ TipOk(index)'
    BY <1>1, <2>1 DEF TipOk, IndexOf
  <2>3. \A k \in DOMAIN m.heights : m.heights[k] \in ReadBack(disk)
    BY <1>2, <1>4 DEF StoresInv, TipInv
  <2> QED
    BY <1>1, <1>2, <1>4, <1>7, <2>2, <2>3 DEF TipInv, ReadBack
<1> QED
  BY <1>8, <1>9, <1>10, <1>11, <1>12, <1>13 DEF StoresInv

\* The append of a save that goes on.
LEMMA AppendStep ==
  ASSUME StoresInv, NEW block \in Blocks, AppendBlock(block)
  PROVE  StoresInv' /\ Store!Write(Height(block), block)
<1> DEFINE f == Appended(disk, block, "whole")
           s == Saved(mem, block)
<1>1. /\ up /\ up' = up
      /\ disk' = f /\ mem' = s /\ saving' = block
      /\ may' = [may EXCEPT ![Height(block)] = @ \cup {block}]
      /\ UNCHANGED <<index, acked>>
  BY DEF AppendBlock, Idle, Try
<1>2. /\ f.ended => f.open = {}
      /\ f.lines \subseteq disk.lines \cup {block}
      /\ f.open \subseteq {block}
      /\ ~ f.bad => ~ disk.bad /\ ReadBack(disk) \subseteq ReadBack(f)
      /\ ~ f.bad => block \in ReadBack(f)
  BY AppendedReadBack DEF StoresInv, ShapeInv
<1>3. /\ HeightsOk(s)
      /\ s.blocks = mem.blocks \cup {block}
      /\ Height(block) \in DOMAIN s.heights
      /\ s.heights[Height(block)] = block
      /\ \A k \in Heights :
           At(s, k) = IF k = Height(block) THEN block ELSE At(mem, k)
  BY SavedHeights DEF StoresInv, ShapeInv
<1>0. /\ TipOk(s)
      /\ \A k \in DOMAIN s.heights :
           \/ s.heights[k] = block
           \/ k \in DOMAIN mem.heights /\ s.heights[k] = mem.heights[k]
  <2>1. TipOk(s)
    BY SavedTip DEF StoresInv, ShapeInv, TipInv
  <2> QED
    BY <2>1 DEF Saved, Put
<1> HIDE DEF f, s
<1>4. Height(block) \in Heights
  BY DEF Heights
<1>5. /\ may \in [Heights -> SUBSET (Blocks \cup {NoBlock})]
      /\ \A k \in Heights : may[k] \subseteq may'[k]
      /\ block \in may'[Height(block)]
      /\ may' \in [Heights -> SUBSET (Blocks \cup {NoBlock})]
  BY <1>1, <1>4 DEF StoresInv, ShapeInv
<1>6. ShapeInv'
  <2>1. disk'.lines \subseteq Blocks /\ disk'.open \subseteq Blocks
    BY <1>1, <1>2 DEF StoresInv, ShapeInv
  <2> QED
    BY <1>1, <1>2, <1>3, <1>5, <2>1 DEF StoresInv, ShapeInv, HeightsOk
<1>7. BlocksInv'
  BY <1>1, <1>2, <1>3 DEF StoresInv, BlocksInv, ReadBack
<1>8. HeightsInv'
  <2>1. \A k \in Heights : At(mem, k)' = At(s, k) /\ At(index, k)' = At(index, k)
    BY <1>1 DEF At
  <2>2. \A k \in Heights : At(s, k) \in may'[k]
    BY <1>1, <1>3, <1>5 DEF StoresInv, HeightsInv
  <2>3. \A b \in ReadBack(disk)' : b = block \/ b \in ReadBack(disk)
    BY <1>1, <1>2 DEF ReadBack
  <2>4. \A b \in ReadBack(disk) : Height(b) \in Heights
    BY DEF StoresInv, ShapeInv, ReadBack, Heights
  <2> QED
    BY <1>1, <1>5, <2>1, <2>2, <2>3, <2>4 DEF StoresInv, HeightsInv
<1>9. SavingInv'
  BY <1>1, <1>3 DEF SavingInv
<1>11. TipInv'
  <2>1. TipOk(mem)' /\ TipOk(index)'
    BY <1>0, <1>1 DEF StoresInv, TipInv, TipOk
  <2>2. \A k \in DOMAIN s.heights : s.heights[k] \in s.blocks
    BY <1>0, <1>1, <1>3 DEF StoresInv, TipInv
  <2> QED
    BY <1>1, <1>2, <2>1, <2>2 DEF StoresInv, TipInv, ReadBack
<1>10. Store!Write(Height(block), block)
  <2> DEFINE old == [k \in Heights |-> At(mem, k)]
             new == [k \in Heights |-> At(s, k)]
  <2>1. new = [old EXCEPT ![Height(block)] = block]
    BY <1>3
  <2>2. new = [k \in Heights |-> At(mem, k)]'
    BY <1>1 DEF At
  <2> QED
    BY <1>1, <2>1, <2>2 DEF Store!Write
<1> QED
  BY <1>6, <1>7, <1>8, <1>9, <1>10, <1>11 DEF StoresInv

\* An append that fails.
LEMMA AppendFailsStep ==
  ASSUME StoresInv, NEW block \in Blocks, NEW cut, AppendFails(block, cut)
  PROVE  StoresInv' /\ Store!Attempt(Height(block), block)
<1> DEFINE f == Appended(disk, block, cut)
<1>1. /\ up /\ saving = NoBlock
      /\ disk' = f
      /\ may' = [may EXCEPT ![Height(block)] = @ \cup {block}]
      /\ UNCHANGED <<up, index, mem, saving, acked>>
  BY DEF AppendFails, Idle, Try
<1>2. /\ f.ended => f.open = {}
      /\ f.lines \subseteq disk.lines \cup {block}
      /\ f.open \subseteq {block}
      /\ ~ f.bad => ~ disk.bad /\ ReadBack(disk) \subseteq ReadBack(f)
  BY AppendedReadBack DEF StoresInv, ShapeInv
<1> HIDE DEF f
<1>3. Height(block) \in Heights
  BY DEF Heights
<1>4. /\ may \in [Heights -> SUBSET (Blocks \cup {NoBlock})]
      /\ \A k \in Heights : may[k] \subseteq may'[k]
      /\ block \in may'[Height(block)]
      /\ may' \in [Heights -> SUBSET (Blocks \cup {NoBlock})]
  BY <1>1, <1>3 DEF StoresInv, ShapeInv
<1>5. ShapeInv'
  <2>1. disk'.lines \subseteq Blocks /\ disk'.open \subseteq Blocks
    BY <1>1, <1>2 DEF StoresInv, ShapeInv
  <2> QED
    BY <1>1, <1>2, <1>4, <2>1 DEF StoresInv, ShapeInv, HeightsOk
<1>6. BlocksInv'
  BY <1>1, <1>2 DEF StoresInv, BlocksInv, ReadBack
<1>7. HeightsInv'
  <2>1. \A k \in Heights : At(mem, k)' = At(mem, k) /\ At(index, k)' = At(index, k)
    BY <1>1 DEF At
  <2>2. \A b \in ReadBack(disk)' : b = block \/ b \in ReadBack(disk)
    BY <1>1, <1>2 DEF ReadBack
  <2>3. \A b \in ReadBack(disk) : Height(b) \in Heights
    BY DEF StoresInv, ShapeInv, ReadBack, Heights
  <2> QED
    BY <1>1, <1>4, <2>1, <2>2, <2>3 DEF StoresInv, HeightsInv
<1>8. SavingInv'
  BY <1>1 DEF SavingInv
<1>9. Store!Attempt(Height(block), block)
  BY <1>1 DEF Store!Attempt, At
<1>10. TipInv'
  BY <1>1, <1>2 DEF StoresInv, TipInv, TipOk, ReadBack
<1> QED
  BY <1>5, <1>6, <1>7, <1>8, <1>9, <1>10 DEF StoresInv

\* The index is renamed: the save is acknowledged.
LEMMA WriteIndexStep ==
  ASSUME StoresInv, WriteIndex
  PROVE  StoresInv' /\ Store!Acknowledge(Height(saving))
<1>1. /\ saving # NoBlock /\ saving' = NoBlock
      /\ index' = IndexOf(mem)
      /\ may' = [may EXCEPT ![Height(saving)] = {At(mem, Height(saving))}]
      /\ acked' = acked \cup {saving}
      /\ UNCHANGED <<up, disk, mem>>
  BY DEF WriteIndex
<1>2. /\ up
      /\ saving \in Blocks \cap mem.blocks
      /\ Height(saving) \in DOMAIN mem.heights
  BY <1>1 DEF StoresInv, SavingInv
<1>3. index'.heights = mem.heights
  BY <1>1 DEF IndexOf
<1>4. \A k \in Heights : At(mem, k) \in may[k] /\ At(mem, k) \in Blocks \cup {NoBlock}
  BY <1>2 DEF StoresInv, HeightsInv, ShapeInv, HeightsOk, At
<1>5. /\ may \in [Heights -> SUBSET (Blocks \cup {NoBlock})]
      /\ \A k \in Heights : At(mem, k) \in may'[k]
      /\ may' \in [Heights -> SUBSET (Blocks \cup {NoBlock})]
  BY <1>1, <1>4 DEF StoresInv, ShapeInv
<1>6. ShapeInv'
  BY <1>1, <1>3, <1>5 DEF StoresInv, ShapeInv, HeightsOk
<1>7. BlocksInv'
  BY <1>1, <1>2 DEF StoresInv, BlocksInv, ReadBack
<1>8. HeightsInv'
  <2>1. \A k \in Heights : At(mem, k)' = At(mem, k) /\ At(index, k)' = At(mem, k)
    BY <1>1, <1>3 DEF At
  <2>2. DOMAIN index'.heights # {}
    BY <1>2, <1>3
  <2> QED
    BY <1>5, <2>1, <2>2 DEF HeightsInv
<1>9. SavingInv'
  BY <1>1 DEF SavingInv
<1>10. Store!Acknowledge(Height(saving))
  <2>1. Height(saving) \in Heights
    BY <1>2 DEF Heights
  <2> QED
    BY <1>1, <1>2, <2>1 DEF Store!Acknowledge, At
<1>11. TipInv'
  <2>1. TipOk(mem)' /\ TipOk(index)'
    BY <1>1 DEF StoresInv, TipInv, TipOk, IndexOf
  <2>2. ~ disk.bad =>
          \A k \in DOMAIN mem.heights : mem.heights[k] \in ReadBack(disk)
    BY <1>2 DEF StoresInv, TipInv, BlocksInv
  <2> QED
    BY <1>1, <1>2, <1>3, <2>1, <2>2 DEF StoresInv, TipInv, ReadBack
<1> QED
  BY <1>6, <1>7, <1>8, <1>9, <1>10, <1>11 DEF StoresInv

\* Every step preserves the invariant and is a step of the abstract store.
LEMMA StoresInvNext ==
  ASSUME StoresInv, [Next]_vars
  PROVE  StoresInv' /\ [Store!StoreNext]_(Store!storeVars)
<1>1. ASSUME UNCHANGED <<up, disk, index, mem, may, acked>>,
             saving' \in {saving, NoBlock}
      PROVE  StoresInv' /\ UNCHANGED Store!storeVars
  <2>1. ShapeInv'
    BY <1>1 DEF StoresInv, ShapeInv, HeightsOk
  <2>2. BlocksInv' /\ HeightsInv'
    BY <1>1 DEF StoresInv, BlocksInv, HeightsInv, ReadBack, At
  <2>3. SavingInv'
    BY <1>1 DEF StoresInv, SavingInv
  <2>4. TipInv'
    BY <1>1 DEF StoresInv, TipInv, TipOk, ReadBack
  <2> QED
    BY <1>1, <2>1, <2>2, <2>3, <2>4 DEF StoresInv, Store!storeVars, At
<1>2. CASE OpenStores
  BY <1>2, OpenStep DEF Store!StoreNext
<1>3. ASSUME NEW block \in Blocks, AppendBlock(block)
      PROVE  StoresInv' /\ Store!StoreNext
  BY <1>3, AppendStep DEF Store!StoreNext, Heights
<1>4. ASSUME NEW block \in Blocks, NEW cut \in Cuts, AppendFails(block, cut)
      PROVE  StoresInv' /\ Store!StoreNext
  BY <1>4, AppendFailsStep DEF Store!StoreNext, Heights
<1>5. CASE WriteIndex
  <2>1. Height(saving) \in Heights
    BY <1>5 DEF WriteIndex, StoresInv, SavingInv, Heights
  <2> QED
    BY <1>5, <2>1, WriteIndexStep DEF Store!StoreNext
<1>6. CASE WriteIndexFails
  BY <1>1, <1>6 DEF WriteIndexFails
<1>7. CASE \/ \E epoch \in Epochs, set \in Contents : WriteTmp(epoch, set)
           \/ \E epoch \in Epochs : WriteTmpFails(epoch)
           \/ Rename
           \/ RenameFails
  BY <1>1, <1>7 DEF WriteTmp, WriteTmpFails, Rename, RenameFails, blockVars
<1>8. CASE Crash
  <2>1. /\ up' = FALSE /\ saving' = NoBlock
        /\ UNCHANGED <<disk, index, mem, may, acked>>
    BY <1>8 DEF Crash
  <2>2. ShapeInv'
    BY <2>1 DEF StoresInv, ShapeInv, HeightsOk
  <2>3. BlocksInv' /\ HeightsInv'
    BY <2>1 DEF StoresInv, BlocksInv, HeightsInv, ReadBack, At
  <2>4. SavingInv'
    BY <2>1 DEF SavingInv
  <2>5. Store!Stop
    BY <2>1 DEF Store!Stop, At
  <2>6. TipInv'
    BY <2>1 DEF StoresInv, TipInv, TipOk, ReadBack
  <2> QED
    BY <2>2, <2>3, <2>4, <2>5, <2>6 DEF StoresInv, Store!StoreNext
<1>9. CASE UNCHANGED vars
  BY <1>1, <1>9 DEF vars, blockVars
<1> QED
  BY <1>2, <1>3, <1>4, <1>5, <1>6, <1>7, <1>8, <1>9 DEF Next

\* What TypeOK says and StoresInv does not need.
RestOfTypes ==
  /\ disk.ended \in BOOLEAN /\ disk.bad \in BOOLEAN
  /\ mem.blocks \subseteq Blocks
  /\ saving \in Blocks \cup {NoBlock}
  /\ naming \subseteq Epochs
  /\ acked \subseteq Blocks

LEMMA RestOfTypesNext ==
  ASSUME StoresInv, RestOfTypes, [Next]_vars
  PROVE  RestOfTypes'
<1>1. ASSUME NEW file, NEW block, NEW cut, file.bad \in BOOLEAN
      PROVE  /\ Appended(file, block, cut).ended \in BOOLEAN
             /\ Appended(file, block, cut).bad \in BOOLEAN
  BY <1>1 DEF Appended
<1>2. CASE OpenStores
  <2>1. PICK m \in Opened(disk, index) : mem' = m
    BY <1>2 DEF OpenStores
  <2>2. ReadBack(disk) \subseteq Blocks /\ HeightsOk(index)
    BY DEF StoresInv, ShapeInv, ReadBack
  <2>3. m.blocks = ReadBack(disk)
    BY <2>2, OpenedHeights
  <2> QED
    BY <1>2, <2>1, <2>2, <2>3 DEF OpenStores, RestOfTypes, snapVars
<1>3. ASSUME NEW block \in Blocks, AppendBlock(block)
      PROVE  RestOfTypes'
  <2>1. Saved(mem, block).blocks = mem.blocks \cup {block}
    BY DEF Saved
  <2> QED
    BY <1>1, <1>3, <2>1 DEF AppendBlock, RestOfTypes, snapVars
<1>4. ASSUME NEW block \in Blocks, NEW cut \in Cuts, AppendFails(block, cut)
      PROVE  RestOfTypes'
  BY <1>1, <1>4 DEF AppendFails, RestOfTypes, snapVars
<1>5. CASE WriteIndex
  BY <1>5 DEF WriteIndex, RestOfTypes, snapVars
<1>6. CASE WriteIndexFails
  BY <1>6 DEF WriteIndexFails, RestOfTypes, snapVars
<1>7. ASSUME NEW epoch \in Epochs, NEW set, WriteTmp(epoch, set)
      PROVE  RestOfTypes'
  BY <1>7 DEF WriteTmp, RestOfTypes, blockVars
<1>8. ASSUME NEW epoch \in Epochs, WriteTmpFails(epoch)
      PROVE  RestOfTypes'
  BY <1>8 DEF WriteTmpFails, RestOfTypes, blockVars
<1>9. CASE Rename
  BY <1>9 DEF Rename, RestOfTypes, blockVars
<1>10. CASE RenameFails
  BY <1>10 DEF RenameFails, RestOfTypes, blockVars
<1>11. CASE Crash
  BY <1>11 DEF Crash, RestOfTypes
<1>12. CASE UNCHANGED vars
  BY <1>12 DEF RestOfTypes, vars, blockVars, snapVars
<1> QED
  BY <1>2, <1>3, <1>4, <1>5, <1>6, <1>7, <1>8, <1>9, <1>10, <1>11, <1>12 DEF Next

-----------------------------------------------------------------------------
(* The snapshot files.                                                       *)

\* A file and a temporary file of an epoch hold what was saved or tried for
\* it; an acknowledged epoch has its file; a rename has something to rename;
\* and of the epochs there is a latest one.
SnapFilesInv ==
  /\ DOMAIN maySnap = Epochs
  /\ SnapshotEpochs(files) \subseteq Epochs
  /\ SnapshotEpochs(files) # {} =>
       \E top \in SnapshotEpochs(files) : \A e \in SnapshotEpochs(files) : e <= top
  /\ \A e \in DOMAIN files.json : files.json[e] \in maySnap[e]
  /\ \A e \in DOMAIN files.tmp : files.tmp[e] \subseteq maySnap[e]
  /\ ackedSnaps \subseteq DOMAIN files.json
  /\ naming # {} => \E e \in DOMAIN files.tmp : naming = {e}

\* What a temporary file adds to the epochs leaves a latest one.
LEMMA LatestAdd ==
  ASSUME NEW S \in SUBSET Nat, NEW epoch \in Nat,
         S # {} => \E top \in S : \A e \in S : e <= top
  PROVE  \E top \in S \cup {epoch} : \A e \in S \cup {epoch} : e <= top
<1>1. CASE S = {}
  BY <1>1
<1>2. CASE S # {}
  <2>1. PICK top \in S : \A e \in S : e <= top
    BY <1>2
  <2>2. CASE epoch <= top
    BY <2>1, <2>2
  <2>3. CASE ~ (epoch <= top)
    <3>1. \A e \in S : e <= epoch
      BY <2>1, <2>3
    <3> QED
      BY <3>1
  <2> QED
    BY <2>2, <2>3
<1> QED
  BY <1>1, <1>2

\* Writing a temporary file, whole or not, what may be found growing.
LEMMA TmpStep ==
  ASSUME SnapFilesInv, NEW epoch \in Epochs, NEW content,
         files' = WithTmp(files, epoch, content),
         DOMAIN maySnap' = Epochs,
         \A e \in Epochs : maySnap[e] \subseteq maySnap'[e],
         content \subseteq maySnap'[epoch],
         naming' \in {{}, {epoch}}, ackedSnaps' = ackedSnaps
  PROVE  SnapFilesInv'
<1>1. /\ files'.json = files.json
      /\ DOMAIN files'.tmp = DOMAIN files.tmp \cup {epoch}
      /\ \A e \in DOMAIN files'.tmp :
           files'.tmp[e] = IF e = epoch THEN content ELSE files.tmp[e]
  BY DEF WithTmp, Put
<1>2. SnapshotEpochs(files') = SnapshotEpochs(files) \cup {epoch}
  BY <1>1 DEF SnapshotEpochs
<1>3. \E top \in SnapshotEpochs(files') : \A e \in SnapshotEpochs(files') : e <= top
  <2>1. SnapshotEpochs(files) \in SUBSET Nat /\ epoch \in Nat
    BY StoresAssumption DEF SnapFilesInv
  <2> QED
    BY <1>2, <2>1, LatestAdd DEF SnapFilesInv
<1>4. /\ \A e \in DOMAIN files'.json : files'.json[e] \in maySnap'[e]
      /\ \A e \in DOMAIN files'.tmp : files'.tmp[e] \subseteq maySnap'[e]
  BY <1>1 DEF SnapFilesInv, SnapshotEpochs
<1>5. /\ ackedSnaps' \subseteq DOMAIN files'.json
      /\ naming' # {} => \E e \in DOMAIN files'.tmp : naming' = {e}
      /\ SnapshotEpochs(files') \subseteq Epochs
  BY <1>1, <1>2 DEF SnapFilesInv
<1> QED
  BY <1>3, <1>4, <1>5 DEF SnapFilesInv, SnapshotEpochs

\* The rename: the epoch's file holds what its temporary file held.
LEMMA RenameStep ==
  ASSUME SnapFilesInv, Rename
  PROVE  SnapFilesInv'
<1>1. PICK epoch \in naming : \E set \in files.tmp[epoch] :
        /\ files' = Renamed(files, epoch, set)
        /\ naming' = {}
        /\ maySnap' = [maySnap EXCEPT ![epoch] = {set}]
        /\ ackedSnaps' = ackedSnaps \cup {epoch}
  BY DEF Rename
<1>2. PICK set \in files.tmp[epoch] :
        /\ files' = Renamed(files, epoch, set)
        /\ naming' = {}
        /\ maySnap' = [maySnap EXCEPT ![epoch] = {set}]
        /\ ackedSnaps' = ackedSnaps \cup {epoch}
  BY <1>1
<1>3. epoch \in DOMAIN files.tmp
  BY DEF SnapFilesInv
<1>4. /\ DOMAIN files'.json = DOMAIN files.json \cup {epoch}
      /\ \A e \in DOMAIN files'.json :
           files'.json[e] = IF e = epoch THEN set ELSE files.json[e]
      /\ DOMAIN files'.tmp = DOMAIN files.tmp \ {epoch}
      /\ \A e \in DOMAIN files'.tmp : files'.tmp[e] = files.tmp[e]
  BY <1>2 DEF Renamed, Put, Delete
<1>5. SnapshotEpochs(files') = SnapshotEpochs(files)
  BY <1>3, <1>4 DEF SnapshotEpochs
<1>6. /\ DOMAIN maySnap' = Epochs
      /\ \A e \in Epochs : maySnap'[e] = IF e = epoch THEN {set} ELSE maySnap[e]
  BY <1>2 DEF SnapFilesInv
<1>7. DOMAIN files.json \subseteq Epochs /\ DOMAIN files.tmp \subseteq Epochs
  BY DEF SnapFilesInv, SnapshotEpochs
<1>8. /\ \A e \in DOMAIN files'.json : files'.json[e] \in maySnap'[e]
      /\ \A e \in DOMAIN files'.tmp : files'.tmp[e] \subseteq maySnap'[e]
  BY <1>3, <1>4, <1>6, <1>7 DEF SnapFilesInv
<1>9. ackedSnaps' \subseteq DOMAIN files'.json
  BY <1>2, <1>4 DEF SnapFilesInv
<1> QED
  BY <1>2, <1>5, <1>6, <1>8, <1>9 DEF SnapFilesInv, SnapshotEpochs

\* Only the steps of SaveEpochSnapshot touch the snapshot files.
LEMMA SnapFilesNext ==
  ASSUME SnapFilesInv, [Next]_vars
  PROVE  SnapFilesInv'
<1>1. ASSUME UNCHANGED <<files, maySnap, ackedSnaps>>, naming' \in {naming, {}}
      PROVE  SnapFilesInv'
  BY <1>1 DEF SnapFilesInv, SnapshotEpochs
<1>2. ASSUME NEW epoch \in Epochs, NEW set, WriteTmp(epoch, set)
      PROVE  SnapFilesInv'
  <2>1. /\ files' = WithTmp(files, epoch, {set})
        /\ naming' = {epoch} /\ ackedSnaps' = ackedSnaps
        /\ maySnap' = [maySnap EXCEPT ![epoch] = @ \cup {set}]
    BY <1>2 DEF WriteTmp
  <2>2. /\ DOMAIN maySnap' = Epochs
        /\ \A e \in Epochs : maySnap[e] \subseteq maySnap'[e]
        /\ {set} \subseteq maySnap'[epoch]
    BY <2>1 DEF SnapFilesInv
  <2> QED
    BY <2>1, <2>2, TmpStep
<1>3. ASSUME NEW epoch \in Epochs, WriteTmpFails(epoch)
      PROVE  SnapFilesInv'
  <2>1. /\ files' = WithTmp(files, epoch, {})
        /\ naming' = {} /\ ackedSnaps' = ackedSnaps /\ maySnap' = maySnap
    BY <1>3 DEF WriteTmpFails, Idle
  <2>2. DOMAIN maySnap' = Epochs /\ \A e \in Epochs : maySnap[e] \subseteq maySnap'[e]
    BY <2>1 DEF SnapFilesInv
  <2> QED
    BY <2>1, <2>2, TmpStep
<1>4. CASE \/ OpenStores
           \/ \E block \in Blocks : AppendBlock(block)
           \/ \E block \in Blocks, cut \in Cuts \ {"whole"} : AppendFails(block, cut)
           \/ WriteIndex \/ WriteIndexFails \/ UNCHANGED vars
  BY <1>1, <1>4 DEF OpenStores, AppendBlock, AppendFails, WriteIndex, WriteIndexFails,
     vars, snapVars
<1>5. CASE RenameFails \/ Crash
  BY <1>1, <1>5 DEF RenameFails, Crash
<1> QED
  BY <1>2, <1>3, <1>4, <1>5, RenameStep DEF Next

-----------------------------------------------------------------------------
(* Theorems.                                                                 *)

\* The inductive invariant of the stores (SaveBlock, load, rebuildIndex).
THEOREM StoresInvariant == Spec => []StoresInv
<1>1. StoresInv /\ [Next]_vars => StoresInv'
  BY StoresInvNext
<1> QED
  BY <1>1, StoresInvInit, PTL DEF Spec

\* Files, maps and what callers know keep their types.
THEOREM TypesHold == Spec => []TypeOK
<1>1. Init => RestOfTypes
  BY DEF Init, RestOfTypes, EmptyFile, EmptyStore
<1>2. StoresInv /\ RestOfTypes /\ [Next]_vars => RestOfTypes'
  BY RestOfTypesNext
<1>3. StoresInv /\ RestOfTypes => TypeOK
  BY DEF StoresInv, ShapeInv, TipInv, TipOk, HeightsOk, RestOfTypes, TypeOK, IsIndex
<1> QED
  BY <1>1, <1>2, <1>3, StoresInvariant, PTL DEF Spec

\* A store that opens after a crash has every block SaveBlock acknowledged.
THEOREM NothingLostHolds == Spec => []NothingLost
<1>1. StoresInv => NothingLost
  BY DEF StoresInv, BlocksInv, NothingLost
<1> QED
  BY <1>1, StoresInvariant, PTL

\* However saves were interrupted, GetTip, GetBlockByHeight and GetRange of a
\* store that opened meet no dangling hash, and the tip is its highest block.
THEOREM ReadsSucceedHolds == Spec => []ReadsSucceed
<1>1. StoresInv => ReadsSucceed
  <2> SUFFICES ASSUME StoresInv, up PROVE ReadsSucceed
    BY DEF ReadsSucceed
  <2>1. TipOk(mem) /\ \A k \in DOMAIN mem.heights : mem.heights[k] \in mem.blocks
    BY DEF StoresInv, TipInv
  <2> QED
    BY <2>1 DEF ReadsSucceed, TipOk, GetTipOk, At
<1> QED
  BY <1>1, StoresInvariant, PTL

\* LoadLatestSnapshot and LoadSnapshotByEpoch find, however a save was cut
\* short, a set that was saved last for its epoch or tried since.
THEOREM LatestSnapshotSavedHolds == Spec => []LatestSnapshotSaved
<1>1. Init => SnapFilesInv
  BY DEF Init, SnapFilesInv, SnapshotEpochs, NoFiles, EmptyMap
<1>2. SnapFilesInv /\ [Next]_vars => SnapFilesInv'
  BY SnapFilesNext
<1>3. SnapFilesInv => LatestSnapshotSaved
  <2> SUFFICES ASSUME SnapFilesInv PROVE LatestSnapshotSaved
    OBVIOUS
  <2> DEFINE epoch == LatestEpoch(files)
  <2>1. ASSUME SnapshotEpochs(files) # {}
        PROVE  /\ epoch \in SnapshotEpochs(files)
               /\ \A e \in SnapshotEpochs(files) : e <= epoch
    <3>1. SnapshotEpochs(files) \subseteq Nat
      BY StoresAssumption DEF SnapFilesInv
    <3>2. PICK top \in SnapshotEpochs(files) :
            \A e \in SnapshotEpochs(files) : top >= e
      BY <2>1, <3>1 DEF SnapFilesInv
    <3>3. /\ epoch \in SnapshotEpochs(files)
          /\ \A e \in SnapshotEpochs(files) : epoch >= e
      BY <3>2 DEF LatestEpoch, Max
    <3> QED
      BY <3>1, <3>3
  <2> HIDE DEF epoch
  <2>2. ASSUME SnapshotEpochs(files) # {}
        PROVE  LatestSnapshot(files) \subseteq maySnap[epoch]
    BY <2>1, <2>2 DEF SnapFilesInv, LatestSnapshot, SnapshotEpochs, epoch
  <2>3. ASSUME SnapshotEpochs(files) # {}, NEW e \in ackedSnaps
        PROVE  e <= epoch
    BY <2>1, <2>3 DEF SnapFilesInv, SnapshotEpochs
  <2> QED
    BY <2>2, <2>3 DEF SnapFilesInv, LatestSnapshotSaved, epoch
<1> QED
  BY <1>1, <1>2, <1>3, PTL DEF Spec

\* By height, FileBlockStore is a durable map.
THEOREM BlockStoreImplementsDurableMap == Spec => ImplementsDurableMap
<1>1. Init => Store!StoreInit
  BY DEF Init, Store!StoreInit, EmptyStore, EmptyMap, At
<1>2. StoresInv /\ [Next]_vars => [Store!StoreNext]_(Store!storeVars)
  BY StoresInvNext
<1> QED
  BY <1>1, <1>2, StoresInvariant, PTL DEF Spec, ImplementsDurableMap, Store!StoreSpec
=============================================================================

------------------------- MODULE StorageFileProofs -------------------------
(* Lemmas about the files of adapters/storage_file.go: what an append, a     *)
(* save and a rebuild leave for a reader.                                    *)
EXTENDS StorageFile, TLAPS

\* An append adds at most its block, and loses none while the file is good.
LEMMA AppendedReadBack ==
  ASSUME NEW file, NEW block, NEW cut, file.ended => file.open = {}
  PROVE  LET f == Appended(file, block, cut)
         IN /\ f.ended => f.open = {}
            /\ f.lines \subseteq file.lines \cup {block}
            /\ f.open \subseteq {block}
            /\ ~ f.bad => /\ ~ file.bad
                          /\ ReadBack(file) \subseteq ReadBack(f)
            /\ ~ f.bad /\ cut = "whole" => block \in ReadBack(f)
BY DEF Appended, ReadBack

\* Only a file that ends with a newline takes another line; the block is then
\* read back, whether the append was reported as an error or not.
LEMMA AppendedGood ==
  ASSUME NEW file, NEW block, NEW cut, file.ended => file.open = {}
  PROVE  LET f == Appended(file, block, cut)
         IN /\ ReadBack(f) \subseteq ReadBack(file) \cup {block}
            /\ f.ended = (cut = "whole")
            /\ ~ f.bad => /\ ~ file.bad /\ file.ended
                          /\ cut \in {"whole", "open"}
                             => ReadBack(f) = ReadBack(file) \cup {block}
                          /\ ReadBack(file) \subseteq ReadBack(f)
BY DEF Appended, ReadBack

\* A rebuilt index leads to some block of each height, and to one of the top.
LEMMA RebuiltIndex ==
  ASSUME NEW known, known # {}, NEW j \in Rebuilt(known)
  PROVE  \E h \in OneOfEachHeight(known) :
           \E k \in {l \in DOMAIN h : \A l2 \in DOMAIN h : l2 <= l} :
             j = [heights |-> h, tip |-> h[k]]
BY DEF Rebuilt

-----------------------------------------------------------------------------
(* Blocks and indexes as they are when blocks are hashes of the engine.      *)

\* A non-empty sequence.
IsBlock(b) == b \in Seq({b[i] : i \in DOMAIN b}) /\ Len(b) >= 1

\* Each height leads to a block of that height, and the tip is one of them.
IndexOk(i) ==
  /\ \A k \in DOMAIN i.heights :
       k \in Nat /\ IsBlock(i.heights[k]) /\ Height(i.heights[k]) = k
  /\ i.tip = NoBlock <=> DOMAIN i.heights = {}
  /\ i.tip # NoBlock =>
       /\ Height(i.tip) \in DOMAIN i.heights
       /\ i.heights[Height(i.tip)] = i.tip

\* With a height, all lower ones.
Contiguous(D) == \A k \in D : 0..k \subseteq D

Levels(known) == {Height(b) : b \in known}

\* Heights of blocks are natural numbers.
LEMMA BlockHeight ==
  ASSUME NEW b, IsBlock(b)
  PROVE  b # NoBlock /\ Height(b) \in Nat
<1>1. Len(b) \in Nat /\ Len(b) >= 1
  BY DEF IsBlock
<1>2. Len(NoBlock) = 0
  BY DEF NoBlock
<1> QED
  BY <1>1, <1>2 DEF Height

\* A block on a parent is one higher.
LEMMA AppendBlockHeight ==
  ASSUME NEW parent, IsBlock(parent), NEW header
  PROVE  /\ IsBlock(Append(parent, header))
         /\ Height(Append(parent, header)) = Height(parent) + 1
<1> DEFINE hash == Append(parent, header)
           Old == {parent[i] : i \in DOMAIN parent}
           New == {hash[i] : i \in DOMAIN hash}
<1>1. parent \in Seq(Old \cup {header}) /\ Len(parent) \in Nat /\ Len(parent) >= 1
  BY DEF IsBlock
<1>2. /\ hash \in Seq(Old \cup {header})
      /\ Len(hash) = Len(parent) + 1
      /\ hash[Len(parent) + 1] = header
      /\ \A i \in 1..Len(parent) : hash[i] = parent[i]
  BY <1>1
<1>3. hash \in Seq(New)
  <2>1. DOMAIN hash = 1..Len(hash)
    BY <1>2
  <2> QED
    BY <1>2, <2>1
<1>4. Len(hash) >= 1
  BY <1>1, <1>2
<1> HIDE DEF hash, New, Old
<1>5. IsBlock(hash)
  BY <1>3, <1>4 DEF IsBlock, New
<1>6. Height(hash) = Height(parent) + 1
  BY <1>1, <1>2 DEF Height
<1> QED
  BY <1>5, <1>6 DEF hash

\* The height above a contiguous range, or the lowest one.
LEMMA ContiguousAdd ==
  ASSUME NEW D, Contiguous(D), NEW k \in Nat, k = 0 \/ k - 1 \in D
  PROVE  Contiguous(D \cup {k})
<1>1. 0..k \subseteq D \cup {k}
  <2>1. CASE k = 0
    BY <2>1
  <2>2. CASE k - 1 \in D
    <3>1. 0..(k - 1) \subseteq D
      BY <2>2 DEF Contiguous
    <3> QED
      BY <3>1
  <2> QED
    BY <2>1, <2>2
<1> QED
  BY <1>1 DEF Contiguous

\* A save keeps an index in order, and contiguous if the block's parent, or
\* nothing, is below it.
LEMMA SavedIndex ==
  ASSUME NEW m, IndexOk(m), NEW block, IsBlock(block)
  PROVE  LET s == Saved(m, block)
         IN /\ IndexOk(s)
            /\ DOMAIN s.heights = DOMAIN m.heights \cup {Height(block)}
            /\ \A k \in DOMAIN s.heights :
                 \/ s.heights[k] = block
                 \/ k \in DOMAIN m.heights /\ s.heights[k] = m.heights[k]
            /\ /\ Contiguous(DOMAIN m.heights)
               /\ Height(block) = 0 \/ Height(block) - 1 \in DOMAIN m.heights
               => Contiguous(DOMAIN s.heights)
<1> DEFINE s == Saved(m, block)
<1>1. /\ DOMAIN s.heights = DOMAIN m.heights \cup {Height(block)}
      /\ \A k \in DOMAIN s.heights :
           s.heights[k] = IF k = Height(block) THEN block ELSE m.heights[k]
      /\ s.tip = IF Height(block) >= Height(m.tip) THEN block ELSE m.tip
  BY DEF Saved, Put
<1>2. block # NoBlock /\ Height(block) \in Nat
  BY BlockHeight
<1> HIDE DEF s
<1>3. IndexOk(s)
  <2>1. \A k \in DOMAIN s.heights :
          k \in Nat /\ IsBlock(s.heights[k]) /\ Height(s.heights[k]) = k
    BY <1>1, <1>2 DEF IndexOk
  <2>2. Height(block) \in DOMAIN s.heights /\ s.heights[Height(block)] = block
    BY <1>1
  <2>3. CASE Height(block) >= Height(m.tip)
    <3>1. s.tip = block
      BY <1>1, <2>3
    <3> QED
      BY <1>2, <2>1, <2>2, <3>1 DEF IndexOk
  <2>4. CASE ~ (Height(block) >= Height(m.tip))
    <3>1. s.tip = m.tip
      BY <1>1, <2>4
    <3>2. m.tip # NoBlock
      <4>1. Height(NoBlock) = -1
        BY DEF Height, NoBlock
      <4> QED
        BY <1>2, <2>4, <4>1
    <3>3. Height(m.tip) \in DOMAIN m.heights /\ m.heights[Height(m.tip)] = m.tip
      BY <3>2 DEF IndexOk
    <3>4. Height(m.tip) # Height(block)
      BY <1>2, <2>4
    <3>5. Height(m.tip) \in DOMAIN s.heights /\ s.heights[Height(m.tip)] = m.tip
      BY <1>1, <3>3, <3>4
    <3> QED
      BY <2>1, <2>2, <3>1, <3>2, <3>5 DEF IndexOk
  <2> QED
    BY <2>3, <2>4
<1>4. ASSUME Contiguous(DOMAIN m.heights),
             Height(block) = 0 \/ Height(block) - 1 \in DOMAIN m.heights
      PROVE  Contiguous(DOMAIN s.heights)
  BY <1>1, <1>2, <1>4, ContiguousAdd
<1> QED
  BY <1>1, <1>3, <1>4 DEF s

\* A store that opens leads, at each height, to a block it has, if its index
\* does; a rebuilt index leads to all heights there are.
LEMMA OpenedIndex ==
  ASSUME NEW file, NEW i, \A b \in ReadBack(file) : IsBlock(b), IndexOk(i),
         \A k \in DOMAIN i.heights : i.heights[k] \in ReadBack(file),
         NEW m \in Opened(file, i)
  PROVE  /\ m.blocks = ReadBack(file)
         /\ IndexOk(m)
         /\ \A k \in DOMAIN m.heights : m.heights[k] \in ReadBack(file)
         /\ DOMAIN m.heights = {} => ReadBack(file) = {}
         /\ Contiguous(DOMAIN i.heights) /\ Contiguous(Levels(ReadBack(file)))
            => Contiguous(DOMAIN m.heights)
<1>1. CASE DOMAIN i.heights # {}
  <2>1. m = [blocks |-> ReadBack(file), heights |-> i.heights, tip |-> i.tip]
    BY <1>1 DEF Opened
  <2> QED
    BY <1>1, <2>1 DEF IndexOk
<1>2. CASE DOMAIN i.heights = {}
  <2>1. PICK j \in Rebuilt(ReadBack(file)) :
          m = [blocks |-> ReadBack(file), heights |-> j.heights, tip |-> j.tip]
    BY <1>2 DEF Opened
  <2>2. CASE ReadBack(file) = {}
    <3>1. m.tip = NoBlock /\ DOMAIN m.heights = {} /\ m.blocks = ReadBack(file)
      BY <2>1, <2>2 DEF Rebuilt, EmptyIndex, EmptyMap
    <3> QED
      BY <2>2, <3>1 DEF IndexOk, Contiguous
  <2>3. CASE ReadBack(file) # {}
    <3> DEFINE known == ReadBack(file)
    <3>1. PICK h \in OneOfEachHeight(known) :
            \E k \in {l \in DOMAIN h : \A l2 \in DOMAIN h : l2 <= l} :
              j = [heights |-> h, tip |-> h[k]]
      BY <2>1, <2>3, RebuiltIndex
    <3>2. PICK k \in DOMAIN h : j = [heights |-> h, tip |-> h[k]]
      BY <3>1
    <3>3. m.heights = h /\ m.tip = h[k] /\ m.blocks = known
      BY <2>1, <3>2
    <3>4. /\ DOMAIN h = Levels(known)
          /\ \A l \in DOMAIN h : h[l] \in known /\ Height(h[l]) = l
      BY <3>1 DEF OneOfEachHeight, Levels
    <3>5. \A l \in DOMAIN h : l \in Nat /\ IsBlock(h[l]) /\ h[l] # NoBlock
      BY <3>4, BlockHeight
    <3>6. IndexOk(m)
      BY <3>2, <3>3, <3>4, <3>5 DEF IndexOk
    <3> QED
      BY <3>2, <3>3, <3>4, <3>6
  <2> QED
    BY <2>2, <2>3
<1> QED
  BY <1>1, <1>2
=============================================================================

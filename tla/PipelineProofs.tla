--------------------------- MODULE PipelineProofs ---------------------------
(* The transaction pipeline keeps its promises for every set of              *)
(* transactions, every genesis ledger and every block size, whichever blocks *)
(* are lost: nothing is applied twice, overdrawn, created or burnt.          *)
EXTENDS TxPipeline, LedgerProofs

\* What the blocks have made of the nonce of a.
NoncesInv(a) ==
  /\ AccountOf(Genesis, a).Nonce <= AccountOf(state, a).Nonce
  /\ SettledNonces(a) =
       AccountOf(Genesis, a).Nonce + 1 .. AccountOf(state, a).Nonce

OneEach ==
  \A s, t \in Txs :
    settled[s] > 0 /\ settled[t] > 0 /\ s.From = t.From /\ s.Nonce = t.Nonce => s = t

\* The inductive invariant: the pool is a list without repetition, in the
\* order of priority, of signed transactions that users submitted, and the map
\* of hashes is its set; the ledger is one, has the money of the genesis
\* ledger, and its nonces are those of the transactions on the chain.
IInv ==
  /\ PoolInv
  /\ byHash \subseteq Txs
  /\ state \in Ledgers
  /\ height \in {0, 1}
  /\ settled \in [Txs -> {0, 1}]
  /\ OneEach
  /\ \A a : NoncesInv(a)
  /\ Total(state) = Total(Genesis)

LEMMA GenesisLedger == Genesis \in Ledgers
BY PipelineAssumption, LedgerIs

LEMMA InitIInv == Init => IInv
<1> SUFFICES ASSUME Init PROVE IInv
  OBVIOUS
<1>1. PoolInv /\ byHash \subseteq Txs
  BY PoolInvInit DEF Init, MempoolInit
<1>2. state = Genesis /\ height = 0 /\ settled = [tx \in Txs |-> 0]
  BY DEF Init
<1>3. settled \in [Txs -> {0, 1}] /\ OneEach
  BY <1>2 DEF OneEach
<1>4. ASSUME NEW a PROVE NoncesInv(a)
  <2>1. AccountOf(Genesis, a).Nonce \in Nat
    BY GenesisLedger, AccountTyped
  <2>2. SettledNonces(a) = {}
    BY <1>2 DEF SettledNonces
  <2> DEFINE n == AccountOf(Genesis, a).Nonce
  <2> HIDE DEF n
  <2>3. n <= n /\ n + 1 .. n = {}
    BY <2>1 DEF n
  <2>4. AccountOf(state, a).Nonce = n
    BY <1>2 DEF n
  <2> QED
    BY <2>2, <2>3, <2>4 DEF NoncesInv, n
<1> QED
  BY <1>1, <1>2, <1>3, <1>4, GenesisLedger DEF IInv

\* What PopForBlock selects for a block, and what AddBlock makes of it.
PickFor(producer) == PopForBlock(list, state, MaxBlockTxs, producer)

LEMMA PickFacts ==
  ASSUME IInv, NEW producer \in Producers
  PROVE  /\ GoodPick(PickFor(producer), list, state, producer, Len(list))
         /\ PickFor(producer).out \in Seq(Transaction)
         /\ ApplyTransactions(state, PickFor(producer).out, producer)
              = [ok |-> TRUE, st |-> PickFor(producer).st]
         /\ PickFor(producer).st \in Ledgers
<1>1. /\ list \in Seq(Transaction) /\ state \in Ledgers
      /\ producer \in Nat /\ MaxBlockTxs \in Nat
  BY PipelineAssumption DEF IInv, PoolInv, MempoolTypeOK
<1> DEFINE pick == PopForBlock(list, state, MaxBlockTxs, producer)
<1>2. GoodPick(pick, list, state, producer, Len(list))
  BY <1>1, PickIsGood
<1> HIDE DEF pick
<1> QED
  BY <1>2 DEF GoodPick, Picks, PickFor, pick

\* What a batch leaves in the pool, whatever becomes of the block.
LEMMA PoolOfBatch ==
  ASSUME IInv, NEW producer \in Producers, Popped(PickFor(producer))
  PROVE  /\ PoolInv' /\ byHash' \subseteq byHash
         /\ ToSet(PickFor(producer).out) \subseteq Txs
<1> DEFINE pick == PickFor(producer)
<1>1. GoodPick(pick, list, state, producer, Len(list))
  BY PickFacts
<1> HIDE DEF pick
<1>2. Popped(pick)
  BY DEF pick
<1>3. /\ PoolInv' /\ byHash \ byHash' = ToSet(pick.out) /\ byHash' \subseteq byHash
  BY <1>1, <1>2, PoppedKeepsPool DEF IInv, Popped
<1> QED
  BY <1>3 DEF IInv, pick

\* A canonical block in terms of what it selects.
LEMMA BlockEffect ==
  ASSUME IInv, NEW producer \in Producers, ProduceBlock(producer)
  PROVE  LET out == PickFor(producer).out
             applied == ApplyTransactions(state, out, producer)
         IN /\ Popped(PickFor(producer))
            /\ producer # NoAddr
            /\ out \in Seq(Transaction)
            /\ applied.ok /\ state' = applied.st /\ state' \in Ledgers
            /\ height' = 1 - height
            /\ settled' = [tx \in Txs |->
                            settled[tx] + IF tx \in ToSet(out) THEN 1 ELSE 0]
<1>1. PickFor(producer).out \in Seq(Transaction) /\ PickFor(producer).st \in Ledgers
  BY PickFacts
<1>2. ApplyTransactions(state, PickFor(producer).out, producer)
        = [ok |-> TRUE, st |-> PickFor(producer).st]
  BY PickFacts
<1>3. ApplyTransactions(state, PickFor(producer).out, producer).st = PickFor(producer).st
  BY <1>2
<1> QED
  BY <1>1, <1>3 DEF ProduceBlock, PickFor

\* Of each sender the block takes the nonces that come next.
LEMMA BlockNonces ==
  ASSUME IInv, NEW producer \in Producers, ProduceBlock(producer)
  PROVE  /\ settled' \in [Txs -> {0, 1}]
         /\ OneEach'
         /\ \A a : NoncesInv(a)'
<1> DEFINE out == PickFor(producer).out
           now(a) == AccountOf(state, a).Nonce
           next(a) == AccountOf(state', a).Nonce
           first(a) == AccountOf(Genesis, a).Nonce
           all == ToSet(out)
<1>1. /\ out \in Seq(Transaction) /\ state \in Ledgers /\ state' \in Ledgers
      /\ producer \in Nat
      /\ ApplyTransactions(state, out, producer).ok
      /\ ApplyTransactions(state, out, producer).st = state'
      /\ settled' = [tx \in Txs |-> settled[tx] + IF tx \in all THEN 1 ELSE 0]
      /\ all \subseteq Txs
  BY BlockEffect, PoolOfBatch, PipelineAssumption DEF IInv
<1>2. /\ \A a : now(a) <= next(a) /\ NoncesOf(out, Len(out), a) = now(a) + 1 .. next(a)
      /\ \A i, j \in 1..Len(out) :
           i < j /\ out[i].From = out[j].From => out[i].Nonce < out[j].Nonce
  <2> HIDE DEF out
  <2> QED
    BY <1>1, NoncesRun
<1>3. /\ settled \in [Txs -> {0, 1}] /\ OneEach
      /\ \A a : first(a) <= now(a) /\ SettledNonces(a) = first(a) + 1 .. now(a)
  BY DEF IInv, NoncesInv
<1>4. \A a : first(a) \in Nat /\ now(a) \in Nat /\ next(a) \in Nat
  BY <1>1, GenesisLedger, AccountTyped
<1> HIDE DEF out, now, next, first
<1>5. /\ DOMAIN out = 1..Len(out) /\ Len(out) \in Nat
      /\ \A i \in 1..Len(out) : out[i].Nonce \in Nat
  <2>1. out \in Seq(Transaction)
    BY <1>1
  <2>2. \A i \in 1..Len(out) : out[i] \in Transaction
    BY <2>1
  <2> QED
    BY <2>1, <2>2, TransactionFields
<1>6. all = {out[i] : i \in 1..Len(out)}
  BY <1>5 DEF ToSet
<1> HIDE DEF all
<1>7. \A a : NoncesOf(out, Len(out), a) = {tx.Nonce : tx \in {t \in all : t.From = a}}
  BY <1>6 DEF NoncesOf
<1>8. \A tx \in all : tx.Nonce \in now(tx.From) + 1 .. next(tx.From)
  BY <1>2, <1>7
<1>9. \A tx \in Txs : settled[tx] > 0 => tx.Nonce \in first(tx.From) + 1 .. now(tx.From)
  BY <1>3 DEF SettledNonces
<1>10. \A n, k, l, m \in Nat : ~ (n \in k + 1 .. l /\ n \in l + 1 .. m)
  OBVIOUS
<1>11. \A tx \in Txs : tx.Nonce \in Nat
  BY PipelineAssumption DEF Transaction
<1>12. ASSUME NEW s \in all, NEW t \in Txs, settled[t] > 0, s.From = t.From, s.Nonce = t.Nonce
       PROVE  FALSE
  <2> DEFINE a == s.From
  <2>1. s.Nonce \in Nat /\ first(a) \in Nat /\ now(a) \in Nat /\ next(a) \in Nat
    BY <1>1, <1>4, <1>11
  <2>2. s.Nonce \in now(a) + 1 .. next(a)
    BY <1>8
  <2>3. s.Nonce \in first(a) + 1 .. now(a)
    BY <1>9, <1>12
  <2> HIDE DEF a
  <2> QED
    BY <1>10, <2>1, <2>2, <2>3
<1>13. \A tx \in Txs : settled'[tx] = IF tx \in all THEN 1 ELSE settled[tx]
  <2> SUFFICES ASSUME NEW tx \in Txs
               PROVE  settled'[tx] = IF tx \in all THEN 1 ELSE settled[tx]
    OBVIOUS
  <2>1. settled[tx] \in {0, 1}
    BY <1>3
  <2>2. tx \in all => settled[tx] = 0
    BY <1>12, <2>1
  <2> QED
    BY <1>1, <2>1, <2>2
<1>14. settled' \in [Txs -> {0, 1}]
  <2>1. \A tx \in Txs : settled'[tx] \in {0, 1}
    BY <1>3, <1>13
  <2> QED
    BY <1>1, <2>1
<1>15. \A tx \in Txs : settled'[tx] > 0 <=> tx \in all \/ settled[tx] > 0
  BY <1>13
<1>16. ASSUME NEW s \in Txs, NEW t \in Txs, settled'[s] > 0, settled'[t] > 0,
              s.From = t.From, s.Nonce = t.Nonce
       PROVE  s = t
  <2>1. CASE s \in all /\ t \in all
    <3>1. PICK i \in 1..Len(out) : s = out[i]
      BY <1>6, <2>1
    <3>2. PICK j \in 1..Len(out) : t = out[j]
      BY <1>6, <2>1
    <3>3. ~ i < j /\ ~ j < i
      <4>1. ~ out[i].Nonce < out[j].Nonce /\ ~ out[j].Nonce < out[i].Nonce
        BY <1>5, <1>16, <3>1, <3>2
      <4> QED
        BY <1>2, <1>16, <3>1, <3>2, <4>1
    <3>4. i = j
      BY <1>5, <3>3
    <3> QED
      BY <3>1, <3>2, <3>4
  <2>2. CASE s \notin all /\ t \notin all
    BY <1>3, <1>15, <1>16, <2>2 DEF OneEach
  <2>3. CASE s \in all /\ t \notin all
    BY <1>12, <1>15, <1>16, <2>3
  <2>4. CASE s \notin all /\ t \in all
    BY <1>12, <1>15, <1>16, <2>4
  <2> QED
    BY <2>1, <2>2, <2>3, <2>4
<1>17. ASSUME NEW a PROVE NoncesInv(a)'
  <2> DEFINE old == {tx.Nonce : tx \in {t \in Txs : t.From = a /\ settled[t] > 0}}
             new == {tx.Nonce : tx \in {t \in Txs : t.From = a /\ settled'[t] > 0}}
             batch == {tx.Nonce : tx \in {t \in all : t.From = a}}
  <2>1. new = old \cup batch
    BY <1>1, <1>15
  <2>2. old = first(a) + 1 .. now(a) /\ batch = now(a) + 1 .. next(a)
    BY <1>2, <1>3, <1>7 DEF SettledNonces
  <2>3. first(a) <= now(a) /\ now(a) <= next(a)
    BY <1>2, <1>3
  <2>4. \A k, l, m \in Nat : k <= l /\ l <= m => (k + 1 .. l) \cup (l + 1 .. m) = k + 1 .. m
    OBVIOUS
  <2> HIDE DEF old, new, batch
  <2>5. new = first(a) + 1 .. next(a)
    BY <1>4, <2>1, <2>2, <2>3, <2>4
  <2>6. first(a) <= next(a)
    BY <1>4, <2>3
  <2> QED
    BY <2>5, <2>6 DEF NoncesInv, SettledNonces, new, first, next
<1> QED
  BY <1>14, <1>16, <1>17 DEF OneEach

LEMMA NextIInv == IInv /\ [Next]_vars => IInv'
<1> SUFFICES ASSUME IInv, [Next]_vars PROVE IInv'
  OBVIOUS
<1>1. ASSUME PoolInv', byHash' \subseteq Txs, UNCHANGED <<state, height, settled>>
      PROVE  IInv'
  BY <1>1 DEF IInv, OneEach, NoncesInv, SettledNonces
<1>2. ASSUME NEW tx \in Txs, AddTx(tx)
      PROVE  IInv'
  <2>1. PoolInv'
    BY <1>2, AddKeepsPool, PipelineAssumption DEF IInv, AddTx
  <2>2. byHash' \subseteq Txs /\ UNCHANGED <<state, height, settled>>
    BY <1>2 DEF IInv, AddTx, Add
  <2> QED
    BY <1>1, <2>1, <2>2
<1>3. ASSUME NEW producer \in Producers, ProduceBlock(producer)
      PROVE  IInv'
  <2> DEFINE out == PickFor(producer).out
             applied == ApplyTransactions(state, out, producer)
  <2>1. /\ Popped(PickFor(producer)) /\ producer # NoAddr /\ out \in Seq(Transaction)
        /\ applied.ok /\ state' = applied.st /\ state' \in Ledgers
        /\ height' = 1 - height
    BY <1>3, BlockEffect
  <2>2. PoolInv' /\ byHash' \subseteq Txs
    BY <2>1, PoolOfBatch DEF IInv
  <2>3. Total(state') = Total(Genesis)
    <3>1. state \in Ledgers /\ producer \in Nat /\ Total(state) = Total(Genesis)
      BY PipelineAssumption DEF IInv
    <3> HIDE DEF out
    <3>2. Total(applied.st) = Total(state)
      BY <2>1, <3>1, PaidListTotal
    <3> HIDE DEF applied
    <3> QED
      BY <2>1, <3>1, <3>2
  <2>4. height' \in {0, 1}
    BY <2>1 DEF IInv
  <2> HIDE DEF out, applied
  <2>5. /\ settled' \in [Txs -> {0, 1}]
        /\ OneEach'
        /\ \A a : NoncesInv(a)'
    BY <1>3, BlockNonces
  <2> QED
    BY <2>1, <2>2, <2>3, <2>4, <2>5 DEF IInv
<1>4. ASSUME NEW producer \in Producers, LoseBlock(producer)
      PROVE  IInv'
  <2>1. Popped(PickFor(producer)) /\ UNCHANGED <<state, height, settled>>
    BY <1>4 DEF LoseBlock, PickFor
  <2>2. PoolInv' /\ byHash' \subseteq Txs
    BY <2>1, PoolOfBatch DEF IInv
  <2> QED
    BY <1>1, <2>1, <2>2
<1>5. CASE UNCHANGED vars
  <2>1. PoolInv' /\ byHash' \subseteq Txs
    BY <1>5 DEF vars, IInv, PoolInv, MempoolTypeOK, NoneTwice, InOrder
  <2> QED
    BY <1>1, <1>5, <2>1 DEF vars
<1> QED
  BY <1>2, <1>3, <1>4, <1>5 DEF Next

LEMMA Invariant == Spec => []IInv
BY InitIInv, NextIInv, PTL DEF Spec

-----------------------------------------------------------------------------
\* The state has its type; in particular no ledger the blocks leave has an
\* account with a negative balance.
THEOREM TypeCorrect == Spec => []TypeOK
<1>1. IInv => TypeOK
  BY LedgerIs, PoolInvImplies DEF IInv, TypeOK
<1> QED
  BY <1>1, Invariant, PTL

\* Mempool.list and Mempool.byHash never drift apart, and no transaction is
\* twice in the list.
THEOREM InSync == Spec => []PoolInSync
<1>1. IInv => PoolInSync
  BY PoolInvImplies DEF IInv
<1> QED
  BY <1>1, Invariant, PTL

\* The list PopForBlock passes over is in the order of priority.
THEOREM Priority == Spec => []PriorityOrder
<1>1. IInv => PriorityOrder
  BY PoolInvImplies DEF IInv
<1> QED
  BY <1>1, Invariant, PTL

\* What PopForBlock tries one transaction at a time, ApplyTransactions accepts
\* as a whole, with the same ledger.
THEOREM Applies == Spec => []BatchApplies
<1>1. IInv => BatchApplies
  <2> SUFFICES ASSUME IInv, NEW producer \in Producers
               PROVE  /\ ApplyTransactions(state, PickFor(producer).out, producer).ok
                      /\ ApplyTransactions(state, PickFor(producer).out, producer).st
                           = PickFor(producer).st
    BY DEF BatchApplies, PickFor
  <2>1. ApplyTransactions(state, PickFor(producer).out, producer)
          = [ok |-> TRUE, st |-> PickFor(producer).st]
    BY PickFacts
  <2> QED
    BY <2>1
<1> QED
  BY <1>1, Invariant, PTL

-----------------------------------------------------------------------------
\* Whatever is submitted how often, and whichever blocks are lost: no
\* transaction is applied twice, no two with the same sender and nonce are, and
\* the nonces on the chain are those from the genesis ledger's on.
THEOREM ReplayFree == Spec => []NoReplay
<1>1. IInv => NoReplay
  <2> SUFFICES ASSUME IInv PROVE NoReplay
    OBVIOUS
  <2>1. \A tx \in Txs : settled[tx] <= 1
    BY DEF IInv
  <2>2. \A a \in DOMAIN state : AccountOf(state, a) = state[a]
    BY DEF AccountOf
  <2>3. \A a \in DOMAIN state :
          SettledNonces(a) = AccountOf(Genesis, a).Nonce + 1 .. state[a].Nonce
    BY <2>2 DEF IInv, NoncesInv
  <2> QED
    BY <2>1, <2>3 DEF IInv, OneEach, NoReplay
<1> QED
  BY <1>1, Invariant, PTL

\* Blocks move the money of the genesis ledger and neither make nor burn any:
\* every fee is paid to the producer, who has an address.
THEOREM MoneyKept == Spec => []SupplyKept
<1>1. IInv => SupplyKept
  BY TotalIs DEF IInv, SupplyKept, Supply
<1> QED
  BY <1>1, Invariant, PTL
=============================================================================

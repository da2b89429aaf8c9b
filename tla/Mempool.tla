------------------------------ MODULE Mempool ------------------------------
(* core/mempool.go: transactions waiting for a block, in order of priority.  *)
(* Add and PopForBlock hold the mutex for the whole of their work on the     *)
(* pool, so each is one atomic step.                                         *)
EXTENDS ProofOfValidity, FiniteSets, SequencesExt

VARIABLES
  list,   \* the pending transactions, sorted
  byHash  \* the hashes of the pending ones; a hash is the transaction itself

mempoolVars == <<list, byHash>>

MempoolTypeOK == list \in Seq(Transaction) /\ byHash \subseteq Transaction

MempoolInit == list = <<>> /\ byHash = {}

\* The comparison Add sorts with: higher fee, then lower address, then nonce.
Before(a, b) ==
  \/ a.Fee > b.Fee
  \/ a.Fee = b.Fee /\ a.From < b.From
  \/ a.Fee = b.Fee /\ a.From = b.From /\ a.Nonce < b.Nonce

\* Faulty: a new transaction stays at the end.
Unsorted(txs) == {txs}

\* What sort.Slice may make of txs: it is not stable, so transactions the
\* comparison does not tell apart may come out in either order.
Sorted(txs) ==
  {s \in {[i \in DOMAIN txs |-> txs[p[i]]] :
            p \in Bijection(DOMAIN txs, DOMAIN txs)} :
     \A i, j \in DOMAIN s : i < j => ~ Before(s[j], s[i])}

Add(tx) ==
  /\ VerifyTransactionSignature(tx)
  /\ tx \notin byHash
  /\ byHash' = byHash \cup {tx}
  /\ list' \in Sorted(Append(list, tx))

\* Faulty: every transaction is tried on the ledger before the block.
PopUnthreaded(txs, st, max, producer) ==
  LET fit == SelectSeq(txs, LAMBDA tx : ApplyTransactions(st, <<tx>>, producer).ok)
      out == SubSeq(fit, 1, IF Len(fit) < max THEN Len(fit) ELSE max)
  IN [out |-> out,
      remaining |-> SelectSeq(txs, LAMBDA tx : tx \notin ToSet(out)),
      st |-> ApplyTransactions(st, out, producer).st]

\* Faulty: the pass ends at the first transaction that does not apply.
PopUntilFailure(txs, st, max, producer) ==
  LET fits == {n \in 0..(IF Len(txs) < max THEN Len(txs) ELSE max) :
                 ApplyTransactions(st, SubSeq(txs, 1, n), producer).ok}
      n == CHOOSE k \in fits : \A m \in fits : m <= k
  IN [out |-> SubSeq(txs, 1, n),
      remaining |-> SubSeq(txs, n + 1, Len(txs)),
      st |-> ApplyTransactions(st, SubSeq(txs, 1, n), producer).st]

\* The greedy pass of PopForBlock over the sorted list: out is popped, the
\* rest stays in its order.
PopForBlock(txs, st, max, producer) ==
  LET run[i \in 0..Len(txs)] ==
        IF i = 0
        THEN [out |-> <<>>, remaining |-> <<>>, st |-> st]
        ELSE LET r == run[i - 1]
                 applied == ApplyTransactions(r.st, <<txs[i]>>, producer)
             IN IF Len(r.out) >= max \/ ~ applied.ok
                THEN [r EXCEPT !.remaining = Append(@, txs[i])]
                ELSE [r EXCEPT !.out = Append(@, txs[i]), !.st = applied.st]
  IN run[Len(txs)]

\* Faulty: the hashes of the popped transactions are kept.
PoppedKeepsHashes(pick) == list' = pick.remaining /\ UNCHANGED byHash

\* The effect of PopForBlock on the pool.
Popped(pick) ==
  /\ list' = pick.remaining
  /\ byHash' = byHash \ ToSet(pick.out)

-----------------------------------------------------------------------------
(* Properties.                                                               *)

\* The list and the map that finds duplicates never drift apart, in whatever
\* order transactions are added, popped and added again, and no transaction is
\* twice in the list.
PoolInSync == ToSet(list) = byHash /\ Len(list) = Cardinality(byHash)

\* The order PopForBlock relies on: fees fall along the list and, among the
\* transactions of one sender that pay the same fee, nonces rise.
PriorityOrder ==
  \A i, j \in 1..Len(list) : i < j =>
    /\ list[i].Fee >= list[j].Fee
    /\ list[i].From = list[j].From /\ list[i].Fee = list[j].Fee
         => list[i].Nonce <= list[j].Nonce
=============================================================================

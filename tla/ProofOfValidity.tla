--------------------------- MODULE ProofOfValidity ---------------------------
(* The ledger rules of consensus/pov.go.  A ledger state is a map from       *)
(* addresses to accounts; an address never touched is absent from it.  The   *)
(* address of a key is the key: SHA-256 is taken to be injective, for        *)
(* addresses as for transaction hashes, TxRoot and StateRoot, so a root is   *)
(* the value it commits to.                                                  *)
EXTENDS Integers, Sequences, Maps

\* The empty address string: no sender, or a producer without an address.
NoAddr == 0

\* Signed says that the hash, the sender address and the signature of the
\* transaction all match its public key.
Transaction ==
  [From : Nat, To : Nat, Amount : Int, Fee : Int, Nonce : Nat, Signed : BOOLEAN]

Account == [Balance : Nat, Nonce : Nat]

VerifyTransactionSignature(tx) == tx.Signed

VerifyTransactions(txs) == \A i \in DOMAIN txs : VerifyTransactionSignature(txs[i])

-----------------------------------------------------------------------------
AccountOf(st, addr) ==
  IF addr \in DOMAIN st THEN st[addr] ELSE [Balance |-> 0, Nonce |-> 0]

Credit(st, addr, amount) ==
  Put(st, addr, [AccountOf(st, addr) EXCEPT !.Balance = @ + amount])

\* Faulty: the nonce is not compared with the account's.
AppliesAgain(st, tx) ==
  /\ tx.Amount > 0
  /\ tx.From # NoAddr
  /\ tx.Nonce # 0
  /\ tx.Fee >= 0
  /\ AccountOf(st, tx.From).Balance >= tx.Amount + tx.Fee

\* Faulty: the fee is not covered.
AppliesWithoutFee(st, tx) ==
  /\ tx.Amount > 0
  /\ tx.From # NoAddr
  /\ tx.Nonce # 0
  /\ tx.Fee >= 0
  /\ AccountOf(st, tx.From).Nonce + 1 = tx.Nonce
  /\ AccountOf(st, tx.From).Balance >= tx.Amount

\* The checks ApplyTransactions makes before it applies tx.
TxApplies(st, tx) ==
  /\ tx.Amount > 0
  /\ tx.From # NoAddr
  /\ tx.Nonce # 0
  /\ tx.Fee >= 0
  /\ AccountOf(st, tx.From).Nonce + 1 = tx.Nonce
  /\ AccountOf(st, tx.From).Balance >= tx.Amount + tx.Fee

\* Faulty: the producer's account is read before the sender is debited.
ApplyTxStale(st, tx, producer) ==
  LET sender == AccountOf(st, tx.From)
      debited == Put(st, tx.From, [Balance |-> sender.Balance - (tx.Amount + tx.Fee),
                                   Nonce |-> tx.Nonce])
      paid == Credit(debited, tx.To, tx.Amount)
  IN IF producer # NoAddr /\ tx.Fee > 0
     THEN Put(paid, producer, Credit(st, producer, tx.Fee)[producer])
     ELSE paid

\* Debit the sender, credit the receiver, credit the producer: in that order,
\* any two of the three may be the same account.  Without a producer address
\* the fee is credited to nobody.
ApplyTx(st, tx, producer) ==
  LET sender == AccountOf(st, tx.From)
      debited == Put(st, tx.From, [Balance |-> sender.Balance - (tx.Amount + tx.Fee),
                                   Nonce |-> tx.Nonce])
      paid == Credit(debited, tx.To, tx.Amount)
  IN IF producer # NoAddr /\ tx.Fee > 0
     THEN Credit(paid, producer, tx.Fee)
     ELSE paid

\* All of txs in order on a copy of st, or an error and no state at all.
ApplyTransactions(st, txs, producer) ==
  LET run[i \in 0..Len(txs)] ==
        IF i = 0
        THEN [ok |-> TRUE, st |-> st]
        ELSE LET r == run[i - 1]
             IN IF r.ok /\ TxApplies(r.st, txs[i])
                THEN [ok |-> TRUE, st |-> ApplyTx(r.st, txs[i], producer)]
                ELSE [ok |-> FALSE, st |-> st]
  IN run[Len(txs)]
=============================================================================

---------------------------- MODULE MCTxPipeline ----------------------------
(* Two funded senders, one who must be paid first, and a producer that is    *)
(* one of them; two transactions that compete for one nonce with equal       *)
(* priority, one that waits for a lower-fee predecessor, one that overdraws, *)
(* and one with a bad signature.                                             *)
EXTENDS TxPipeline

Tx(from, to, amount, fee, nonce) ==
  [From |-> from, To |-> to, Amount |-> amount, Fee |-> fee, Nonce |-> nonce,
   Signed |-> TRUE]

MCTxs ==
  { Tx(1, 2, 1, 1, 1), Tx(1, 2, 1, 2, 2), Tx(1, 1, 2, 2, 2),
    Tx(2, 1, 2, 0, 1), Tx(2, 3, 1, 2, 2), Tx(3, 1, 1, 0, 1),
    [Tx(1, 2, 1, 1, 1) EXCEPT !.Amount = 2, !.Signed = FALSE] }

MCProducers == {NoAddr, 2}

MCGenesis == [a \in {1, 2} |-> [Balance |-> IF a = 1 THEN 4 ELSE 2, Nonce |-> 0]]
=============================================================================

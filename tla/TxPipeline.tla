----------------------------- MODULE TxPipeline -----------------------------
(* The transaction pipeline on its own: AddTx fills the mempool, and every   *)
(* block takes a batch from it (SelectTxsForBlock) and applies the batch to  *)
(* the ledger, as AddBlock does when it is called without transactions.      *)
(* Who leads a slot, who can sign and which blocks fork choice follows is    *)
(* not decided here: any leader may come, and a block may fail to become     *)
(* canonical at any time.  The producers of canonical blocks stay registered *)
(* (Blockchain lets them leave), so a replay from genesis ends where the     *)
(* last block did.                                                           *)
EXTENDS Mempool

CONSTANTS
  Txs,         \* the transactions users submit, as often as they like
  Producers,   \* reward addresses of the slots' leaders, NoAddr for none
  Genesis,     \* the ledger the chain starts from
  MaxBlockTxs  \* transactions per block

ASSUME PipelineAssumption ==
  /\ Txs \subseteq Transaction
  /\ Producers \subseteq Nat
  /\ DOMAIN Genesis \subseteq Nat /\ IsFiniteSet(DOMAIN Genesis)
  /\ Genesis \in [DOMAIN Genesis -> Account]
  /\ MaxBlockTxs \in Nat \ {0}

VARIABLES
  state,  \* bc.State
  height, \* the parity of the canonical chain's height
  \* Observability variable: how often each transaction is on the canonical chain.
  settled

vars == <<list, byHash, state, height, settled>>

Init ==
  /\ MempoolInit
  /\ state = Genesis
  /\ height = 0
  /\ settled = [tx \in Txs |-> 0]

AddTx(tx) == Add(tx) /\ UNCHANGED <<state, height, settled>>

\* AddBlock(nil): the block is accepted and extends the canonical chain.  Its
\* signature has verified, so its producer has an address.
ProduceBlock(producer) ==
  LET pick == PopForBlock(list, state, MaxBlockTxs, producer)
      applied == ApplyTransactions(state, pick.out, producer)
  IN /\ producer # NoAddr
     /\ applied.ok
     /\ Popped(pick)
     /\ height' = 1 - height
     /\ state' = applied.st
     /\ settled' = [tx \in Txs |->
                      settled[tx] + IF tx \in ToSet(pick.out) THEN 1 ELSE 0]

\* AddBlock(nil): the block is refused, or stored and left aside by
\* updateCanonical.  The batch is gone and the ledger stays.
LoseBlock(producer) ==
  /\ Popped(PopForBlock(list, state, MaxBlockTxs, producer))
  /\ UNCHANGED <<state, height, settled>>

Next ==
  \/ \E tx \in Txs : AddTx(tx)
  \/ \E producer \in Producers : ProduceBlock(producer)
  \/ \E producer \in Producers : LoseBlock(producer)

\* A driver is assumed that keeps calling AddBlock, and again and again one of
\* the blocks becomes canonical; any number may be lost between two of them.
\* Nobody has to submit anything.
Spec == Init /\ [][Next]_vars /\ []<><<height' # height>>_height

-----------------------------------------------------------------------------
TypeOK ==
  /\ MempoolTypeOK
  /\ height \in {0, 1}
  /\ DOMAIN state \subseteq Nat
  /\ state \in [DOMAIN state -> Account]
  /\ settled \in [Txs -> Nat]

\* A batch PopForBlock selects one transaction at a time is accepted as a
\* whole by ApplyTransactions, with the ledger the selection ended with: else
\* AddBlock loses the popped transactions and slashes an innocent leader.
BatchApplies ==
  \A producer \in Producers :
    LET pick == PopForBlock(list, state, MaxBlockTxs, producer)
        applied == ApplyTransactions(state, pick.out, producer)
    IN applied.ok /\ applied.st = pick.st

\* The nonces of the transactions of a on the canonical chain.
SettledNonces(a) ==
  {tx.Nonce : tx \in {t \in Txs : t.From = a /\ settled[t] > 0}}

\* However often a transaction is submitted, lost with a block and submitted
\* again (nothing keeps an applied one from entering the mempool once more),
\* it gets on the canonical chain at most once, and of the transactions of one
\* sender with one nonce only one does; a sender's nonces there follow on that
\* of the genesis ledger without a gap, up to the nonce of the account.
NoReplay ==
  /\ \A tx \in Txs : settled[tx] <= 1
  /\ \A s, t \in Txs :
       settled[s] > 0 /\ settled[t] > 0 /\ s.From = t.From /\ s.Nonce = t.Nonce
         => s = t
  /\ \A a \in DOMAIN state :
       SettledNonces(a) = AccountOf(Genesis, a).Nonce + 1 .. state[a].Nonce

\* Transfers move money, "fees go to producer" (Project.md): no block makes
\* money or burns a fee, also when sender, receiver and producer are one
\* account, and a batch that is lost costs nobody anything.
Supply(st) == MapThenSumSet(LAMBDA a : st[a].Balance, DOMAIN st)

SupplyKept == Supply(state) = Supply(Genesis)

\* A transaction that could be applied does not wait for ever, neither behind
\* others that cannot nor behind others that are lost and submitted again: it
\* is selected, or something else uses up its nonce or funds.
PendingServed ==
  \A tx \in Txs : (tx \in byHash /\ TxApplies(state, tx))
                     ~> (tx \notin byHash \/ ~ TxApplies(state, tx))
=============================================================================

---------------------------- MODULE MCBlockchain ----------------------------
(* Blockchain for TLC.  The validators 1, 2, 3 are Alice, Bob and Charlie of *)
(* the simulation; validator n holds the key pair n, whose address is n.     *)
(* Runs that are not about the set-up start where main.go is after it: the   *)
(* validators are registered and the genesis balances are set.               *)
EXTENDS Blockchain

CONSTANTS
  SetUpStakes,   \* the stakes of the validators 1, 2, ...
  SetUpBalances  \* the genesis balances of the addresses 1, 2, ...

\* Two branches never compare by hash (OneBlockPerSlot); any order will do.
MCHashLess(a, b) == Len(a) < Len(b)

SetUpInit ==
  /\ validators = [n \in DOMAIN SetUpStakes |->
                     [Stake |-> SetUpStakes[n], PubKey |-> n, PrivKey |-> n]]
  /\ genesis = [a \in DOMAIN SetUpBalances |->
                  [Balance |-> SetUpBalances[a], Nonce |-> 0]]
  /\ state = genesis
  /\ stats = [n \in Names |-> ZeroStats]
  /\ lastProcessed = 0
  /\ MempoolInit
  /\ tick = 0
  /\ draws = EmptyMap
  /\ blocks = {GenesisBlock}
  /\ tip = GenesisBlock
  /\ chain = GenesisBlock
  /\ snapshots = EmptyMap
  /\ slotProducers = EmptyMap
  /\ equivocations = <<>>
  /\ finalized = 0
  /\ reorgStats = [Info |-> 0, Warn |-> 0, Error |-> 0, Critical |-> 0]

SetUpSpec == SetUpInit /\ [][Next]_vars

-----------------------------------------------------------------------------
(* Values for the configurations.                                            *)

NoValues == <<>>
ThreeStakes == <<14, 4, 3>>
OneStake == <<9>>
TwoBalances == <<4, 3>>
AtMinimum == <<2, 4>>

\* One draw for each of the three validators, while their stakes are near
\* ThreeStakes, and for each of two.
ThreeDraws == {0, 14, 18}
TwoDraws == {0, 9}

JustForks == {"AddBlockExternal"}
ForksAndQueries == {"AddBlockExternal", "GetEpochSnapshot"}
Ledger ==
  {"AddBlockExternal", "AddTx", "VerifyChain", "AddValidator", "AddStake",
   "ResetReorgStats"}
Removal ==
  {"AddBlockExternal", "Unstake", "VerifyChain", "SetBalance", "ScoreTip",
   "WeightDeltaRequired", "GetForkCandidates"}

Tx(from, to, amount, fee, nonce) ==
  [From |-> from, To |-> to, Amount |-> amount, Fee |-> fee, Nonce |-> nonce,
   Signed |-> TRUE]

\* Two transfers of account 1 in the wrong order of fees, for the mempool.
PoolTxs == {Tx(1, 2, 1, 1, 1), Tx(1, 3, 1, 2, 2)}

\* A transfer that competes with the first of them, and one of account 2 whose
\* signature is wrong.
GivenBatches ==
  {<<Tx(1, 2, 2, 1, 1)>>, <<[Tx(2, 1, 2, 0, 1) EXCEPT !.Signed = FALSE]>>}

BadBatch == {<<Tx(1, 2, 1, 1, 1)>>, <<Tx(1, 2, 1, 1, 3)>>}

\* A fee for the producer, which producer 2 then spends.
FeeThenSpend == {<<Tx(1, 1, 1, 2, 1)>>, <<Tx(2, 1, 2, 0, 1)>>}
OneFunded == <<4>>

\* A working pair, a public key that is not hex and comes without its private
\* key, and an empty public key.
GoodAndBadKeys == {<<2, 2>>, <<3, NoKey>>, <<NoKey, 1>>}

\* A balance to set, and one that is refused.
OneBalance == {<<1, 2>>, <<1, -1>>}
=============================================================================

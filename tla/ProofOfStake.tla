---------------------------- MODULE ProofOfStake ----------------------------
(* The pure part of consensus/pos.go: what every operation does to the map   *)
(* of validators, who is jailed, and who leads a slot.  The operators take   *)
(* and return values; ValidatorRegistry turns them into actions.             *)
EXTENDS Integers, FiniteSets, FiniteSetsExt, Functions, Maps

CONSTANTS
  Names,           \* validator names; numbers, ordered like the strings
  Keys,            \* public-key strings, each with its private key
  NotHex,          \* the public-key strings hex.DecodeString refuses
  MinStake,        \* 10 in the code
  BlockReward,     \* 1
  SlashPenalty,    \* 5
  SlashPercent,    \* 2
  MaxMissedSlots,  \* 3
  SlotsPerEpoch,   \* 50: the unit of jail sentences
  JailEpochs       \* 2

\* The name "genesis", of the genesis block and of the leader of a slot nobody
\* leads.  AddValidator does not refuse it to a validator.
NoLeader == 0

\* The empty public-key string and the nil private key.
NoKey == 0

ASSUME NamesAssumption == Names \subseteq Nat

ASSUME KeysAssumption == Keys \subseteq Nat \ {NoKey} /\ NotHex \subseteq Keys

ASSUME StakingAssumption ==
  /\ {MinStake, BlockReward, SlashPenalty} \subseteq Nat \ {0}
  /\ SlashPercent \in 1..100
  /\ MaxMissedSlots \in Nat
  /\ {SlotsPerEpoch, JailEpochs} \subseteq Nat \ {0}

-----------------------------------------------------------------------------
(* The registry of validators.                                               *)

Validator == [Stake : Nat, PubKey : Keys, PrivKey : Keys \cup {NoKey}]

ValidatorStats == [MissedSlots : Nat, JailedUntilEpoch : Nat, Slashed : BOOLEAN]

\* Stats are a total function: no reader tells an absent entry from this one.
ZeroStats == [MissedSlots |-> 0, JailedUntilEpoch |-> 0, Slashed |-> FALSE]

\* Faulty: accepts an empty public key.
AcceptsEmptyKey(vals, name, stake, pub) ==
  /\ stake > 0
  /\ name \in DOMAIN vals \/ stake >= MinStake

\* AddValidator returns no error: the stake of a newcomer has a minimum, the
\* top-up of a registered validator only has to be positive.
AddValidatorAccepts(vals, name, stake, pub) ==
  /\ stake > 0
  /\ pub # NoKey
  /\ name \in DOMAIN vals \/ stake >= MinStake

\* Faulty: a top-up overwrites the private key.
TopUpOverwritesKey(vals, name, stake, pub, priv) ==
  IF name \in DOMAIN vals
  THEN [vals EXCEPT ![name].Stake = @ + stake, ![name].PrivKey = priv]
  ELSE Put(vals, name, [Stake |-> stake, PubKey |-> pub, PrivKey |-> priv])

WithValidator(vals, name, stake, pub, priv) ==
  IF name \in DOMAIN vals
  THEN LET v == vals[name]
       IN [vals EXCEPT ![name] =
             [Stake |-> v.Stake + stake,
              PubKey |-> v.PubKey,
              PrivKey |-> IF v.PrivKey = NoKey THEN priv ELSE v.PrivKey]]
  ELSE Put(vals, name, [Stake |-> stake, PubKey |-> pub, PrivKey |-> priv])

UnstakeAccepts(vals, name, amount) ==
  /\ amount > 0
  /\ name \in DOMAIN vals
  /\ LET left == vals[name].Stake - amount
     IN left = 0 \/ left >= MinStake

Unstaked(vals, name, amount) ==
  IF vals[name].Stake = amount
  THEN Delete(vals, name)
  ELSE [vals EXCEPT ![name].Stake = @ - amount]

Rewarded(vals, name) ==
  IF name \in DOMAIN vals
  THEN [vals EXCEPT ![name].Stake = @ + BlockReward]
  ELSE vals

\* Faulty: a validator leaves the registry only when nothing is left.
SlashToZero(vals, name, amount) ==
  IF name \notin DOMAIN vals
  THEN vals
  ELSE LET left == vals[name].Stake - amount
       IN IF left <= 0
          THEN Delete(vals, name)
          ELSE [vals EXCEPT ![name].Stake = left]

\* A validator whose stake falls below the minimum leaves the registry.
SlashValidator(vals, name, amount) ==
  IF name \notin DOMAIN vals
  THEN vals
  ELSE LET left == vals[name].Stake - amount
       IN IF left < MinStake
          THEN Delete(vals, name)
          ELSE [vals EXCEPT ![name].Stake = left]

SlashValidatorPercent(vals, name) ==
  IF name \notin DOMAIN vals
  THEN vals
  ELSE LET share == (vals[name].Stake * SlashPercent) \div 100
       IN SlashValidator(vals, name, IF share = 0 THEN 1 ELSE share)

-----------------------------------------------------------------------------
(* Jail and the stakes that count.                                           *)

IsJailed(sts, name, slot) ==
  slot \div SlotsPerEpoch < sts[name].JailedUntilEpoch

\* The epoch after which a penalty imposed for slot ends.
JailedUntil(slot) == slot \div SlotsPerEpoch + JailEpochs

\* The stakes a snapshot taken for slot freezes.
ActiveStakes(vals, sts, slot) ==
  [n \in {m \in DOMAIN vals : /\ vals[m].Stake >= MinStake
                              /\ ~ IsJailed(sts, m, slot)} |-> vals[n].Stake]

TotalStake(stakes) == SumFunction(stakes)

\* The stake of name and of all names before it.
StakeUpTo(stakes, name) ==
  SumFunctionOnSet(stakes, {n \in DOMAIN stakes : n <= name})

\* draw is the number taken from the SHA-256 of the slot.
deterministicDraw(draw, max) == draw % max

LeaderFromSnapshot(draw, stakes) ==
  LET reached == {n \in DOMAIN stakes :
        deterministicDraw(draw, TotalStake(stakes)) < StakeUpTo(stakes, n)}
  IN IF TotalStake(stakes) = 0 \/ reached = {} THEN NoLeader ELSE Min(reached)

=============================================================================

-------------------------- MODULE DisciplineProofs --------------------------
(* Proofs about the validators: ValidatorRegistry on its own, for any number *)
(* of validators, any stakes and any staking parameters, then inside the     *)
(* engine, where the blocks, reorgs and missed slots of Blockchain change    *)
(* the registry, its strikes, its keys and its jail sentences.               *)
EXTENDS BlockchainProofs

\* A map from names to validators, each with at least the minimum stake.
IsRegistry(vals) ==
  /\ DOMAIN vals \subseteq Names
  /\ vals \in [DOMAIN vals -> Validator]
  /\ \A n \in DOMAIN vals : vals[n].Stake >= MinStake

\* Strikes within the threshold.
IsStats(sts) ==
  /\ sts \in [Names -> ValidatorStats]
  /\ \A n \in Names : sts[n].MissedSlots <= MaxMissedSlots

\* delete(validators, name) leaves a registry.
LEMMA DeleteRegistry ==
  ASSUME NEW vals, NEW name, IsRegistry(vals)
  PROVE  IsRegistry(Delete(vals, name))
BY DEF IsRegistry, Delete

\* Changing one stake to a sufficient one leaves a registry.
LEMMA SetStakeRegistry ==
  ASSUME NEW vals, NEW name \in DOMAIN vals, IsRegistry(vals),
         NEW stake \in Nat, stake >= MinStake
  PROVE  IsRegistry([vals EXCEPT ![name].Stake = stake])
BY DEF IsRegistry, Validator

\* SlashValidator keeps the stake floor: it removes whom it takes below it.
LEMMA SlashRegistry ==
  ASSUME NEW vals, NEW name, NEW amount \in Nat, IsRegistry(vals)
  PROVE  IsRegistry(SlashValidator(vals, name, amount))
<1>1. CASE name \notin DOMAIN vals
  BY <1>1 DEF SlashValidator
<1>2. CASE name \in DOMAIN vals
  <2> DEFINE left == vals[name].Stake - amount
  <2>1. left \in Int
    BY <1>2 DEF IsRegistry, Validator
  <2>2. CASE left < MinStake
    BY <1>2, <2>2, DeleteRegistry DEF SlashValidator
  <2>3. CASE ~ (left < MinStake)
    <3>1. left \in Nat /\ left >= MinStake
      BY <2>1, <2>3, StakingAssumption
    <3> QED
      BY <1>2, <2>3, <3>1, SetStakeRegistry DEF SlashValidator
  <2> QED
    BY <2>2, <2>3
<1> QED
  BY <1>1, <1>2

\* SlashValidatorPercent takes a natural amount, at least 1.
LEMMA SlashPercentRegistry ==
  ASSUME NEW vals, NEW name, IsRegistry(vals)
  PROVE  IsRegistry(SlashValidatorPercent(vals, name))
<1>1. CASE name \notin DOMAIN vals
  BY <1>1 DEF SlashValidatorPercent
<1>2. CASE name \in DOMAIN vals
  <2> DEFINE share == (vals[name].Stake * SlashPercent) \div 100
             amount == IF share = 0 THEN 1 ELSE share
  <2>1. vals[name].Stake \in Nat /\ SlashPercent \in Nat
    BY <1>2, StakingAssumption DEF IsRegistry, Validator
  <2>2. vals[name].Stake * SlashPercent \in Nat
    BY <2>1
  <2>3. share \in Nat
    BY <2>2
  <2>4. amount \in Nat
    BY <2>3
  <2>5. SlashValidatorPercent(vals, name) = SlashValidator(vals, name, amount)
    BY <1>2 DEF SlashValidatorPercent
  <2> HIDE DEF amount
  <2> QED
    BY <2>4, <2>5, SlashRegistry
<1> QED
  BY <1>1, <1>2

\* Replacing one entry by a good one.
LEMMA SetStats ==
  ASSUME NEW sts, IsStats(sts), NEW name \in Names, NEW s \in ValidatorStats,
         s.MissedSlots <= MaxMissedSlots
  PROVE  IsStats([sts EXCEPT ![name] = s])
BY DEF IsStats

LEMMA SetValidator ==
  ASSUME NEW vals, IsRegistry(vals), NEW name \in DOMAIN vals,
         NEW v \in Validator, v.Stake >= MinStake
  PROVE  IsRegistry([vals EXCEPT ![name] = v])
BY DEF IsRegistry

\* A jail sentence is a natural number of epochs.
LEMMA JailedUntilNat ==
  ASSUME NEW slot \in Nat
  PROVE  JailedUntil(slot) \in Nat
<1>1. SlotsPerEpoch \in Nat \ {0} /\ JailEpochs \in Nat
  BY StakingAssumption
<1>2. slot \div SlotsPerEpoch \in Nat
  BY <1>1
<1> QED
  BY <1>1, <1>2 DEF JailedUntil

\* One missed slot: the count stays within the threshold and the slash within
\* the stake floor, also for a leader that has left the registry.
LEMMA MissSlotKeeps ==
  ASSUME NEW vals, NEW sts, IsRegistry(vals), IsStats(sts),
         NEW leader \in Names, NEW slot \in Nat
  PROVE  LET r == MissSlot(vals, sts, leader, slot)
         IN IsRegistry(r.vals) /\ IsStats(r.sts)
<1> DEFINE r == MissSlot(vals, sts, leader, slot)
<1>1. sts[leader].MissedSlots \in Nat /\ MaxMissedSlots \in Nat
  BY StakingAssumption DEF IsStats, ValidatorStats
<1>2. JailedUntil(slot) \in Nat
  BY JailedUntilNat
<1>3. CASE sts[leader].MissedSlots + 1 > MaxMissedSlots
  <2>1. r.vals = SlashValidatorPercent(vals, leader)
    BY <1>3 DEF MissSlot
  <2> DEFINE s == [MissedSlots |-> 0, JailedUntilEpoch |-> JailedUntil(slot),
                   Slashed |-> sts[leader].Slashed]
  <2>2. r.sts = [sts EXCEPT ![leader] = s]
    BY <1>3 DEF MissSlot
  <2>3. s \in ValidatorStats /\ s.MissedSlots <= MaxMissedSlots
    BY <1>1, <1>2 DEF IsStats, ValidatorStats
  <2>4. IsStats(r.sts)
    <3> HIDE DEF s
    <3> QED BY <2>2, <2>3, SetStats
  <2> QED
    BY <2>1, <2>4, SlashPercentRegistry
<1>4. CASE ~ (sts[leader].MissedSlots + 1 > MaxMissedSlots)
  <2>1. r.vals = vals
    BY <1>4 DEF MissSlot
  <2>2. r.sts = [sts EXCEPT ![leader].MissedSlots = sts[leader].MissedSlots + 1]
    BY <1>4 DEF MissSlot
  <2>3. IsStats(r.sts)
    BY <1>1, <1>4, <2>2 DEF IsStats, ValidatorStats
  <2> QED
    BY <2>1, <2>3
<1> QED
  BY <1>3, <1>4

\* A proof of equivocation leaves the strike counts alone.
LEMMA PunishEquivocationKeeps ==
  ASSUME NEW vals, NEW sts, IsRegistry(vals), IsStats(sts),
         NEW name \in Names, NEW slot \in Nat
  PROVE  LET r == PunishEquivocation(vals, sts, name, slot)
         IN IsRegistry(r.vals) /\ IsStats(r.sts)
<1> DEFINE r == PunishEquivocation(vals, sts, name, slot)
<1>1. r.vals = SlashValidatorPercent(vals, name)
  BY DEF PunishEquivocation
<1> DEFINE s == [MissedSlots |-> sts[name].MissedSlots,
                 JailedUntilEpoch |-> JailedUntil(slot), Slashed |-> TRUE]
<1>2. r.sts = [sts EXCEPT ![name] = s]
  BY DEF PunishEquivocation
<1>3. s \in ValidatorStats /\ s.MissedSlots <= MaxMissedSlots
  BY JailedUntilNat DEF IsStats, ValidatorStats
<1>4. IsStats(r.sts)
  <2> HIDE DEF s
  <2> QED BY <1>2, <1>3, SetStats
<1> QED
  BY <1>1, <1>4, SlashPercentRegistry

-----------------------------------------------------------------------------
(* The invariant.                                                            *)

RegistryInv == IsRegistry(validators) /\ IsStats(stats) /\ lastProcessed \in Nat

LEMMA RegistryInvImplies ==
  RegistryInv => RegistryTypeOK /\ StakeFloor /\ StrikesPunished
BY DEF RegistryInv, IsRegistry, IsStats, RegistryTypeOK, StakeFloor, StrikesPunished

\* Every operation of the registry, with any arguments, keeps the invariant.
LEMMA RegistryStep == RegistryInv /\ RegistryNext => RegistryInv'
<1> SUFFICES ASSUME RegistryInv, RegistryNext PROVE RegistryInv'
  OBVIOUS
<1> USE DEF RegistryInv
<1>1. ASSUME NEW name \in Names, NEW stake \in Stakes,
             NEW pub \in Keys \cup {NoKey},
             NEW priv \in Keys \cup {NoKey}, AddValidator(name, stake, pub, priv)
      PROVE  RegistryInv'
  <2>1. stake \in Nat /\ pub \in Keys
    BY <1>1, RegistryBounds DEF AddValidator, AddValidatorAccepts
  <2>2. CASE name \in DOMAIN validators
    <3> DEFINE old == validators[name]
               v == [Stake |-> old.Stake + stake, PubKey |-> old.PubKey,
                     PrivKey |-> IF old.PrivKey = NoKey THEN priv ELSE old.PrivKey]
    <3>1. old \in Validator /\ old.Stake >= MinStake
      BY <2>2 DEF IsRegistry
    <3>2. v \in Validator /\ v.Stake >= MinStake
      BY <2>1, <3>1, StakingAssumption DEF Validator
    <3>3. validators' = [validators EXCEPT ![name] = v]
      BY <1>1, <2>2 DEF AddValidator, WithValidator
    <3>4. IsRegistry(validators')
      <4> HIDE DEF v
      <4> QED BY <2>2, <3>2, <3>3, SetValidator
    <3> QED
      BY <1>1, <3>4 DEF AddValidator
  <2>3. CASE name \notin DOMAIN validators
    BY <1>1, <2>1, <2>3, StakingAssumption
    DEF AddValidator, AddValidatorAccepts, WithValidator, Put, IsRegistry, Validator
  <2> QED
    BY <2>2, <2>3
<1>2. ASSUME NEW name \in Names, NEW amount \in Stakes, AddStake(name, amount)
      PROVE  RegistryInv'
  <2>1. amount \in Nat
    BY <1>2, RegistryBounds DEF AddStake
  <2> QED
    BY <1>2, <2>1, StakingAssumption DEF AddStake, IsRegistry, Validator
<1>3. ASSUME NEW name \in Names, NEW amount \in Stakes, Unstake(name, amount)
      PROVE  RegistryInv'
  <2>1. amount \in Int /\ name \in DOMAIN validators
    BY <1>3, RegistryBounds DEF Unstake, UnstakeAccepts
  <2>2. CASE validators[name].Stake = amount
    BY <1>3, <2>2, DeleteRegistry DEF Unstake, Unstaked
  <2>3. CASE validators[name].Stake # amount
    <3> DEFINE left == validators[name].Stake - amount
    <3>1. left \in Int /\ left # 0
      BY <2>1, <2>3 DEF IsRegistry, Validator
    <3>2. left >= MinStake
      BY <1>3, <3>1 DEF Unstake, UnstakeAccepts
    <3>3. left \in Nat
      BY <3>1, <3>2, StakingAssumption
    <3>4. validators' = [validators EXCEPT ![name].Stake = left]
      BY <1>3, <2>3 DEF Unstake, Unstaked
    <3> QED
      <4> HIDE DEF left
      <4>1. IsRegistry(validators')
        BY <2>1, <3>2, <3>3, <3>4, SetStakeRegistry
      <4> QED
        BY <1>3, <4>1 DEF Unstake
  <2> QED
    BY <2>2, <2>3
<1>4. ASSUME NEW name \in Names, RewardValidator(name)
      PROVE  RegistryInv'
  BY <1>4, StakingAssumption DEF RewardValidator, Rewarded, IsRegistry, Validator
<1>5. ASSUME NEW name \in Names, Slash(name)
      PROVE  RegistryInv'
  BY <1>5, SlashRegistry, StakingAssumption DEF Slash
<1>6. ASSUME NEW name \in Names, NEW produced \in BOOLEAN, JudgeSlot(name, produced)
      PROVE  RegistryInv'
  <2>1. lastProcessed + 1 \in Nat
    OBVIOUS
  <2>2. CASE produced
    BY <1>6, <2>1, <2>2 DEF JudgeSlot
  <2>3. CASE ~ produced
    BY <1>6, <2>1, <2>3, MissSlotKeeps DEF JudgeSlot
  <2> QED
    BY <2>2, <2>3
<1>7. ASSUME NEW name \in Names, NEW slot \in lastProcessed + 1 .. MaxSlot,
             Equivocate(name, slot)
      PROVE  RegistryInv'
  <2>1. slot \in Nat
    BY RegistryBounds
  <2> QED
    BY <1>7, <2>1, PunishEquivocationKeeps DEF Equivocate
<1> QED
  BY <1>1, <1>2, <1>3, <1>4, <1>5, <1>6, <1>7 DEF RegistryNext

\* A new Blockchain has no validators and no strikes.
LEMMA RegistryStart == RegistryInit => RegistryInv
BY StakingAssumption
DEF RegistryInit, RegistryInv, IsRegistry, IsStats, EmptyMap, ZeroStats, ValidatorStats

LEMMA RegistryInvariance == RegistrySpec => []RegistryInv
<1>1. RegistryInv /\ [RegistryNext]_registryVars => RegistryInv'
  BY RegistryStep DEF registryVars, RegistryInv
<1> QED
  BY RegistryStart, <1>1, PTL DEF RegistrySpec

\* The registry keeps its types, nobody stays registered below MinStake, and no
\* strike count rests above MaxMissedSlots, in whatever order stakes are added,
\* taken back, rewarded and slashed (pos.go, processMissedSlots).
THEOREM RegistrySafe ==
  RegistrySpec => [](RegistryTypeOK /\ StakeFloor /\ StrikesPunished)
BY RegistryInvariance, RegistryInvImplies, PTL

\* Penalties, registrations and top-ups in any order leave no validator with
\* more strikes than processMissedSlots tolerates.
THEOREM StrikesPunishedHolds == RegistrySpec => []StrikesPunished
BY RegistrySafe, PTL

\* Registered validators and their records keep their types.
THEOREM RegistryTypesHold == RegistrySpec => []RegistryTypeOK
BY RegistrySafe, PTL

-----------------------------------------------------------------------------
(* Signing keys.                                                             *)

\* new has no validator whose key differs from the one it has in old.
KeepsKeys(old, new) ==
  \A n \in DOMAIN old \cap DOMAIN new :
    /\ new[n].PubKey = old[n].PubKey
    /\ old[n].PrivKey # NoKey => new[n].PrivKey = old[n].PrivKey

\* Removing a validator, or changing a stake, leaves the keys alone.
LEMMA DeleteKeepsKeys ==
  ASSUME NEW vals, NEW name
  PROVE  KeepsKeys(vals, Delete(vals, name))
BY DEF KeepsKeys, Delete

LEMMA SetStakeKeepsKeys ==
  ASSUME NEW vals, IsRegistry(vals), NEW name \in DOMAIN vals, NEW stake
  PROVE  KeepsKeys(vals, [vals EXCEPT ![name].Stake = stake])
BY DEF KeepsKeys, IsRegistry, Validator

LEMMA SlashKeepsKeys ==
  ASSUME NEW vals, IsRegistry(vals), NEW name, NEW amount
  PROVE  KeepsKeys(vals, SlashValidator(vals, name, amount))
<1>1. CASE name \notin DOMAIN vals
  BY <1>1 DEF SlashValidator, KeepsKeys
<1>2. CASE name \in DOMAIN vals
  <2> DEFINE left == vals[name].Stake - amount
  <2>1. SlashValidator(vals, name, amount)
          \in {Delete(vals, name), [vals EXCEPT ![name].Stake = left]}
    BY <1>2 DEF SlashValidator
  <2> HIDE DEF left
  <2> QED
    BY <1>2, <2>1, DeleteKeepsKeys, SetStakeKeepsKeys
<1> QED
  BY <1>1, <1>2

LEMMA SlashPercentKeepsKeys ==
  ASSUME NEW vals, IsRegistry(vals), NEW name
  PROVE  KeepsKeys(vals, SlashValidatorPercent(vals, name))
<1> DEFINE share == (vals[name].Stake * SlashPercent) \div 100
           amount == IF share = 0 THEN 1 ELSE share
<1>1. SlashValidatorPercent(vals, name) \in {vals, SlashValidator(vals, name, amount)}
  BY DEF SlashValidatorPercent
<1>2. KeepsKeys(vals, vals)
  BY DEF KeepsKeys
<1> HIDE DEF amount
<1> QED
  BY <1>1, <1>2, SlashKeepsKeys

\* No operation replaces a key.
LEMMA KeysStep ==
  RegistryInv /\ [RegistryNext]_registryVars => KeepsKeys(validators, validators')
<1> SUFFICES ASSUME RegistryInv, [RegistryNext]_registryVars
             PROVE  KeepsKeys(validators, validators')
  OBVIOUS
<1>1. IsRegistry(validators)
  BY DEF RegistryInv
<1>2. KeepsKeys(validators, validators)
  BY DEF KeepsKeys
<1>3. ASSUME NEW name \in Names, NEW stake, NEW pub, NEW priv,
             AddValidator(name, stake, pub, priv)
      PROVE  KeepsKeys(validators, validators')
  <2>1. CASE name \in DOMAIN validators
    BY <1>3, <2>1 DEF AddValidator, WithValidator, KeepsKeys
  <2>2. CASE name \notin DOMAIN validators
    BY <1>3, <2>2 DEF AddValidator, WithValidator, Put, KeepsKeys
  <2> QED
    BY <2>1, <2>2
<1>4. ASSUME NEW name \in Names, NEW amount, AddStake(name, amount)
      PROVE  KeepsKeys(validators, validators')
  BY <1>1, <1>4, SetStakeKeepsKeys DEF AddStake
<1>5. ASSUME NEW name \in Names, NEW amount, Unstake(name, amount)
      PROVE  KeepsKeys(validators, validators')
  <2>1. name \in DOMAIN validators
    BY <1>5 DEF Unstake, UnstakeAccepts
  <2>2. validators' \in {Delete(validators, name),
          [validators EXCEPT ![name].Stake = validators[name].Stake - amount]}
    BY <1>5 DEF Unstake, Unstaked
  <2> QED
    BY <1>1, <2>1, <2>2, DeleteKeepsKeys, SetStakeKeepsKeys
<1>6. ASSUME NEW name \in Names, RewardValidator(name)
      PROVE  KeepsKeys(validators, validators')
  BY <1>1, <1>6, SetStakeKeepsKeys DEF RewardValidator, Rewarded
<1>7. ASSUME NEW name \in Names, Slash(name)
      PROVE  KeepsKeys(validators, validators')
  BY <1>1, <1>7, SlashKeepsKeys DEF Slash
<1>8. ASSUME NEW name \in Names, NEW produced, JudgeSlot(name, produced)
      PROVE  KeepsKeys(validators, validators')
  <2>1. validators' \in {validators, SlashValidatorPercent(validators, name)}
    BY <1>8 DEF JudgeSlot, MissSlot
  <2> QED
    BY <1>1, <1>2, <2>1, SlashPercentKeepsKeys
<1>9. ASSUME NEW name \in Names, NEW slot, Equivocate(name, slot)
      PROVE  KeepsKeys(validators, validators')
  BY <1>1, <1>9, SlashPercentKeepsKeys DEF Equivocate, PunishEquivocation
<1>10. CASE UNCHANGED registryVars
  BY <1>2, <1>10 DEF registryVars
<1> QED
  BY <1>3, <1>4, <1>5, <1>6, <1>7, <1>8, <1>9, <1>10 DEF RegistryNext

\* AddValidator, top-ups, rewards and penalties never replace the public key
\* of a registered validator, nor a private key it has.
THEOREM KeysStableHolds == RegistrySpec => KeysStable
<1>1. RegistryInv /\ [RegistryNext]_registryVars =>
        [\A n \in DOMAIN validators \cap DOMAIN validators' :
           /\ validators'[n].PubKey = validators[n].PubKey
           /\ validators[n].PrivKey # NoKey
                => validators'[n].PrivKey = validators[n].PrivKey]_registryVars
  BY KeysStep DEF KeepsKeys
<1> QED
  BY <1>1, RegistryInvariance, PTL DEF RegistrySpec, KeysStable

-----------------------------------------------------------------------------
(* The punishment at the threshold.                                          *)

\* k epochs after an epoch has begun, less than k + 1 epochs have passed.
LEMMA EpochsLater ==
  ASSUME NEW slot \in Nat, NEW length \in Nat \ {0}, NEW k \in Nat
  PROVE  (slot + length * k) \div length = slot \div length + k
<1> DEFINE q == slot \div length
           later == slot + length * k
<1>1. /\ q \in Nat
      /\ slot = length * q + (slot % length)
      /\ 0 <= slot % length /\ slot % length < length
  OBVIOUS
<1>2. later \in Nat
  <2>1. length * k \in Nat
    OBVIOUS
  <2> QED
    BY <2>1
<1> DEFINE p == later \div length
<1>3. /\ p \in Nat
      /\ later = length * p + (later % length)
      /\ 0 <= later % length /\ later % length < length
  <2> HIDE DEF later
  <2> QED
    BY <1>2
<1>4. later = length * (q + k) + (slot % length)
  <2> DEFINE r == slot % length
  <2>1. q \in Nat /\ r \in Nat /\ slot = length * q + r
    BY <1>1
  <2> HIDE DEF q, r
  <2>2. length * (q + k) = length * q + length * k
    BY <2>1
  <2>3. length * q \in Nat /\ length * k \in Nat
    BY <2>1
  <2>4. later = length * (q + k) + r
    BY <2>1, <2>2, <2>3
  <2> QED
    BY <2>4 DEF r
<1>5. ASSUME NEW x \in Int, NEW y \in Int, x >= y + 1
      PROVE  length * x >= length * y + length
  <2>1. PICK d \in Nat : x = y + 1 + d
    BY <1>5
  <2>2. length * x = length * y + length + length * d
    BY <2>1
  <2>3. length * d >= 0
    BY <2>1
  <2> QED
    BY <2>2, <2>3
<1> HIDE DEF p, q, later
<1>6. p = q + k
  <2>1. CASE p >= q + k + 1
    <3>1. length * p >= length * (q + k) + length
      BY <1>1, <1>3, <1>5, <2>1
    <3> QED
      BY <1>1, <1>2, <1>3, <1>4, <3>1
  <2>2. CASE q + k >= p + 1
    <3>1. length * (q + k) >= length * p + length
      BY <1>1, <1>3, <1>5, <2>2
    <3> QED
      BY <1>1, <1>2, <1>3, <1>4, <3>1
  <2> QED
    BY <1>1, <1>3, <2>1, <2>2
<1> QED
  BY <1>6 DEF p, q, later

\* A validator that is still registered after a slash has less stake.
LEMMA SlashTakesStake ==
  ASSUME NEW vals, IsRegistry(vals), NEW n,
         n \in DOMAIN SlashValidatorPercent(vals, n)
  PROVE  /\ n \in DOMAIN vals
         /\ SlashValidatorPercent(vals, n)[n].Stake < vals[n].Stake
<1> DEFINE share == (vals[n].Stake * SlashPercent) \div 100
           amount == IF share = 0 THEN 1 ELSE share
           left == vals[n].Stake - amount
<1>1. n \in DOMAIN vals
  BY DEF SlashValidatorPercent
<1>2. vals[n] \in Validator /\ vals[n].Stake \in Nat /\ SlashPercent \in Nat
  BY <1>1, StakingAssumption DEF IsRegistry, Validator
<1>3. vals[n].Stake * SlashPercent \in Nat
  BY <1>2
<1>4. share \in Nat
  BY <1>3
<1>5. amount \in Nat \ {0}
  BY <1>4
<1>6. SlashValidatorPercent(vals, n) = SlashValidator(vals, n, amount)
  BY <1>1 DEF SlashValidatorPercent
<1> HIDE DEF amount
<1>7. left < vals[n].Stake
  BY <1>2, <1>5
<1>8. SlashValidator(vals, n, amount)
        \in {Delete(vals, n), [vals EXCEPT ![n].Stake = left]}
  BY <1>1 DEF SlashValidator
<1>9. n \notin DOMAIN Delete(vals, n)
  BY DEF Delete
<1>10. [vals EXCEPT ![n].Stake = left][n].Stake = left
  BY <1>1, <1>2 DEF IsRegistry, Validator
<1> HIDE DEF left
<1> QED
  BY <1>1, <1>6, <1>7, <1>8, <1>9, <1>10

\* What ThresholdPunished asks of one validator in one step.
Punished(n) ==
  stats'[n].MissedSlots < stats[n].MissedSlots =>
    /\ IsJailed(stats', n, lastProcessed')
    /\ IsJailed(stats', n, lastProcessed' + SlotsPerEpoch * (JailEpochs - 1))
    /\ n \in DOMAIN validators' => validators'[n].Stake < validators[n].Stake

\* Only the strike above the threshold lowers a count.
LEMMA JudgeSlotPunishes ==
  ASSUME RegistryInv, NEW leader \in Names, NEW produced \in BOOLEAN,
         JudgeSlot(leader, produced), NEW n \in Names
  PROVE  Punished(n)
<1> DEFINE slot == lastProcessed + 1
           punished == [MissedSlots |-> 0, JailedUntilEpoch |-> JailedUntil(slot),
                        Slashed |-> stats[leader].Slashed]
<1>1. /\ slot \in Nat /\ lastProcessed' = slot
      /\ stats \in [Names -> ValidatorStats] /\ IsRegistry(validators)
  BY DEF RegistryInv, IsStats, JudgeSlot
<1>2. stats[n].MissedSlots \in Nat /\ stats[leader].MissedSlots \in Nat
  BY <1>1 DEF ValidatorStats
<1>3. CASE produced \/ leader = NoLeader
  BY <1>2, <1>3 DEF JudgeSlot, Punished
<1>4. CASE /\ ~ (produced \/ leader = NoLeader)
          /\ ~ (stats[leader].MissedSlots + 1 > MaxMissedSlots)
  <2>1. stats' = [stats EXCEPT ![leader].MissedSlots = stats[leader].MissedSlots + 1]
    BY <1>4 DEF JudgeSlot, MissSlot
  <2>2. stats'[n].MissedSlots \in {stats[n].MissedSlots, stats[n].MissedSlots + 1}
    <3>1. CASE n = leader
      BY <1>1, <2>1, <3>1 DEF ValidatorStats
    <3>2. CASE n # leader
      BY <1>1, <2>1, <3>2
    <3> QED
      BY <3>1, <3>2
  <2> QED
    BY <1>2, <2>2 DEF Punished
<1>5. CASE /\ ~ (produced \/ leader = NoLeader)
          /\ stats[leader].MissedSlots + 1 > MaxMissedSlots
  <2>1. /\ stats' = [stats EXCEPT ![leader] = punished]
        /\ validators' = SlashValidatorPercent(validators, leader)
    BY <1>5 DEF JudgeSlot, MissSlot
  <2> HIDE DEF punished
  <2>2. stats'[n] = IF n = leader THEN punished ELSE stats[n]
    BY <1>1, <2>1
  <2>3. CASE n # leader
    BY <1>2, <2>2, <2>3 DEF Punished
  <2>4. CASE n = leader
    <3> DEFINE q == slot \div SlotsPerEpoch
    <3>1. stats'[n].JailedUntilEpoch = JailedUntil(slot)
      BY <2>2, <2>4 DEF punished
    <3>2. SlotsPerEpoch \in Nat \ {0} /\ JailEpochs - 1 \in Nat /\ JailEpochs \in Nat
      BY StakingAssumption
    <3>3. q \in Nat /\ JailedUntil(slot) = q + JailEpochs
      BY <1>1, <3>2 DEF JailedUntil
    <3>4. (slot + SlotsPerEpoch * (JailEpochs - 1)) \div SlotsPerEpoch
            = q + (JailEpochs - 1)
      <4> HIDE DEF slot
      <4> QED
        BY <1>1, <3>2, EpochsLater
    <3>5. IsJailed(stats', n, slot)
      BY <3>1, <3>2, <3>3 DEF IsJailed
    <3>6. IsJailed(stats', n, slot + SlotsPerEpoch * (JailEpochs - 1))
      <4> HIDE DEF q, slot
      <4> QED
        BY <3>1, <3>2, <3>3, <3>4 DEF IsJailed
    <3>7. n \in DOMAIN validators' => validators'[n].Stake < validators[n].Stake
      BY <1>1, <2>1, <2>4, SlashTakesStake
    <3> HIDE DEF slot
    <3> QED
      BY <1>1, <3>5, <3>6, <3>7 DEF Punished
  <2> QED
    BY <2>3, <2>4
<1> QED
  BY <1>3, <1>4, <1>5

\* A step that leaves the counts alone.
LEMMA CountsStand ==
  ASSUME RegistryInv, \A n \in Names : stats'[n].MissedSlots = stats[n].MissedSlots
  PROVE  \A n \in Names : Punished(n)
<1>1. \A n \in Names : stats[n].MissedSlots \in Nat
  BY DEF RegistryInv, IsStats, ValidatorStats
<1> QED
  BY <1>1 DEF Punished

LEMMA EquivocateKeepsCounts ==
  ASSUME RegistryInv, NEW name \in Names, NEW slot, Equivocate(name, slot), NEW n \in Names
  PROVE  stats'[n].MissedSlots = stats[n].MissedSlots
<1> DEFINE s == [MissedSlots |-> stats[name].MissedSlots,
                 JailedUntilEpoch |-> JailedUntil(slot), Slashed |-> TRUE]
<1>1. stats' = [stats EXCEPT ![name] = s]
  BY DEF Equivocate, PunishEquivocation
<1>2. s.MissedSlots = stats[name].MissedSlots
  OBVIOUS
<1> HIDE DEF s
<1> QED
  BY <1>1, <1>2 DEF RegistryInv, IsStats

LEMMA PunishedStep ==
  RegistryInv /\ [RegistryNext]_registryVars => \A n \in Names : Punished(n)
<1> SUFFICES ASSUME RegistryInv, [RegistryNext]_registryVars
             PROVE  \A n \in Names : Punished(n)
  OBVIOUS
<1>1. CASE stats' = stats
  BY <1>1, CountsStand
<1>2. ASSUME NEW name \in Names, NEW produced \in BOOLEAN, JudgeSlot(name, produced)
      PROVE  \A n \in Names : Punished(n)
  BY <1>2, JudgeSlotPunishes
<1>3. ASSUME NEW name \in Names, NEW slot, Equivocate(name, slot)
      PROVE  \A n \in Names : Punished(n)
  BY <1>3, EquivocateKeepsCounts, CountsStand
<1> QED
  BY <1>1, <1>2, <1>3
     DEF RegistryNext, registryVars, AddValidator, AddStake, Unstake, RewardValidator, Slash

\* processMissedSlots lowers a strike count only with a slash and a sentence
\* that covers the epoch of the slot and the JailEpochs - 1 after it.
THEOREM ThresholdPunishedHolds == RegistrySpec => ThresholdPunished
<1>1. RegistryInv /\ [RegistryNext]_registryVars =>
        [\A n \in Names : stats'[n].MissedSlots < stats[n].MissedSlots =>
           /\ IsJailed(stats', n, lastProcessed')
           /\ IsJailed(stats', n, lastProcessed' + SlotsPerEpoch * (JailEpochs - 1))
           /\ n \in DOMAIN validators' =>
                validators'[n].Stake < validators[n].Stake]_registryVars
  BY PunishedStep DEF Punished
<1> QED
  BY <1>1, RegistryInvariance, PTL DEF RegistrySpec, ThresholdPunished

-----------------------------------------------------------------------------
(* The registry inside the engine.                                           *)

(***************************************************************************)
(* A sentence is written for the slot that is being judged, and slots are  *)
(* judged in order and once.  So no sentence on record reaches further     *)
(* than one written for the last slot judged, and the next one reaches as  *)
(* far or further.                                                         *)
(***************************************************************************)

Sentence(sts, n) == sts[n].JailedUntilEpoch

\* The stakes of a snapshot are amounts.
StakesTyped(snaps) ==
  \A e \in DOMAIN snaps : \A n \in DOMAIN snaps[e] : snaps[e][n] \in Nat

DisciplineInv ==
  /\ SnapshotInv
  /\ RegistryInv
  /\ StakesTyped(snapshots)
  /\ \A n \in Names : Sentence(stats, n) <= JailedUntil(lastProcessed)

\* What judging slots makes of the validators and records in base.
Disciplined(base, r, slot) ==
  /\ StakesTyped(r.snaps)
  /\ IsRegistry(r.vals)
  /\ IsStats(r.sts)
  /\ DOMAIN r.vals \subseteq DOMAIN base.vals
  /\ KeepsKeys(base.vals, r.vals)
  /\ \A n \in Names : /\ Sentence(base.sts, n) <= Sentence(r.sts, n)
                      /\ Sentence(r.sts, n) <= JailedUntil(slot)

-----------------------------------------------------------------------------
(* One slot.                                                                 *)

\* A snapshot of registered validators.
LEMMA EnsureTyped ==
  ASSUME NEW snaps, StakesTyped(snaps), NEW vals, IsRegistry(vals), NEW sts, NEW epochs
  PROVE  StakesTyped(ensureSnapshots(snaps, vals, sts, epochs))
<1>1. ASSUME NEW slot, NEW n \in DOMAIN ActiveStakes(vals, sts, slot)
      PROVE  ActiveStakes(vals, sts, slot)[n] \in Nat
  BY DEF ActiveStakes, IsRegistry, Validator
<1> QED
  BY <1>1 DEF ensureSnapshots, StakesTyped

\* Division is monotone.
LEMMA DivMonotone ==
  ASSUME NEW a \in Nat, NEW b \in Nat, NEW c \in Nat \ {0}, a <= b
  PROVE  a \div c <= b \div c
<1>1. a = c * (a \div c) + (a % c) /\ a % c < c /\ a % c >= 0 /\ a \div c \in Int
  OBVIOUS
<1>2. b = c * (b \div c) + (b % c) /\ b % c < c /\ b % c >= 0 /\ b \div c \in Int
  OBVIOUS
<1>3. ASSUME NEW x \in Int, NEW y \in Int, x >= y + 1
      PROVE  c * x >= c * y + c
  <2>1. PICK d \in Nat : x = y + 1 + d
    BY <1>3
  <2>2. c * x = c * y + c + c * d
    BY <2>1
  <2>3. c * d >= 0
    BY <2>1
  <2> QED
    BY <2>2, <2>3
<1> QED
  BY <1>1, <1>2, <1>3

\* A sentence for a later slot lasts as long or longer.
LEMMA JailedUntilMonotone ==
  ASSUME NEW a \in Nat, NEW b \in Nat, a <= b
  PROVE  JailedUntil(a) <= JailedUntil(b)
<1>1. SlotsPerEpoch \in Nat \ {0} /\ JailEpochs \in Nat
  BY StakingAssumption
<1>2. a \div SlotsPerEpoch \in Nat /\ b \div SlotsPerEpoch \in Nat
  BY <1>1
<1>3. a \div SlotsPerEpoch <= b \div SlotsPerEpoch
  BY <1>1, DivMonotone
<1> QED
  BY <1>1, <1>2, <1>3 DEF JailedUntil

\* A missed slot jails for no less than any sentence so far.
LEMMA MissSlotSentences ==
  ASSUME NEW vals, NEW sts, IsStats(sts), NEW leader \in Names, NEW slot \in Nat,
         \A n \in Names : Sentence(sts, n) <= JailedUntil(slot)
  PROVE  LET r == MissSlot(vals, sts, leader, slot)
         IN \A n \in Names : /\ Sentence(sts, n) <= Sentence(r.sts, n)
                             /\ Sentence(r.sts, n) <= JailedUntil(slot)
<1> DEFINE r == MissSlot(vals, sts, leader, slot)
           punished == [MissedSlots |-> 0, JailedUntilEpoch |-> JailedUntil(slot),
                        Slashed |-> sts[leader].Slashed]
<1>1. sts \in [Names -> ValidatorStats] /\ JailedUntil(slot) \in Nat
  BY JailedUntilNat DEF IsStats
<1>2. \A n \in Names : Sentence(sts, n) \in Nat
  BY <1>1 DEF Sentence, ValidatorStats
<1>3. CASE sts[leader].MissedSlots + 1 > MaxMissedSlots
  <2>1. r.sts = [sts EXCEPT ![leader] = punished]
    BY <1>3 DEF MissSlot
  <2> HIDE DEF r, punished
  <2>2. \A n \in Names : r.sts[n] = IF n = leader THEN punished ELSE sts[n]
    BY <1>1, <2>1
  <2>3. \A n \in Names : Sentence(r.sts, n) \in {JailedUntil(slot), Sentence(sts, n)}
    BY <2>2 DEF Sentence, punished
  <2> QED
    BY <1>1, <1>2, <2>3 DEF r
<1>4. CASE ~ (sts[leader].MissedSlots + 1 > MaxMissedSlots)
  <2>1. r.sts = [sts EXCEPT ![leader].MissedSlots = sts[leader].MissedSlots + 1]
    BY <1>4 DEF MissSlot
  <2> HIDE DEF r
  <2>2. \A n \in Names : Sentence(r.sts, n) = Sentence(sts, n)
    <3> SUFFICES ASSUME NEW n \in Names
                 PROVE  r.sts[n].JailedUntilEpoch = sts[n].JailedUntilEpoch
      BY DEF Sentence
    <3>1. CASE n = leader
      BY <1>1, <2>1, <3>1 DEF ValidatorStats
    <3>2. CASE n # leader
      BY <1>1, <2>1, <3>2
    <3> QED
      BY <3>1, <3>2
  <2> QED
    BY <1>2, <2>2 DEF r
<1> QED
  BY <1>3, <1>4

LEMMA JudgedDisciplines ==
  ASSUME NEW vals, IsRegistry(vals), NEW sts, IsStats(sts),
         NEW leader \in Names \cup {NoLeader}, NEW producer, NEW slot \in Nat,
         \A n \in Names : Sentence(sts, n) <= JailedUntil(slot)
  PROVE  LET r == Judged(vals, sts, leader, producer, slot)
         IN /\ IsRegistry(r.vals) /\ IsStats(r.sts)
            /\ DOMAIN r.vals \subseteq DOMAIN vals /\ KeepsKeys(vals, r.vals)
            /\ \A n \in Names : /\ Sentence(sts, n) <= Sentence(r.sts, n)
                                /\ Sentence(r.sts, n) <= JailedUntil(slot)
<1> DEFINE r == Judged(vals, sts, leader, producer, slot)
<1>1. \A n \in Names : Sentence(sts, n) \in Nat
  BY DEF IsStats, Sentence, ValidatorStats
<1>2. CASE leader \in {NoLeader, producer}
  <2>1. r = [vals |-> vals, sts |-> sts]
    BY <1>2 DEF Judged
  <2>2. r.vals = vals /\ r.sts = sts
    BY <2>1
  <2>3. KeepsKeys(vals, vals)
    BY DEF KeepsKeys
  <2> HIDE DEF r
  <2> QED
    BY <1>1, <2>2, <2>3 DEF r
<1>3. CASE leader \notin {NoLeader, producer}
  <2>1. r = MissSlot(vals, sts, leader, slot) /\ leader \in Names
    BY <1>3 DEF Judged
  <2>2. IsRegistry(r.vals) /\ IsStats(r.sts)
    BY <2>1, MissSlotKeeps
  <2>3. r.vals \in {vals, SlashValidatorPercent(vals, leader)}
    BY <2>1 DEF MissSlot
  <2>4. KeepsKeys(vals, r.vals)
    BY <2>3, SlashPercentKeepsKeys DEF KeepsKeys
  <2>5. DOMAIN r.vals \subseteq DOMAIN vals
    BY JudgedDomain
  <2>6. \A n \in Names : /\ Sentence(sts, n) <= Sentence(r.sts, n)
                         /\ Sentence(r.sts, n) <= JailedUntil(slot)
    BY <2>1, MissSlotSentences
  <2> HIDE DEF r
  <2> QED
    BY <2>2, <2>4, <2>5, <2>6 DEF r
<1> QED
  BY <1>2, <1>3

-----------------------------------------------------------------------------
(* All slots up to the new tip.                                              *)

LEMMA KeepsKeysTrans ==
  ASSUME NEW a, NEW b, NEW c, KeepsKeys(a, b), KeepsKeys(b, c),
         DOMAIN c \subseteq DOMAIN b
  PROVE  KeepsKeys(a, c)
BY DEF KeepsKeys

\* The leader of a slot, if there is one, is a name.
LEMMA FrozenLeader ==
  ASSUME NEW snaps, SnapsOk(snaps), NEW vals, DOMAIN vals \subseteq Names, NEW sts,
         NEW slot \in Nat, NEW draw
  PROVE  leaderForSlot(ensureSnapshots(snaps, vals, sts, {epochForSlot(slot)}),
                       slot, draw) \in Names \cup {NoLeader}
<1> DEFINE frozen == ensureSnapshots(snaps, vals, sts, {epochForSlot(slot)})
           stakes == frozen[epochForSlot(slot)]
<1>1. SnapsOk(frozen) /\ epochForSlot(slot) \in DOMAIN frozen
  BY EnsureKeeps, EpochNat
<1> HIDE DEF frozen
<1>2. DOMAIN stakes \subseteq Names
  BY <1>1 DEF SnapsOk, IsSnapshot
<1>3. leaderForSlot(frozen, slot, draw) = LeaderFromSnapshot(draw, stakes)
  BY DEF leaderForSlot
<1> HIDE DEF stakes
<1>4. LeaderFromSnapshot(draw, stakes) \in Names \cup {NoLeader}
  BY <1>2, LeaderHasStake
<1> QED
  BY <1>3, <1>4 DEF frozen

LEMMA JudgedNextDisciplines ==
  ASSUME NEW base, IsStats(base.sts), NEW r, NEW slot \in Nat \ {0}, NEW headers,
         NEW drawn, SnapsOk(r.snaps), Disciplined(base, r, slot - 1)
  PROVE  Disciplined(base, JudgedNext(r, headers, slot, drawn), slot)
<1> DEFINE frozen == ensureSnapshots(r.snaps, r.vals, r.sts, {epochForSlot(slot)})
           leader == leaderForSlot(frozen, slot, drawn[slot])
           producer == SlotProduced(headers, slot)
           judged == Judged(r.vals, r.sts, leader, producer, slot)
           next == JudgedNext(r, headers, slot, drawn)
<1>1. /\ StakesTyped(r.snaps) /\ IsRegistry(r.vals) /\ IsStats(r.sts)
      /\ DOMAIN r.vals \subseteq DOMAIN base.vals /\ KeepsKeys(base.vals, r.vals)
      /\ \A n \in Names : /\ Sentence(base.sts, n) <= Sentence(r.sts, n)
                          /\ Sentence(r.sts, n) <= JailedUntil(slot - 1)
  BY DEF Disciplined
<1>2. leader \in Names \cup {NoLeader}
  BY <1>1, FrozenLeader DEF IsRegistry
<1>3. /\ next.vals = judged.vals /\ next.sts = judged.sts
      /\ StakesTyped(next.snaps)
  BY <1>1, EnsureTyped DEF JudgedNext
<1>4. \A n \in Names : Sentence(r.sts, n) <= JailedUntil(slot)
  <2>1. slot - 1 \in Nat /\ slot - 1 <= slot /\ slot \in Nat
    OBVIOUS
  <2>2. /\ JailedUntil(slot - 1) <= JailedUntil(slot)
        /\ JailedUntil(slot - 1) \in Nat /\ JailedUntil(slot) \in Nat
    BY <2>1, JailedUntilMonotone, JailedUntilNat
  <2>3. \A n \in Names : Sentence(r.sts, n) \in Nat
    BY <1>1 DEF IsStats, Sentence, ValidatorStats
  <2> QED
    BY <1>1, <2>2, <2>3
<1> HIDE DEF leader, producer
<1>5. /\ IsRegistry(judged.vals) /\ IsStats(judged.sts)
      /\ DOMAIN judged.vals \subseteq DOMAIN r.vals /\ KeepsKeys(r.vals, judged.vals)
      /\ \A n \in Names : /\ Sentence(r.sts, n) <= Sentence(judged.sts, n)
                          /\ Sentence(judged.sts, n) <= JailedUntil(slot)
  BY <1>1, <1>2, <1>4, JudgedDisciplines
<1> HIDE DEF judged, next
<1>6. /\ IsRegistry(next.vals) /\ IsStats(next.sts)
      /\ DOMAIN next.vals \subseteq DOMAIN r.vals /\ KeepsKeys(r.vals, next.vals)
      /\ \A n \in Names : /\ Sentence(r.sts, n) <= Sentence(next.sts, n)
                          /\ Sentence(next.sts, n) <= JailedUntil(slot)
  BY <1>3, <1>5
<1>7. KeepsKeys(base.vals, next.vals)
  BY <1>1, <1>6, KeepsKeysTrans
<1>8. ASSUME NEW n \in Names
      PROVE  Sentence(base.sts, n) <= Sentence(next.sts, n)
  <2>1. /\ Sentence(base.sts, n) \in Nat
        /\ Sentence(r.sts, n) \in Nat /\ Sentence(next.sts, n) \in Nat
    BY <1>1, <1>6 DEF IsStats, Sentence, ValidatorStats
  <2>2. Sentence(base.sts, n) <= Sentence(r.sts, n)
    BY <1>1
  <2>3. Sentence(r.sts, n) <= Sentence(next.sts, n)
    BY <1>6
  <2> QED
    BY <2>1, <2>2, <2>3
<1> QED
  BY <1>1, <1>3, <1>6, <1>7, <1>8 DEF Disciplined, next

LEMMA RunDisciplines ==
  ASSUME NEW lo \in Nat, NEW hi \in Nat, NEW base, NEW headers, NEW drawn, NEW run,
         IsRun(run, lo, hi, base, headers, drawn),
         SnapsOk(base.snaps), IsStats(base.sts), Disciplined(base, base, lo)
  PROVE  \A n \in lo..hi : Disciplined(base, run[n], n)
<1> DEFINE bad == {n \in lo..hi : ~ Disciplined(base, run[n], n)}
           m == Min(bad)
<1> SUFFICES ASSUME bad # {} PROVE FALSE
  OBVIOUS
<1>1. m \in bad /\ \A n \in bad : m <= n
  BY MinProperties
<1> HIDE DEF m
<1>2. \A n \in lo..hi : run[n] = IF n = lo THEN base
                                 ELSE JudgedNext(run[n - 1], headers, n, drawn)
  BY DEF IsRun
<1>3. \A n \in lo..hi : Keeps(base, run[n])
  BY RunKeeps DEF Disciplined, IsRegistry
<1>4. CASE m = lo
  BY <1>1, <1>2, <1>4
<1>5. CASE m # lo
  <2>1. m - 1 \in lo..hi /\ m - 1 < m /\ m \in Nat \ {0}
    BY <1>1, <1>5
  <2>2. Disciplined(base, run[m - 1], m - 1) /\ SnapsOk(run[m - 1].snaps)
    BY <1>1, <1>3, <2>1 DEF Keeps
  <2>3. Disciplined(base, JudgedNext(run[m - 1], headers, m, drawn), m)
    BY <2>1, <2>2, JudgedNextDisciplines
  <2> QED
    BY <1>1, <1>2, <1>5, <2>3
<1> QED
  BY <1>4, <1>5

\* processMissedSlots, with the tip's slot for target.
LEMMA MissedSlotsDiscipline ==
  ASSUME lastProcessed \in Nat, NEW target \in Nat, NEW headers, NEW vals, NEW sts,
         NEW snaps, NEW drawn, SnapsOk(snaps), StakesTyped(snaps), IsRegistry(vals),
         IsStats(sts), \A n \in Names : Sentence(sts, n) <= JailedUntil(lastProcessed)
  PROVE  LET next == processMissedSlots(headers, target, vals, sts, snaps, drawn)
             last == IF target > lastProcessed THEN target ELSE lastProcessed
         IN Disciplined([vals |-> vals, sts |-> sts], next, last)
<1> DEFINE base == [vals |-> vals, sts |-> sts, snaps |-> snaps]
           next == processMissedSlots(headers, target, vals, sts, snaps, drawn)
           run == CHOOSE f : IsRun(f, lastProcessed, target, base, headers, drawn)
<1>1. base.snaps = snaps /\ base.vals = vals /\ base.sts = sts
  OBVIOUS
<1>2. Disciplined(base, base, lastProcessed)
  <2>1. KeepsKeys(vals, vals)
    BY DEF KeepsKeys
  <2>2. \A n \in Names : Sentence(sts, n) \in Nat
    BY DEF IsStats, Sentence, ValidatorStats
  <2> HIDE DEF base
  <2> QED
    BY <1>1, <2>1, <2>2 DEF Disciplined
<1>3. \A r, slot : Disciplined(base, r, slot)
                     => Disciplined([vals |-> vals, sts |-> sts], r, slot)
  BY <1>1 DEF Disciplined
<1>4. CASE target <= lastProcessed
  <2>1. next = base /\ ~ (target > lastProcessed)
    BY <1>4 DEF processMissedSlots
  <2> HIDE DEF next, base
  <2> QED
    BY <1>2, <1>3, <2>1 DEF next
<1>5. CASE ~ (target <= lastProcessed)
  <2>1. next = run[target] /\ target > lastProcessed
    BY <1>5 DEF processMissedSlots, IsRun
  <2> HIDE DEF next, base
  <2>2. \E f : IsRun(f, lastProcessed, target, base, headers, drawn)
    BY <1>5, RunExists
  <2>3. IsRun(run, lastProcessed, target, base, headers, drawn)
    BY <2>2
  <2> HIDE DEF run
  <2>4. \A n \in lastProcessed..target : Disciplined(base, run[n], n)
    BY <1>1, <1>2, <2>3, RunDisciplines
  <2>5. Disciplined(base, run[target], target)
    BY <1>5, <2>4
  <2> QED
    BY <1>3, <2>1, <2>5 DEF next
<1> QED
  BY <1>4, <1>5

-----------------------------------------------------------------------------
(* Steps.                                                                    *)

\* What a step may do to the validators and their sentences.
DisciplineStep ==
  /\ KeepsKeys(validators, validators')
  /\ \A n \in Names : Sentence(stats, n) <= Sentence(stats', n)

\* A reward is only stake.
LEMMA RewardedKeeps ==
  ASSUME NEW vals, IsRegistry(vals), NEW name
  PROVE  IsRegistry(Rewarded(vals, name)) /\ KeepsKeys(vals, Rewarded(vals, name))
<1>1. CASE name \in DOMAIN vals
  <2> DEFINE stake == vals[name].Stake + BlockReward
  <2>1. Rewarded(vals, name) = [vals EXCEPT ![name].Stake = stake]
    BY <1>1 DEF Rewarded
  <2>2. stake \in Nat /\ stake >= MinStake
    BY <1>1, StakingAssumption DEF IsRegistry, Validator
  <2> HIDE DEF stake
  <2>3. IsRegistry([vals EXCEPT ![name].Stake = stake])
    BY <1>1, <2>2, SetStakeRegistry
  <2>4. KeepsKeys(vals, [vals EXCEPT ![name].Stake = stake])
    BY <1>1, SetStakeKeepsKeys
  <2> QED
    BY <2>1, <2>3, <2>4
<1>2. CASE name \notin DOMAIN vals
  BY <1>2 DEF Rewarded, KeepsKeys
<1> QED
  BY <1>1, <1>2

LEMMA AcceptDisciplines ==
  ASSUME DisciplineInv, SnapshotInv', NEW parent \in blocks, NEW st, NEW txs, NEW draw,
         Accept(Append(parent, NewHeader(st, txs, draw)))
  PROVE  DisciplineInv' /\ DisciplineStep
<1>1. /\ SnapshotInv /\ StakesTyped(snapshots)
      /\ IsRegistry(validators) /\ IsStats(stats) /\ lastProcessed \in Nat
      /\ \A n \in Names : Sentence(stats, n) <= JailedUntil(lastProcessed)
  BY DEF DisciplineInv, RegistryInv
<1>2. PICK epochs, headers, name, target :
        LET snaps == ensureSnapshots(SnapshotsNow, validators, stats, epochs)
            judged == processMissedSlots(headers, target,
                        Rewarded(validators, name), stats, snaps, draws')
        IN /\ epochs \subseteq Nat /\ target \in Nat
           /\ validators' = judged.vals
           /\ stats' = judged.sts
           /\ snapshots' = judged.snaps
           /\ lastProcessed' = IF target > lastProcessed
                               THEN target ELSE lastProcessed
  BY <1>1, AcceptJudges
<1> DEFINE snaps == ensureSnapshots(SnapshotsNow, validators, stats, epochs)
           vals == Rewarded(validators, name)
           judged == processMissedSlots(headers, target, vals, stats, snaps, draws')
           last == IF target > lastProcessed THEN target ELSE lastProcessed
<1>3. SnapsOk(snaps) /\ StakesTyped(snaps)
  <2>1. SnapsOk(SnapshotsNow) /\ DOMAIN validators \subseteq Names
    BY <1>1, NowKeeps DEF SnapshotInv, ChainInv, TreeInv
  <2>2. StakesTyped(snaps)
    BY <1>1, EnsureTyped DEF SnapshotsNow
  <2>3. epochs \in SUBSET Nat
    BY <1>2
  <2> QED
    BY <2>1, <2>2, <2>3, EnsureKeeps
<1>4. IsRegistry(vals) /\ KeepsKeys(validators, vals)
  BY <1>1, RewardedKeeps
<1>5. /\ target \in Nat /\ validators' = judged.vals /\ stats' = judged.sts
      /\ snapshots' = judged.snaps
      /\ lastProcessed' = last /\ last \in Nat
  BY <1>1, <1>2
<1> HIDE DEF snaps, vals
<1>6. Disciplined([vals |-> vals, sts |-> stats], judged, last)
  BY <1>1, <1>3, <1>4, <1>5, MissedSlotsDiscipline
<1> HIDE DEF judged, last
<1>7. /\ StakesTyped(snapshots') /\ IsRegistry(validators') /\ IsStats(stats')
      /\ DOMAIN validators' \subseteq DOMAIN vals /\ KeepsKeys(vals, validators')
      /\ \A n \in Names : /\ Sentence(stats, n) <= Sentence(stats', n)
                          /\ Sentence(stats', n) <= JailedUntil(last)
  BY <1>5, <1>6 DEF Disciplined
<1>8. DisciplineStep
  BY <1>4, <1>7, KeepsKeysTrans DEF DisciplineStep
<1>9. DisciplineInv'
  BY <1>5, <1>7
     DEF DisciplineInv, RegistryInv, IsRegistry, IsStats, StakesTyped, Sentence,
         JailedUntil
<1> QED
  BY <1>8, <1>9

\* A step that judges no slot.
LEMMA UnjudgedStep ==
  ASSUME DisciplineInv, SnapshotInv', UNCHANGED <<stats, lastProcessed>>,
         IsRegistry(validators'), KeepsKeys(validators, validators'),
         \/ snapshots' = snapshots
         \/ \E epochs : snapshots' = ensureSnapshots(snapshots, validators, stats, epochs)
  PROVE  DisciplineInv' /\ DisciplineStep
<1>1. \A n \in Names : Sentence(stats, n) \in Nat
  BY DEF DisciplineInv, RegistryInv, IsStats, Sentence, ValidatorStats
<1>2. DisciplineStep
  BY <1>1 DEF DisciplineStep
<1>3. StakesTyped(snapshots')
  BY EnsureTyped DEF DisciplineInv, RegistryInv
<1>4. DisciplineInv'
  BY <1>3 DEF DisciplineInv, RegistryInv, IsRegistry, IsStats, StakesTyped, Sentence,
         JailedUntil
<1> QED
  BY <1>2, <1>4

\* Every call, with any arguments.
LEMMA DisciplineNext ==
  DisciplineInv /\ [Next]_vars => DisciplineInv' /\ DisciplineStep
<1> SUFFICES ASSUME DisciplineInv, [Next]_vars
             PROVE  DisciplineInv' /\ DisciplineStep
  OBVIOUS
<1>1. SnapshotInv'
  BY SnapshotStep DEF DisciplineInv
<1>2. /\ SnapshotInv /\ IsRegistry(validators) /\ tip \in blocks
      /\ KeepsKeys(validators, validators)
  BY DEF DisciplineInv, RegistryInv, SnapshotInv, ChainInv, CanonicalInv, KeepsKeys
<1> DEFINE Snaps == \/ snapshots' = snapshots
                    \/ \E epochs : snapshots' = ensureSnapshots(snapshots, validators,
                                                               stats, epochs)
<1>3. ASSUME UNCHANGED registryVars, Snaps
      PROVE  DisciplineInv' /\ DisciplineStep
  BY <1>1, <1>2, <1>3, UnjudgedStep DEF registryVars, IsRegistry, KeepsKeys
<1>4. ASSUME NEW name, UNCHANGED <<stats, lastProcessed>>, Snaps,
             validators' = SlashValidator(validators, name, SlashPenalty)
      PROVE  DisciplineInv' /\ DisciplineStep
  <2>1. SlashPenalty \in Nat
    BY StakingAssumption
  <2>2. IsRegistry(validators') /\ KeepsKeys(validators, validators')
    BY <1>2, <1>4, <2>1, SlashRegistry, SlashKeepsKeys
  <2> QED
    BY <1>1, <1>4, <2>2, UnjudgedStep
<1>5. ASSUME NEW parent \in blocks, NEW st, NEW txs, NEW draw,
             IF CanMakeBlock(st, txs, draw)
             THEN Accept(Append(parent, NewHeader(st, txs, draw)))
             ELSE Refuse(LeaderNow(draw))
      PROVE  DisciplineInv' /\ DisciplineStep
  <2>1. CASE Accept(Append(parent, NewHeader(st, txs, draw)))
    BY <1>1, <2>1, AcceptDisciplines
  <2>2. CASE Refuse(LeaderNow(draw))
    BY <1>4, <2>2 DEF Refuse, SnapshotsNow
  <2> QED
    BY <1>5, <2>1, <2>2
<1>6. ASSUME NEW batch, NEW draw, AddBlock(batch, draw)
      PROVE  DisciplineInv' /\ DisciplineStep
  <2>1. \E txs : IF CanMakeBlock(state, txs, draw)
                 THEN Accept(Append(tip, NewHeader(state, txs, draw)))
                 ELSE Refuse(LeaderNow(draw))
    BY <1>6 DEF AddBlock
  <2> QED
    BY <1>2, <1>5, <2>1
<1>7. ASSUME NEW parent \in blocks, NEW batch, NEW draw,
             AddBlockExternal(parent, batch, draw)
      PROVE  DisciplineInv' /\ DisciplineStep
  <2> DEFINE base == stateAtTip(parent)
  <2>1. CASE IF CanMakeBlock(base.st, batch, draw)
             THEN Accept(Append(parent, NewHeader(base.st, batch, draw)))
             ELSE Refuse(LeaderNow(draw))
    <3> HIDE DEF base
    <3> QED
      BY <1>5, <2>1
  <2>2. CASE UNCHANGED registryVars /\ snapshots' = SnapshotsNow
    BY <1>3, <2>2 DEF SnapshotsNow
  <2> QED
    BY <1>7, <2>1, <2>2 DEF AddBlockExternal
<1>8. CASE VerifyChain
  <2>1. Snaps /\ UNCHANGED <<stats, lastProcessed>>
    BY <1>8, VerifyChainEffect DEF VerifyChain
  <2>2. CASE validators' = validators
    BY <1>3, <2>1, <2>2 DEF registryVars
  <2>3. ASSUME NEW name, validators' = SlashValidator(validators, name, SlashPenalty)
        PROVE  DisciplineInv' /\ DisciplineStep
    BY <1>4, <2>1, <2>3
  <2> QED
    BY <1>8, <2>2, <2>3, VerifyChainEffect
<1>9. ASSUME NEW addr, NEW amount, SetBalance(addr, amount)
      PROVE  DisciplineInv' /\ DisciplineStep
  BY <1>3, <1>9 DEF SetBalance
<1>10. ASSUME NEW tx, AddTx(tx)
       PROVE  DisciplineInv' /\ DisciplineStep
  BY <1>3, <1>10 DEF AddTx
<1>11. ASSUME NEW epochs, Freeze(epochs)
       PROVE  DisciplineInv' /\ DisciplineStep
  BY <1>3, <1>11 DEF Freeze
<1>12. CASE \/ \E slot \in Slots : GetEpochSnapshot(slot)
            \/ \E hash \in blocks : ScoreTip(hash)
            \/ WeightDeltaRequired
            \/ GetForkCandidates
  BY <1>11, <1>12 DEF GetEpochSnapshot, ScoreTip, WeightDeltaRequired,
                      GetForkCandidates
<1>13. CASE ResetReorgStats
  BY <1>3, <1>13 DEF ResetReorgStats
<1>14. CASE ChangeValidators
  <2>1. RegistryNext /\ UNCHANGED <<stats, lastProcessed>>
    <3>1. ASSUME NEW pair \in KeyPairs
          PROVE  pair[1] \in Keys \cup {NoKey} /\ pair[2] \in Keys \cup {NoKey}
      BY WorldAssumption
    <3> QED
      BY <1>14, <3>1 DEF ChangeValidators, RegistryNext, AddValidator, AddStake, Unstake
  <2>2. IsRegistry(validators') /\ KeepsKeys(validators, validators')
    <3>1. RegistryInv'
      BY <2>1, RegistryStep DEF DisciplineInv
    <3> QED
      BY <2>1, <3>1, KeysStep DEF DisciplineInv, RegistryInv, IsRegistry
  <2>3. snapshots' = snapshots
    BY <1>14 DEF ChangeValidators
  <2> QED
    BY <1>1, <2>1, <2>2, <2>3, UnjudgedStep
<1>15. CASE UNCHANGED vars
  BY <1>3, <1>15 DEF vars
<1> QED
  BY <1>6, <1>7, <1>8, <1>9, <1>10, <1>12, <1>13, <1>14, <1>15
     DEF Next, OtherCall

\* DisciplineInv holds at NewBlockchain.
LEMMA DisciplineInit == Init => DisciplineInv
<1> SUFFICES ASSUME Init PROVE DisciplineInv
  OBVIOUS
<1>1. SnapshotInv /\ RegistryInv
  BY SnapshotInvInit, RegistryStart DEF Init
<1>2. \A n \in Names : Sentence(stats, n) = 0
  BY DEF Init, RegistryInit, Sentence, ZeroStats
<1>3. JailedUntil(lastProcessed) \in Nat
  BY <1>1, JailedUntilNat DEF RegistryInv
<1>4. StakesTyped(snapshots)
  BY DEF Init, EmptyMap, StakesTyped
<1> QED
  BY <1>1, <1>2, <1>3, <1>4 DEF DisciplineInv

-----------------------------------------------------------------------------
(* Theorems.                                                                 *)

\* DisciplineInv, the strengthening the properties below rest on.
THEOREM DisciplineInvariant == Spec => []DisciplineInv
<1>1. DisciplineInv /\ [Next]_vars => DisciplineInv'
  BY DisciplineNext
<1> QED
  BY <1>1, DisciplineInit, PTL DEF Spec

\* What the registry keeps under its own operations it keeps inside the engine:
\* whatever AddBlock, reorgs and processMissedSlots do, nobody stays registered
\* below MinStake and no strike count rests above MaxMissedSlots.
THEOREM EngineKeepsRegistry ==
  Spec => [](RegistryTypeOK /\ StakeFloor /\ StrikesPunished)
<1>1. DisciplineInv => RegistryTypeOK /\ StakeFloor /\ StrikesPunished
  BY RegistryInvImplies DEF DisciplineInv
<1> QED
  BY <1>1, DisciplineInvariant, PTL

\* processMissedSlots never shortens a sentence, whatever branch it judges
\* against, and nothing else touches one.
THEOREM SentencesStandHolds == Spec => SentencesStand
<1>1. DisciplineInv /\ DisciplineInv' /\ [Next]_vars =>
        [\A n \in Names :
           stats'[n].JailedUntilEpoch >= stats[n].JailedUntilEpoch]_vars
  <2> SUFFICES ASSUME DisciplineInv, DisciplineInv', [Next]_vars, NEW n \in Names
               PROVE  stats'[n].JailedUntilEpoch >= stats[n].JailedUntilEpoch
    OBVIOUS
  <2>1. Sentence(stats, n) <= Sentence(stats', n)
    BY DisciplineNext DEF DisciplineStep
  <2>2. /\ stats[n].JailedUntilEpoch \in Nat
        /\ stats'[n].JailedUntilEpoch \in Nat
    BY DEF DisciplineInv, RegistryInv, IsStats, ValidatorStats
  <2> QED
    BY <2>1, <2>2 DEF Sentence
<1> QED
  BY <1>1, DisciplineInvariant, PTL DEF Spec, SentencesStand

\* No call of the engine replaces the key of a registered validator.
THEOREM EngineKeepsKeys == Spec => KeysStable
<1>1. DisciplineInv /\ [Next]_vars =>
        [\A n \in DOMAIN validators \cap DOMAIN validators' :
           /\ validators'[n].PubKey = validators[n].PubKey
           /\ validators[n].PrivKey # NoKey
                => validators'[n].PrivKey = validators[n].PrivKey]_registryVars
  BY DisciplineNext DEF DisciplineStep, KeepsKeys
<1> QED
  BY <1>1, DisciplineInvariant, PTL DEF Spec, KeysStable
=============================================================================

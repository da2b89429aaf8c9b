------------------------- MODULE ValidatorRegistry -------------------------
(* The validators and their discipline: the maps Validators and Stats of a   *)
(* Blockchain, changed by consensus/pos.go and by the penalties of           *)
(* core/blockchain.go.  RegistrySpec lets callers use every operation in any *)
(* order; Blockchain uses the same operators inside its handlers.            *)
EXTENDS ProofOfStake

CONSTANTS
  Stakes,   \* the amounts callers pass
  MaxStake, \* bound: callers stop adding stake there
  MaxSlot   \* bound: the last slot

VARIABLES
  validators,    \* name -> Validator, only the registered ones
  stats,         \* name -> ValidatorStats
  lastProcessed  \* LastProcessedSlot: slots up to here have been judged

registryVars == <<validators, stats, lastProcessed>>

ASSUME RegistryBounds ==
  /\ Stakes \subseteq Int
  /\ MaxStake \in Nat
  /\ MaxSlot \in Nat

RegistryTypeOK ==
  /\ DOMAIN validators \subseteq Names
  /\ validators \in [DOMAIN validators -> Validator]
  /\ stats \in [Names -> ValidatorStats]
  /\ lastProcessed \in Nat

RegistryInit ==
  /\ validators = EmptyMap
  /\ stats = [n \in Names |-> ZeroStats]
  /\ lastProcessed = 0

-----------------------------------------------------------------------------
(* Penalties: what one missed slot, or one proof of equivocation, does.      *)

\* Faulty: the threshold is compared before the strike is counted.
MissSlotLate(vals, sts, leader, slot) ==
  LET s == sts[leader]
  IN IF s.MissedSlots > MaxMissedSlots
     THEN [vals |-> SlashValidatorPercent(vals, leader),
           sts |-> [sts EXCEPT ![leader] = [MissedSlots |-> 0,
                                            JailedUntilEpoch |-> JailedUntil(slot),
                                            Slashed |-> s.Slashed]]]
     ELSE [vals |-> vals,
           sts |-> [sts EXCEPT ![leader].MissedSlots = s.MissedSlots + 1]]

\* Faulty: the threshold clears the count and slashes, but does not jail.
MissSlotNoJail(vals, sts, leader, slot) ==
  LET strikes == sts[leader].MissedSlots + 1
  IN IF strikes > MaxMissedSlots
     THEN [vals |-> SlashValidatorPercent(vals, leader),
           sts |-> [sts EXCEPT ![leader].MissedSlots = 0]]
     ELSE [vals |-> vals, sts |-> [sts EXCEPT ![leader].MissedSlots = strikes]]

\* The slot's leader produced no canonical block: one more strike, and the
\* strike that exceeds MaxMissedSlots slashes, jails and clears the count.
MissSlot(vals, sts, leader, slot) ==
  LET s == sts[leader]
  IN IF s.MissedSlots + 1 > MaxMissedSlots
     THEN [vals |-> SlashValidatorPercent(vals, leader),
           sts |-> [sts EXCEPT ![leader] = [MissedSlots |-> 0,
                                            JailedUntilEpoch |-> JailedUntil(slot),
                                            Slashed |-> s.Slashed]]]
     ELSE [vals |-> vals,
           sts |-> [sts EXCEPT ![leader].MissedSlots = s.MissedSlots + 1]]

\* handleEquivocation
PunishEquivocation(vals, sts, name, slot) ==
  [vals |-> SlashValidatorPercent(vals, name),
   sts |-> [sts EXCEPT ![name] = [MissedSlots |-> sts[name].MissedSlots,
                                  JailedUntilEpoch |-> JailedUntil(slot),
                                  Slashed |-> TRUE]]]

-----------------------------------------------------------------------------
(* The operations callers have.                                              *)

AddValidator(name, stake, pub, priv) ==
  /\ AddValidatorAccepts(validators, name, stake, pub)
  /\ validators' = WithValidator(validators, name, stake, pub, priv)
  /\ UNCHANGED <<stats, lastProcessed>>

AddStake(name, amount) ==
  /\ amount > 0
  /\ name \in DOMAIN validators
  /\ validators' = [validators EXCEPT ![name].Stake = @ + amount]
  /\ UNCHANGED <<stats, lastProcessed>>

Unstake(name, amount) ==
  /\ UnstakeAccepts(validators, name, amount)
  /\ validators' = Unstaked(validators, name, amount)
  /\ UNCHANGED <<stats, lastProcessed>>

RewardValidator(name) ==
  /\ name \in DOMAIN validators
  /\ validators' = Rewarded(validators, name)
  /\ UNCHANGED <<stats, lastProcessed>>

Slash(name) ==
  /\ name \in DOMAIN validators
  /\ validators' = SlashValidator(validators, name, SlashPenalty)
  /\ UNCHANGED <<stats, lastProcessed>>

\* One turn of the loop of processMissedSlots.  leader is the snapshot's: it
\* may have left the registry since.  The name "genesis" is taken for nobody.
JudgeSlot(leader, produced) ==
  LET slot == lastProcessed + 1
      next == IF produced \/ leader = NoLeader
              THEN [vals |-> validators, sts |-> stats]
              ELSE MissSlot(validators, stats, leader, slot)
  IN /\ lastProcessed' = slot
     /\ validators' = next.vals
     /\ stats' = next.sts

\* A second block of name in a slot that has not been judged yet.
Equivocate(name, slot) ==
  LET next == PunishEquivocation(validators, stats, name, slot)
  IN /\ validators' = next.vals
     /\ stats' = next.sts
     /\ UNCHANGED lastProcessed

BelowMaxStake(name) ==
  name \in DOMAIN validators => validators[name].Stake < MaxStake

RegistryNext ==
  \/ \E name \in Names, stake \in Stakes,
        pub \in Keys \cup {NoKey}, priv \in Keys \cup {NoKey} :
       BelowMaxStake(name) /\ AddValidator(name, stake, pub, priv)
  \/ \E name \in Names, amount \in Stakes :
       BelowMaxStake(name) /\ AddStake(name, amount)
  \/ \E name \in Names, amount \in Stakes : Unstake(name, amount)
  \/ \E name \in Names : BelowMaxStake(name) /\ RewardValidator(name)
  \/ \E name \in Names : Slash(name)
  \/ \E name \in Names, produced \in BOOLEAN :
       lastProcessed < MaxSlot /\ JudgeSlot(name, produced)
  \/ \E name \in Names, slot \in lastProcessed + 1 .. MaxSlot :
       Equivocate(name, slot)

RegistrySpec == RegistryInit /\ [][RegistryNext]_registryVars

-----------------------------------------------------------------------------
(* Properties.                                                               *)

\* Whatever is slashed, unstaked, rewarded or topped up, and in whatever
\* order, nobody stays registered with less than MinStake: VerifyValidator
\* (pov.go) refuses the blocks of such a validator for ever.
StakeFloor == \A n \in DOMAIN validators : validators[n].Stake >= MinStake

\* The strike count of processMissedSlots never rests above its threshold: the
\* strike that exceeds it is punished in the same step.
StrikesPunished == \A n \in Names : stats[n].MissedSlots <= MaxMissedSlots

\* A registered signing key is never replaced or forgotten by a top-up,
\* however often AddValidator is called for the name: blocks signed with it
\* keep verifying as long as the validator is registered.
KeysStable ==
  [][\A n \in DOMAIN validators \cap DOMAIN validators' :
       /\ validators'[n].PubKey = validators[n].PubKey
       /\ validators[n].PrivKey # NoKey
            => validators'[n].PrivKey = validators[n].PrivKey]_registryVars

\* "Missed-slot thresholds must produce slash + jail" (README): a strike count
\* only ever falls in a step that also takes stake from the validator, if it is
\* still registered, and jails it in the epoch of the slot and in the next.
ThresholdPunished ==
  [][\A n \in Names : stats'[n].MissedSlots < stats[n].MissedSlots =>
       /\ IsJailed(stats', n, lastProcessed')
       /\ IsJailed(stats', n, lastProcessed' + SlotsPerEpoch * (JailEpochs - 1))
       /\ n \in DOMAIN validators' =>
            validators'[n].Stake < validators[n].Stake]_registryVars
=============================================================================

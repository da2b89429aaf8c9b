CONSTANTS
  Names <- MCNames
  Keys <- MCKeys
  NotHex = {}
  MinStake = 3
  BlockReward = 1
  SlashPenalty = 2
  SlashPercent = 50
  MaxMissedSlots = 1
  SlotsPerEpoch = 2
  JailEpochs = 2
  Stakes <- MCStakes
  MaxStake = 6
  MaxSlot = 3
SPECIFICATION RegistrySpec
INVARIANTS
  RegistryTypeOK
  StakeFloor
  StrikesPunished
PROPERTIES
  KeysStable
  ThresholdPunished

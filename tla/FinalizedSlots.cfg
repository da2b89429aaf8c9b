CONSTANTS
  Names = {1, 2, 3}
  Keys = {1, 2, 3}
  NotHex = {}
  MinStake = 2
  BlockReward = 1
  SlashPenalty = 1
  SlashPercent = 2
  MaxMissedSlots = 3
  SlotsPerEpoch = 50
  JailEpochs = 2
  Stakes = {}
  MaxStake = 20
  MaxSlot = 6
  MaxReorgDepth = 2
  FinalitySlots = 2
  MinReorgWeightDeltaP = 10
  EpochLength = 50
  MaxBlockTxs = 2
  HashLess <- MCHashLess
  Draws <- ThreeDraws
  Calls <- JustForks
  KeyPairs = {}
  Balances = {}
  Txs = {}
  Batches = {}
  Slots = {}
  SetUpStakes <- ThreeStakes
  SetUpBalances <- NoValues
SPECIFICATION SetUpSpec
PROPERTY
  FinalizedSlotsUntouched
CHECK_DEADLOCK FALSE

CONSTANTS
  Names = {1, 2, 3}
  Keys = {1, 2, 3}
  NotHex = {}
  MinStake = 2
  BlockReward = 1
  SlashPenalty = 1
  SlashPercent = 50
  MaxMissedSlots = 0
  SlotsPerEpoch = 3
  JailEpochs = 2
  Stakes = {}
  MaxStake = 20
  MaxSlot = 5
  MaxReorgDepth = 2
  FinalitySlots = 2
  MinReorgWeightDeltaP = 10
  EpochLength = 3
  MaxBlockTxs = 2
  HashLess <- MCHashLess
  Draws <- ThreeDraws
  Calls <- JustForks
  KeyPairs = {}
  Balances = {}
  Txs = {}
  Batches = {}
  Slots = {}
  SetUpStakes <- ThreeStakes
  SetUpBalances <- NoValues
SPECIFICATION SetUpSpec
PROPERTY
  SentenceExcludes
CHECK_DEADLOCK FALSE

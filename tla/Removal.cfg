CONSTANTS
  Names = {1, 2}
  Keys = {1, 2, 3}
  NotHex = {}
  MinStake = 2
  BlockReward = 1
  SlashPenalty = 2
  SlashPercent = 50
  MaxMissedSlots = 1
  SlotsPerEpoch = 2
  JailEpochs = 2
  Stakes = {5, 6}
  MaxStake = 20
  MaxSlot = 4
  MaxReorgDepth = 2
  FinalitySlots = 1
  MinReorgWeightDeltaP = 10
  EpochLength = 2
  MaxBlockTxs = 2
  HashLess <- MCHashLess
  Draws = {0, 3}
  Calls <- Removal
  KeyPairs = {}
  Balances <- OneBalance
  Txs = {}
  Batches <- FeeThenSpend
  Slots = {}
  SetUpStakes <- AtMinimum
  SetUpBalances <- OneFunded
SPECIFICATION SetUpSpec
INVARIANTS
  BlocksByLeaders
PROPERTIES
  FinalizedBlocksStay
CHECK_DEADLOCK FALSE

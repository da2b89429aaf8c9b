CONSTANTS
  Names = {1}
  Keys = {1}
  NotHex = {}
  MinStake = 2
  BlockReward = 1
  SlashPenalty = 1
  SlashPercent = 50
  MaxMissedSlots = 1
  SlotsPerEpoch = 2
  JailEpochs = 2
  Stakes = {5}
  MaxStake = 5
  MaxSlot = 3
  MaxReorgDepth = 2
  FinalitySlots = 1
  MinReorgWeightDeltaP = 10
  EpochLength = 2
  MaxBlockTxs = 2
  HashLess <- MCHashLess
  Draws = {0}
  Calls <- JoinAndFork
  KeyPairs <- OneKey
  Balances = {}
  Txs = {}
  Batches = {}
  Slots = {}
  TooLong = {}
  MaxStarts = 2
SPECIFICATION NodeSpec
PROPERTIES
  RestoresCanonicalTip
CHECK_DEADLOCK FALSE

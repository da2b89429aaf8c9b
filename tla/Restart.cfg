CONSTANTS
  Names = {1}
  Keys = {1}
  NotHex = {}
  MinStake = 2
  BlockReward = 1
  SlashPenalty = 4
  SlashPercent = 50
  MaxMissedSlots = 1
  SlotsPerEpoch = 2
  JailEpochs = 2
  Stakes = {5}
  MaxStake = 5
  MaxSlot = 2
  MaxReorgDepth = 2
  FinalitySlots = 1
  MinReorgWeightDeltaP = 10
  EpochLength = 3
  MaxBlockTxs = 2
  HashLess <- MCHashLess
  Draws = {0}
  Calls <- JoinForkAndVerify
  KeyPairs <- OneKey
  Balances = {}
  Txs = {}
  Batches = {}
  Slots = {}
  TooLong = {}
  MaxStarts = 3
SPECIFICATION NodeSpec
INVARIANTS
  NodeTypeOK
  RestartsSafely
PROPERTIES
  RestoredExtends
  TipNotLower
CHECK_DEADLOCK FALSE

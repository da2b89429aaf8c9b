CONSTANTS
  Names = {1, 2}
  Keys = {1, 2, 3}
  NotHex = {}
  MinStake = 2
  BlockReward = 1
  SlashPenalty = 2
  SlashPercent = 2
  MaxMissedSlots = 3
  SlotsPerEpoch = 50
  JailEpochs = 2
  Stakes = {}
  MaxStake = 20
  MaxSlot = 5
  MaxReorgDepth = 2
  FinalitySlots = 2
  MinReorgWeightDeltaP = 10
  EpochLength = 50
  MaxBlockTxs = 2
  HashLess <- MCHashLess
  Draws = {0, 2}
  Calls <- JustForks
  KeyPairs = {}
  Balances = {}
  Txs = {}
  Batches <- BadBatch
  Slots = {}
  SetUpStakes <- AtMinimum
  SetUpBalances <- TwoBalances
SPECIFICATION SetUpSpec
INVARIANTS
  LedgerMatchesTip
CHECK_DEADLOCK FALSE

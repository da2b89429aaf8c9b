CONSTANTS
  Names = {1, 2}
  Keys = {1, 2, 3}
  NotHex = {3}
  MinStake = 2
  BlockReward = 1
  SlashPenalty = 1
  SlashPercent = 2
  MaxMissedSlots = 3
  SlotsPerEpoch = 2
  JailEpochs = 2
  Stakes = {3}
  MaxStake = 4
  MaxSlot = 3
  MaxReorgDepth = 2
  FinalitySlots = 2
  MinReorgWeightDeltaP = 10
  EpochLength = 2
  MaxBlockTxs = 2
  HashLess <- MCHashLess
  Draws <- TwoDraws
  Calls <- Ledger
  KeyPairs <- GoodAndBadKeys
  Balances = {}
  Txs <- PoolTxs
  Batches <- GivenBatches
  Slots = {}
  SetUpStakes <- OneStake
  SetUpBalances <- TwoBalances
SPECIFICATION SetUpSpec
INVARIANTS
  TypeOK
  LedgerMatchesTip
  ChainVerifies
  SupplyConserved
PROPERTIES
  PoppedIntoBlock
CHECK_DEADLOCK FALSE

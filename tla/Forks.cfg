CONSTANTS
  Names = {1, 2, 3}
  Keys = {1, 2, 3}
  NotHex = {}
  MinStake = 2
  BlockReward = 1
  SlashPenalty = 1
  SlashPercent = 50
  MaxMissedSlots = 1
  SlotsPerEpoch = 3
  JailEpochs = 2
  Stakes = {}
  MaxStake = 20
  MaxSlot = 5
  MaxReorgDepth = 2
  FinalitySlots = 3
  MinReorgWeightDeltaP = 10
  EpochLength = 3
  MaxBlockTxs = 2
  HashLess <- MCHashLess
  Draws <- ThreeDraws
  Calls <- ForksAndQueries
  KeyPairs = {}
  Balances = {}
  Txs = {}
  Batches = {}
  Slots = {3}
  SetUpStakes <- ThreeStakes
  SetUpBalances <- NoValues
SPECIFICATION SetUpSpec
INVARIANTS
  TipNeverBehind
  OneBlockPerSlot
  CanonicalIsBest
PROPERTIES
  ImplementsFinalizedLog
  SnapshotsFrozen
  HeavierOnly
  SentencesStand
  MissedSlotsCounted
CHECK_DEADLOCK FALSE

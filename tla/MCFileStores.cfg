CONSTANTS
  TooLong <- MCTooLong
  Blocks <- MCBlocks
  Epochs = {0, 1}
  Contents = {1, 2}
SPECIFICATION MCSpec
INVARIANTS
  TypeOK
  NothingLost
  ReadsSucceed
  LatestSnapshotSaved
PROPERTIES
  ImplementsDurableMap
CHECK_DEADLOCK FALSE

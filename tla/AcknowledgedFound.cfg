CONSTANTS
  TooLong <- MCTooLong
  Blocks <- MCBlocks
  Epochs = {0, 1}
  Contents = {1, 2}
SPECIFICATION MCSpec
INVARIANTS
  AcknowledgedFound
CHECK_DEADLOCK FALSE

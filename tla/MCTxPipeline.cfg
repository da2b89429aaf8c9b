CONSTANTS
  Txs <- MCTxs
  Producers <- MCProducers
  Genesis <- MCGenesis
  MaxBlockTxs = 2
SPECIFICATION Spec
INVARIANTS
  TypeOK
  PoolInSync
  PriorityOrder
  BatchApplies
  NoReplay
  SupplyKept
PROPERTIES
  PendingServed

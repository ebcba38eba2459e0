\* Three nodes: all connected, in a line, or two of them joining the miner late.
SPECIFICATION Spec
CONSTANTS
  alice = alice bob = bob carol = carol
  Addresses <- MCAddresses
  U64Max = 255 MaxSupply = 20
  InitialReward = 5 RewardInterval = 2 RewardNumerator = 4 RewardDenominator = 5
  MaxBlockTransactions = 3
  MaxTarget = 255 InitialTarget = 15
  GenesisTimestamp = 0 GenesisMiner = 1
  NoBlock = NoBlock
  DifficultyInterval = 9 TargetBlockSeconds = 4 MaxAdjustmentFactor = 4
  MaxPendingPerSender = 2 MaxPool = 2
  Nodes = {alice, bob, carol}
  WalletAt <- TwoWallets MinersAt <- AliceMines Txs <- MCTxs
  Networks <- MCNetworks
CHECK_DEADLOCK FALSE
INVARIANT PoolsConverge
PROPERTY ChargesAreExplained

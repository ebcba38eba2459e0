CONSTANTS
  Addresses <- MCAddresses
  U64Max = 255
  MaxSupply = 12
  InitialReward = 5
  RewardInterval = 2
  RewardNumerator = 4
  RewardDenominator = 5
  MaxBlockTransactions = 3
  MaxTarget = 255
  InitialTarget = 15
  GenesisTimestamp = 0
  GenesisMiner = 1
  NoBlock = NoBlock
  DifficultyInterval = 2
  TargetBlockSeconds = 4
  MaxAdjustmentFactor = 4
  Blocks <- MCBlocks
  MaxPool = 3
  MaxPendingPerSender = 2
  Txs <- MCTxs
  Miners <- MCMiners
  BlockLimits <- MCBlockLimits
  MineDelays <- MCMineDelays
  MaxHeight = 3
SPECIFICATION Spec
INVARIANTS IndexExact PoolExecutable MineConfirmsPool
PROPERTIES EligibleReturned PendingKeptOnExtension

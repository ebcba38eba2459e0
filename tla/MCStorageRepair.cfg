CONSTANTS
  Addresses <- MCAddresses
  U64Max = 255
  MaxSupply = 12
  InitialReward = 5
  RewardInterval = 2
  RewardNumerator = 4
  RewardDenominator = 5
  MaxBlockTransactions = 2
  MaxTarget = 255
  InitialTarget = 15
  GenesisTimestamp = 0
  GenesisMiner = 1
  NoBlock = NoBlock
  DifficultyInterval = 2
  TargetBlockSeconds = 4
  MaxAdjustmentFactor = 4
  Blocks <- MCBlocks
  Nodes = {n1}
  Validators = {}
  Reindexers = {r1}
  Damages = 1
SPECIFICATION Spec
INVARIANT RestartKeepsTree
PROPERTY ReindexRepairs

\* A tree of blocks in any order, and two or three nodes that stop and may hang.
CONSTANTS
  Addresses <- MCAddresses
  U64Max = 255
  MaxSupply = 12
  InitialReward = 5
  RewardInterval = 2
  RewardNumerator = 4
  RewardDenominator = 5
  MaxBlockTransactions = 2
  MaxTarget = 255
  InitialTarget = 15
  GenesisTimestamp = 0
  GenesisMiner = 1
  NoBlock = NoBlock
  DifficultyInterval = 2
  TargetBlockSeconds = 8
  MaxAdjustmentFactor = 4
  Blocks <- MCBlocks

  alice = alice bob = bob carol = carol l1 = l1 l2 = l2
  Nodes = {alice, bob, carol}
  Links = {l1, l2}
  Dialer <- LineDialer Acceptor <- LineAcceptor PeerEndpoints <- LineEndpoints
  MayFreeze = {alice, bob, carol}
  MaxFrames = 3
SPECIFICATION MCSpec
CHECK_DEADLOCK FALSE
INVARIANTS BranchSound VerdictIsLocal Conservation NoReplay StorageOutlivesPeers
PROPERTIES SwitchIsExact ImplementsForkChoice ExitUnlessUnread

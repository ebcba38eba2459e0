\* Two nodes with and without a fork, three in a line and three in a ring.
SPECIFICATION FairSpec
CONSTANTS
  alice = alice
  bob = bob
  carol = carol
  Nodes = {alice, bob, carol}
  NoNode = NoNode
  Genesis = 0
  NoBlock = NoBlock
  Blocks <- MCBlocks
  Parent <- MCParent
  Work <- MCWork
  MaxBlocksPerResponse = 3
  LocatorDense = 2
  LocatorMax = 3
  Networks <- AllNetworks
CHECK_DEADLOCK FALSE
INVARIANT RequestAccounted
PROPERTIES OnlyDeepForksPenalized AdvertisedWorkReached SentWorkReached Settles

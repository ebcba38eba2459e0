\* One batch of the longer branch does not outweigh the shorter one.
SPECIFICATION FairSpec
CONSTANTS
  alice = alice
  bob = bob
  carol = carol
  Nodes = {alice, bob, carol}
  NoNode = NoNode
  Genesis = 0
  NoBlock = NoBlock
  Blocks <- MCBlocks
  Parent <- MCParent
  Work <- MCWork
  MaxBlocksPerResponse = 3
  LocatorDense = 2
  LocatorMax = 3
  Networks <- DeepForkOnly
CHECK_DEADLOCK FALSE
PROPERTY LongerForkDownloaded

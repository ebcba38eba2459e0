\* The two nodes of the README, either of which may hang.
SPECIFICATION ShutdownSpec
CONSTANTS
  alice = alice bob = bob carol = carol l1 = l1 l2 = l2
  Nodes = {alice, bob}
  Links = {l1}
  Dialer <- ReadmeDialer Acceptor <- ReadmeAcceptor PeerEndpoints <- ReadmeEndpoints
  MayFreeze = {alice, bob}
  MaxFrames = 3
CHECK_DEADLOCK FALSE
PROPERTY NoPeerStallsExit

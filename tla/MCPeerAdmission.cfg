\* Two nodes dial each other and a stranger dials one of them; up to three things go wrong.
SPECIFICATION MCSpec
CONSTANTS
  alice = alice bob = bob carol = carol
  l1 = l1 l2 = l2 l3 = l3 loopback = loopback
  Nodes = {alice, bob, carol}
  NoEnd = NoEnd
  Links = {l1, l2, l3}
  Dialer <- CrossDialer Acceptor <- CrossAcceptor HostOf <- OneHost
  ChainOf <- CarolApart VersionOf <- OneVersion
  MaxPeers = 2 MaxPeersPerIp = 2
  Threshold = 3 BanTime = 1 MaxTime = 1 MaxTroubles = 3
CHECK_DEADLOCK FALSE
INVARIANTS IdIndexExact LimitsHold
PROPERTIES BanHonoured MisbehaviourRemembered EndsAgree

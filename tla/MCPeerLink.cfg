\* Two ends, one of which may stop running; a PING and its PONG take less than the idle timeout.
SPECIFICATION Spec
CONSTANTS
  a = a b = b
  IdleTimeout = 3 WriteTimeout = 2 MaxPendingSends = 2 HighWater = 2
  ResponseBlocks = 2 MaxDelay = 1
  MayFreeze = {b} MaxRelays = 2 MaxRequests = 1
CHECK_DEADLOCK FALSE
INVARIANT LivePeerKept
PROPERTIES HandlersReturn DeadPeerNoticed

SPECIFICATION FairSpec
CONSTANTS
  Uses <- MCUses
  kInitRetryDelayMs = 1
  kMaxRetryDelayMs = 3
  MaxConns = 2
  MaxFailures = 3
  MaxConnects = 2
INVARIANTS
  Sound
  SocketsOwned
  WatchedAsAsked
PROPERTIES
  StopHolds
  DestroyedFrees
CHECK_DEADLOCK FALSE

SPECIFICATION FairSpec
CONSTANTS
  Conns = {c1, c2}
  idle_seconds = 3
  Parts = 1
  MaxLag = 1
  Jump = 1
INVARIANTS
  Sound
  SilentIsShut
PROPERTIES
  HeardIsKept
  SilentEventuallyShut
CHECK_DEADLOCK FALSE

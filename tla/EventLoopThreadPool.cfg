SPECIFICATION FairSpec
CONSTANTS
  MaxThreads = 2
  MaxConns = 3
  MaxClosed = 1
  MaxResizes = 1
  MaxOpened = 2
INVARIANTS
  Sound
  AllDestroyed
PROPERTIES
  CallsReturn
  PendingTaken
CHECK_DEADLOCK FALSE

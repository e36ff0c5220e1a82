SPECIFICATION FairSpec
CONSTANTS
  Addr = {a1, a2}
  None = None
  Uses <- MCUses
  Early = 1
  MaxTime = 3
  Loop = Loop
  Threads = {t1}
INVARIANTS
  Sound
  CancelIsFinal
PROPERTIES
  TimerRuns
CHECK_DEADLOCK FALSE

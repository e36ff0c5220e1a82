SPECIFICATION FairSpec
CONSTANTS
  LoopThread = loop
  Threads = {t1, t2}
  MaxFunctors = 3
INVARIANTS
  NoLostWakeup
PROPERTIES
  ImplementsFunctorQueue
  QueuedFunctorRuns
  QuitEndsLoop

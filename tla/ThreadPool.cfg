SPECIFICATION FairSpec
CONSTANTS
  p1 = p1
  p2 = p2
  Producers <- MCProducers
  Uses <- MCUses
  MaxWorkers = 3
  MaxTasks = 4
INVARIANTS
  WorkersWoken
PROPERTIES
  StopReturns
  TasksTaken
CHECK_DEADLOCK FALSE

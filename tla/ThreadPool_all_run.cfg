SPECIFICATION Spec
CONSTANTS
  p1 = p1
  p2 = p2
  Producers <- MCProducers
  Uses <- MCTestUses
  MaxWorkers = 2
  MaxTasks = 2
INVARIANT AllTasksRun
CHECK_DEADLOCK FALSE

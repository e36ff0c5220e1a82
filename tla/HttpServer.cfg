SPECIFICATION Spec
CONSTANTS
  Requests <- MCRequests
  MaxRequests = 2
INVARIANTS
  Sound
  HandledInOrder
  AnsweredInOrder
  WaitsOnlyIfPipelined
CHECK_DEADLOCK FALSE

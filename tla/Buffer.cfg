SPECIFICATION Spec
CONSTANTS
  Byte = {0, 1}
  Junk = Junk
  kCheapPrepend = 1
  kInitialSize = 1
  ExtraBuf = 2
  Slack = {0, 2}
  MaxWrite = 2
  MaxReadable = 3
INVARIANTS
  CheapPrependKept
PROPERTIES
  ImplementsByteQueue
CHECK_DEADLOCK FALSE

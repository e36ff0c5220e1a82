SPECIFICATION FairSpec
CONSTANTS
  base = base
  io = io
  BaseLoop = base
  Threads = {t1}
  Uses <- MCUses
  MaxRx = 1
  MsgLen = 2
  HighWaterMark = 2
INVARIANTS
  Sound
  StreamInOrder
  WritingUntilDrained
PROPERTIES
  PeerCloseDestroys
CHECK_DEADLOCK FALSE

SPECIFICATION Spec
CONSTANTS
  base = base
  io = io
  BaseLoop = base
  Threads = {t1}
  Uses <- MCShutdownOnly
  MaxRx = 1
  MsgLen = 2
  HighWaterMark = 2
INVARIANT
  DtorDisconnected
CHECK_DEADLOCK FALSE

SPECIFICATION MCSpec
CONSTANTS
  Lens = {1, 2}
  kLargeBuffer = 3
  kMaxBuffers = 2
  DropMessage = 1
  roll_size_ = 3
  flush_interval_ = 0
  check_every_n_ = 2
  kRollPerSeconds_ = 2
  MaxLines = 4
  MaxTime = 3
  kSmallBuffer = 4000
  kMaxNumericSize = 48
  Threads = {t1}
  Instants <- MCInstants
  Zones <- MCZones
  Levels = {2}
  Statements <- MCStatements
  Pieces <- MCPieces
  MaxInserts = 2
INVARIANTS
  Sound
  LinesInOrder
  FilesRolled
  StampRight
  LineShown
PROPERTIES
  StopReturns
  LineWritten
CHECK_DEADLOCK FALSE

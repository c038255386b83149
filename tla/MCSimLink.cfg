SPECIFICATION Spec
CONSTANTS
  LineLen = 2
  ChunkLen = 3
  OutRoom = 2
  CycleFrames = 4
  MaxFrames = 8
  InRoom = 4
  MaxLines = 4
INVARIANTS
  TypeOK
  ReaderDrains
PROPERTIES
  LinesArrive
  FramesArrive
  SendReturns
  SentIsIngested
  CloseReturns
CHECK_DEADLOCK FALSE

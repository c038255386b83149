SPECIFICATION Spec
CONSTANTS
  W = 8
  WatchdogTimeout = 2
  DegradedHold = 4
  SeqMod = 3
  CounterMod = 1
  ReadSkew = 1
  CmdAgeMax = 5
  MaxSilence = 6
  Commands <- MCCommands
  ZeroCmd = "zero"
  Frames <- MCFrames
INVARIANTS
  TypeOK
  SilenceFailsSafe
  LinkOkIsClean
PROPERTIES
  OnlyAFrameRestores
  ImplementsDeadman

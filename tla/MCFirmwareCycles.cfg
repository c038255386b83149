SPECIFICATION Spec
CONSTANTS
  W = 12
  WatchdogTimeout = 2
  DegradedHold = 4
  SeqMod = 2
  CounterMod = 1
  ReadSkew = 0
  CmdAgeMax = 5
  MaxAge = 9
  Commands <- MCCommands
  ZeroCmd = "zero"
  Frames <- MCFrames
  Period = 2
  TelemetrySeqMod = 1
  HwWatchdog = 2
  RxSize = 1
INVARIANTS
  TypeOK
  CycleNeverTakesBack
  StopIsShown
CONSTRAINT NoComplaint
VIEW RelativeTime

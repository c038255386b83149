SPECIFICATION FairSpec
CONSTANTS
  W = 12
  WatchdogTimeout = 2
  DegradedHold = 4
  SeqMod = 1
  CounterMod = 1
  ReadSkew = 0
  CmdAgeMax = 5
  MaxAge = 10
  Commands <- MCCommands
  ZeroCmd = "zero"
  Frames <- MCOneFrame
  Period = 2
  TelemetrySeqMod = 1
  HwWatchdog = 2
  RxSize = 1
INVARIANT DrivenByRecentCommand
PROPERTY HangIsSurvived

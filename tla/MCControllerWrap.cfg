SPECIFICATION Spec
CONSTANTS
  W = 8
  WatchdogTimeout = 2
  DegradedHold = 4
  SeqMod = 2
  CounterMod = 1
  ReadSkew = 1
  CmdAgeMax = 5
  MaxSilence = 10
  Commands <- MCCommands
  ZeroCmd = "zero"
  Frames <- MCWrapFrames
INVARIANT SilentJetsonStops

SPECIFICATION Spec
CONSTANTS
  W = 64
  WatchdogTimeout = 5
  DegradedHold = 10
  SeqMod = 3
  CounterMod = 1
  ReadSkew = 0
  CmdAgeMax = 5
  Commands <- MCCommands
  ZeroCmd = "zero"
  Frames <- MCFrames
  ControlPeriod = 2
  C2Timeout = 3
  LinkTimeout = 4
  TxSeqMod = 3
  Never = Never
  MaxStall = 1
  MaxTransit = 1
  MaxLost = 3
  MaxStops = 1
  MaxFlips = 0
  MaxInbox = 2
  MaxTime = 9
INVARIANTS
  LinkUpIsRecent
  LinkDownIsSilence
PROPERTY HiddenLossTripsWatchdog

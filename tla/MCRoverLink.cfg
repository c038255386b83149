SPECIFICATION Spec
CONSTANTS
  W = 64
  WatchdogTimeout = 3
  DegradedHold = 10
  SeqMod = 4
  CounterMod = 4
  ReadSkew = 0
  CmdAgeMax = 5
  Commands <- MCCommands
  ZeroCmd = "zero"
  Frames <- MCFrames
  ControlPeriod = 2
  C2Timeout = 3
  LinkTimeout = 4
  TxSeqMod = 4
  Never = Never
  MaxStall = 2
  MaxTransit = 1
  MaxLost = 1
  MaxStops = 1
  MaxFlips = 2
  MaxInbox = 0
  MaxTime = 9
INVARIANTS
  TypeOK
  NoDriveWithoutBaseStation
  NoNuisanceTrip
  LossIsCounted
PROPERTY ReviveOnReturn

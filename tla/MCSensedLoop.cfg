SPECIFICATION LoopSpec
CONSTANTS
  W = 16
  Period = 2
  TelemetrySeqMod = 2
  MaxStall = 3
  Span = 12
  SlewStep = 15
  CmdMax = 19
  CountsPerMs = 1
  Drives <- MCDrives
  Steers <- MCSteers
INVARIANTS
  LoopTypeOK
  BurstBounded
  PauseBounded
  NoDrift
  OdometryIsExact
  SteeringSettles

SPECIFICATION Spec
CONSTANTS
  TelemIds <- MCTelemIds
  None = None
  TelemetrySeqMod = 3
  Order <- MCOrder
  MaxCycles = 7
  MaxLag = 2
  MaxRepeats = 1
  MaxRestarts = 1
INVARIANTS
  TypeOK
  TornOncePerRestart
  CountsAreExact

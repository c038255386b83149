SPECIFICATION Spec
CONSTANTS
  TelemIds <- MCTelemIds
  None = None
  TelemetrySeqMod = 4
  Order <- MCOrder
  MaxCycles = 4
  MaxLag = 3
  MaxRepeats = 0
  MaxRestarts = 1
INVARIANT
  SnapshotsAreCoherent


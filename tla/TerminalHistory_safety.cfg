CONSTANTS
  PendingMax = 1
  LogMax = 2
  MaxOutput = 3
  MaxTakes = 2
  MaxFaults = 1
  MaxShells = 2
SPECIFICATION HistorySpec
INVARIANTS
  HistoryTypeOK
  RestoredIsReal LogHasNoHole
  SleepKeepsTheScreen
PROPERTIES
  CheckpointsGrow
CHECK_DEADLOCK FALSE

CONSTANTS
  PendingMax = 1
  LogMax = 2
  MaxOutput = 3
  MaxTakes = 3
  MaxFaults = 0
  MaxShells = 2
SPECIFICATION HistorySpec
INVARIANT GapMeansLoss
CHECK_DEADLOCK FALSE

CONSTANTS
  A = A
  B = B
  NoPane = NoPane
  Panes = {A, B}
  Handles <- MCHandles
  PaneOf <- MCPaneOf
  Manual = {}
  OperatorMay = {"stop"}
  AllowStale = {}
  BreakerThreshold = 2
  MaxConcurrent = 2
  MaxTasks = 2
  MaxDispatches = 6
  MaxGates = 1
  MaxFailures = 4
  MaxInbox = 1
  MaxFaults = 0
  MaxExits = 1
  MaxRestarts = 0
  MaxGlitches = 1
SPECIFICATION FairSpec
PROPERTIES
  RunEnds
  StopEndsLoop

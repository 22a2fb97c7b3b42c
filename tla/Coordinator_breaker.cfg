CONSTANTS
  A = A
  B = B
  NoPane = NoPane
  Panes = {A, B}
  Handles <- MCHandles
  PaneOf <- MCPaneOf
  Manual = {}
  OperatorMay = {}
  AllowStale = {2}
  BreakerThreshold = 3
  MaxConcurrent = 1
  MaxTasks = 1
  MaxDispatches = 3
  MaxGates = 0
  MaxFailures = 6
  MaxInbox = 1
  MaxFaults = 2
  MaxExits = 1
  MaxRestarts = 0
  MaxGlitches = 0
SPECIFICATION Spec
INVARIANT BreakerCountsFaults

CONSTANTS
  A = A
  B = B
  NoPane = NoPane
  Panes = {A, B}
  Handles <- MCHandles
  PaneOf <- MCPaneOf
  Manual = {}
  OperatorMay = {"gate", "dispatch"}
  AllowStale = {2}
  BreakerThreshold = 2
  MaxConcurrent = 1
  MaxTasks = 1
  MaxDispatches = 2
  MaxGates = 2
  MaxFailures = 4
  MaxInbox = 1
  MaxFaults = 1
  MaxExits = 1
  MaxRestarts = 0
  MaxGlitches = 0
SPECIFICATION Spec
PROPERTY GateBlocksDispatch

CONSTANTS
  A = A
  B = B
  NoPane = NoPane
  Panes = {A}
  Handles <- MCHandles
  PaneOf <- MCPaneOf
  Manual = {"ready"}
  OperatorMay = {"create", "update", "dispatch", "reset"}
  AllowStale = {1}
  BreakerThreshold = 2
  MaxConcurrent = 1
  MaxTasks = 2
  MaxDispatches = 2
  MaxGates = 0
  MaxFailures = 8
  MaxInbox = 1
  MaxFaults = 1
  MaxExits = 1
  MaxRestarts = 1
  MaxGlitches = 0
SPECIFICATION Spec
INVARIANTS
  RunRowTracksLoop
  OwnerCanFinish

CONSTANTS
  A = A
  B = B
  NoPane = NoPane
  Panes = {A, B}
  Handles <- MCHandles
  PaneOf <- MCPaneOf
  Manual = {}
  OperatorMay = {"gate"}
  AllowStale = {2}
  BreakerThreshold = 2
  MaxConcurrent = 1
  MaxTasks = 2
  MaxDispatches = 3
  MaxGates = 1
  MaxFailures = 4
  MaxInbox = 1
  MaxFaults = 1
  MaxExits = 1
  MaxRestarts = 0
  MaxGlitches = 1
SPECIFICATION Spec
INVARIANTS
  CoordinatorTypeOK
  ConcurrencyCap
  DeadTerminalHoldsNothing
  NoFailureWithoutFault
PROPERTIES
  BoardSpec

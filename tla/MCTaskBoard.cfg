CONSTANTS
  a1 = a1
  a2 = a2
  b1 = b1
  A = A
  B = B
  NoPane = NoPane
  Handles <- MCHandles
  Panes = {A, B}
  PaneOf <- MCPaneOf
  Manual = {"ready", "completed"}
  MaxTasks = 2
  MaxDispatches = 2
  MaxGates = 1
  MaxFailures = 2
  BreakerThreshold = 2
SPECIFICATION BoardSpec
INVARIANTS
  BoardTypeOK
  TerminalLock
  NoGhostDispatch
PROPERTIES
  ClosedStaysClosed
  WorkerDoneClosesItsDispatch

SPECIFICATION FairAutoSpec
CONSTANTS
  Autos = {a, b}
  Grace = 0
  MaxKept = 1
  MaxTime = 3
  MaxEvents = 1
INVARIANTS AutomationsTypeOK LaunchedOnce ReportsFindTheirRun
PROPERTY DueIsHandled
CHECK_DEADLOCK FALSE

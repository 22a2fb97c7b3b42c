SPECIFICATION FairSessionSpec
CONSTANTS
  MaxShells = 2
  MaxInputs = 2
  MaxPauses = 2
  MaxFailures = 1
INVARIANTS SessionTypeOK OneShell AckedKillIsDone
PROPERTIES NoStaleSignal InputIsFifo HeldIsReleased KilledShellEnds
CHECK_DEADLOCK FALSE

SPECIFICATION GuardianSpec
CONSTANTS
  Variables = {g1, g2}
  Temporary = Temporary
  MaxGuardians = 3
  AssignOverRunning = FALSE
INVARIANT MonitorWatchesOwnHandle

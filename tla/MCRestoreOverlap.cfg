SPECIFICATION Spec
CONSTANTS
  Runs = {1, 2}
  Overlap = TRUE
  Replicas = 1
  BackupSuspended = FALSE
  MaxFaults = 0
  MaxAgain = 0
INVARIANT
  AppNotBesideRestore
CHECK_DEADLOCK FALSE

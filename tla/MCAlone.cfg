SPECIFICATION AloneSpec
CONSTANTS
  Runs = {1, 2}
  Units = {u1, u2}
  MaxPods = 2
  Keep = 1
  MaxTrouble = 1
  Restores = {1, 2}
  Overlap = FALSE
  Replicas = 1
  BackupSuspended = FALSE
  MaxRestoreFaults = 2
  MaxAgain = 1
INVARIANTS
  OneJobPerTarget RunningIsRemembered
PROPERTIES
  ForsakenIsSettled NothingBesideRestore  AppComesBack
CHECK_DEADLOCK FALSE

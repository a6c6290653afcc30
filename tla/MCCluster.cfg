SPECIFICATION PartSpec
CONSTANTS
  Order <- MCOrder
  Shapes <- MCShapes
  BackupHost = "backups"
  Nothing = Nothing
  MaxCommits = 2
INVARIANTS ProxyKnowsTheCaller Undisturbed PassedRunsContained CompiledIsWhole
PROPERTY ClusterFollowsMain
CHECK_DEADLOCK FALSE

SPECIFICATION HourlySpec
CONSTANTS
  a = a
  b = b
  c = c
  d = d
  t1 = t1
  t2 = t2
  Nothing = Nothing
  Apps <- TwoApps
  Teams <- MCTeams
  Order <- TwoOrder
  Images <- HeldImages
  Requests <- HeldRequests
  Initial <- MCInitial
  Links <- NoLinks
  MaxRequests = 1
  Attempts = 2
  MaxFaults = 0
CHECK_DEADLOCK FALSE
PROPERTY OthersStillDeploy

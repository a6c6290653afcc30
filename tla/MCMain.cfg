SPECIFICATION FairSpec
CONSTANTS
  a = a
  b = b
  c = c
  d = d
  t1 = t1
  t2 = t2
  Nothing = Nothing
  Apps <- MCApps
  Teams <- MCTeams
  Order <- MCOrder
  Images <- MCImages
  Requests <- MCRequests
  Initial <- MCInitial
  Links <- MCLinks
  MaxRequests = 2
  Attempts = 2
  MaxFaults = 1
CHECK_DEADLOCK FALSE
INVARIANTS
  ReleasesAgree
  NetworkFollowsRecords
PROPERTIES
  PortsNameOneCaller
  RecordsChangeByRequest
  RenderedAgain

SPECIFICATION DashboardSpec
CONSTANTS
  Initial <- MCInitial
  Worlds <- MCWorlds
  Presets = {"errors"}
  Other = Other
  MaxEvents = 2
INVARIANTS
  RecordNamesLive TwinsNeedExcuses
PROPERTY
  OnePassRepairs

SPECIFICATION FairSpec

CONSTANTS
  Apps = {app}
  Copied = {app}
  Slow = {}
  Monitor = Monitor
  Service = Service
  Grace = 1
  ConsoleGrace = 1
  Recovery = 1
  Reminder = 2
  History = 3
  MaxStateBytes = 9
  EntryBytes = 2
  SeenBytes = 1
  MaxFaults = 1
  MaxTime = 5

INVARIANTS
  InOrder RepeatsNeedFaults

PROPERTIES
  SavedUntilDelivered RecoveryEarned PlatformDrainsOrFull

SPECIFICATION FairSpec
CONSTANTS
  RequestKeys = {k1}
  Channels = {live, dead}
  DeadChannels = {dead}
  Handlers = {h1}
  Nil = Nil
  MaxPending = 3
  MaxOutboxBytes = 6
  EntryBytes = 2
  SeenBytes = 1
  History = 2
  ChannelRetry = 2
  MaxFaults = 2
  LastRequest = 2
  MaxTime = 4
PROPERTIES
  KeepsPromise EventuallyDischarged

SPECIFICATION Spec
CONSTANTS
  RequestKeys = {k1, k2, k3}
  Channels = {live}
  DeadChannels = {}
  Handlers = {h1, h2}
  Nil = Nil
  MaxPending = 2
  MaxOutboxBytes = 4
  EntryBytes = 2
  SeenBytes = 1
  History = 1
  ChannelRetry = 2
  MaxFaults = 1
  LastRequest = 1
  MaxTime = 3
SYMMETRY Symmetry
INVARIANTS
  QueueSound RepeatsNeedFaults
  CheckpointKeepsOthers OffersEachOnce WakeNotLost

SPECIFICATION FairSpec
CONSTANTS
  Consumers = {c1, c2}
  Orphan = Orphan
  NoOne = NoOne
  MaxId = 2
  MaxFaults = 1
  DataSizeBytes = 1
  DefaultMaxStreamLength = 2
  StuckClaimBatch = 1
PROPERTIES
  EventuallyDelivered
  StopEnds
  GroupRestored
\* With every message published and every replica blocked in a read of an
\* empty stream the system rests.
CHECK_DEADLOCK FALSE

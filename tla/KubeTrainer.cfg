SPECIFICATION FairSpec
CONSTANTS
  Consumers = {c1, c2}
  Orphan = Orphan
  NoOne = NoOne
  Requests = {r1}
  Counts = {3}
  MaxId = 3
  MaxFaults = 0
  MaxMishaps = 0
  DataSizeBytes = 1
  StuckClaimBatch = 1
  DefaultMaxStreamLength = 2
PROPERTIES
  ConsumersAreServed
  RequestsAreServed
  ZeroMeansSettled
  EveryMessageIsSettled
\* With every request answered and every replica blocked in a read of an empty
\* stream the system rests.
CHECK_DEADLOCK FALSE

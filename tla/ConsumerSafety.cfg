SPECIFICATION Spec
CONSTANTS
  Consumers = {c1, c2}
  Orphan = Orphan
  NoOne = NoOne
  MaxId = 3
  MaxFaults = 1
  DataSizeBytes = 1
  DefaultMaxStreamLength = 2
  StuckClaimBatch = 2
SYMMETRY Symmetry
INVARIANTS
  AckedWasWorked
  HeldIsTracked
  DeliveredIsAccounted
  NothingIsLost
  Inductive
PROPERTIES
  NoSecondAttempt
  ImplementsQueue
\* With every message published and every replica blocked in a read of an
\* empty stream the system rests.
CHECK_DEADLOCK FALSE

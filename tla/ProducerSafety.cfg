SPECIFICATION Spec
CONSTANTS
  Consumers = {c1}
  Orphan = Orphan
  NoOne = NoOne
  Requests = {r1, r2}
  Counts = {2}
  MaxId = 3
  MaxFaults = 1
  MaxMishaps = 1
  DefaultMaxStreamLength = 2
SYMMETRY Symmetry
INVARIANTS
  PublishedAsAsked
  Inductive
PROPERTIES
  CountMissesNothing
  CountErrorIsBounded
\* With every request answered, and every message acknowledged, the system rests.
CHECK_DEADLOCK FALSE

SPECIFICATION Spec
CONSTANTS
  Consumers = {c1}
  Orphan = Orphan
  NoOne = NoOne
  Requests = {r1}
  Counts = {0, 2}
  MaxId = 3
  MaxFaults = 1
  MaxMishaps = 1
  DefaultMaxStreamLength = 2
PROPERTIES
  CountIsOutstanding
\* With every request answered, and every message acknowledged, the system rests.
CHECK_DEADLOCK FALSE

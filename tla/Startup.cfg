SPECIFICATION FairSpec
CONSTANTS
  Replicas = {r1, r2}
  MaxCrashes = 1
INVARIANTS
  ReadyIsClean
  FailureHasCause
  WaitIsAnswered
  Inductive
PROPERTIES
  WaitEnds
  EventuallyReady

SPECIFICATION FairSpec
CONSTANTS
  Sizes <- MCSizes
  BufferSize = 2
  PipeChannelBuffer = 2
INVARIANTS
  ChecksumIsComplete
  FailureHasCause
  NobodyIsStuck
  Inductive
PROPERTIES
  NothingLeaks
  ImplementsJob
\* The call returns, and the goroutines end.
CHECK_DEADLOCK FALSE

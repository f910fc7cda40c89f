SPECIFICATION FairSpec
CONSTANTS
  Requests = {r1, r2, r3}
  Configs <- MCConfigs
  stopChanBufferSize = 1
  MaxSignals = 2
INVARIANTS
  GracefulMeansAnswered
  OKMeansStopped
  MainIsWoken
  TogglesAddUp
  ProbeFailsByToggle
  Inductive
PROPERTIES
  StopEnds
  ToggleTakesEffect
\* The process ends.
CHECK_DEADLOCK FALSE

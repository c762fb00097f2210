SPECIFICATION FairSpec
CONSTANTS
  AudioCap = 2
  MaxReconnects = 1
  ProviderTimes <- MCProviderTimes
  NoTime = NoTime
  FrameCap = 3
  MessageCap = 2
INVARIANTS
  HealthTellsTheTruth
  FinalsTile
PROPERTIES
  CancelledWorkerReturns
CHECK_DEADLOCK FALSE

SPECIFICATION FairDaemonSpec
CONSTANTS
  BufferFrames = 1
  CallbackCap = 4
  AudioCap = 1
  MaxReconnects = 0
  ProviderTimes = {}
  NoTime = NoTime
  FrameCap = 4
  MessageCap = 0
  EventBatch = 1
  ActionBatch = 1
  UserCap = 1
INVARIANTS
  EndIsPublished
  SuccessIsExplained
PROPERTY
  ShutdownCompletes
CHECK_DEADLOCK FALSE

SPECIFICATION FairSpec
CONSTANTS
  BufferFrames = 2
  CallbackCap = 7
INVARIANTS
  FramesAccountedFor
  ExitTellsOutcome
PROPERTIES
  CommandExits
CHECK_DEADLOCK FALSE

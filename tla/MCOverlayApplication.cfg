SPECIFICATION FairAppSpec
CONSTANTS
  Daemons = {1, 2}
  UiCap = 2
  ClickCap = 1
  EventCap = 2
  UserCap = 1
INVARIANTS
  AloneIsReachable
  ShownIsOneState
PROPERTIES
  OverlayCatchesUp
CHECK_DEADLOCK FALSE

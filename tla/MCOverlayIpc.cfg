SPECIFICATION FairSpec
CONSTANTS
  Publishers = {pipeline, capture}
  Conns = {c1}
  Published <- Stream
  MaxAnswer = 1
  QueueCap = 2
  ActionCap = 1
  WireCap = 1
  PublishCap = 3
  SendCap = 2
INVARIANTS
  StreamRebuildsSnapshot
  ActionsWithoutGap
PROPERTIES
  ClosingEnds
CHECK_DEADLOCK FALSE

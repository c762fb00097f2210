SPECIFICATION Spec
CONSTANTS
  Publishers = {pipeline}
  Conns = {c1}
  Published <- ShortStream
  MaxAnswer = 2
  QueueCap = 2
  ActionCap = 1
  WireCap = 1
  PublishCap = 2
  SendCap = 0
INVARIANT
  RestingViewAgrees
CHECK_DEADLOCK FALSE

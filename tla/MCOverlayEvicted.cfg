SPECIFICATION FairSpec
CONSTANTS
  Publishers = {pipeline}
  Conns = {c1}
  Published <- ShortStream
  MaxAnswer = 2
  QueueCap = 1
  ActionCap = 1
  WireCap = 1
  PublishCap = 2
  SendCap = 0
PROPERTY
  EvictedIsDisconnected
CHECK_DEADLOCK FALSE

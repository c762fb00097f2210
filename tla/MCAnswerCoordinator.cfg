SPECIFICATION FairSpec
CONSTANTS
  LastQuestion = 2
  MaxDeltas = 2
INVARIANTS
  NoStaleUpdate
  NeverClosed
PROPERTIES
  ImplementsStream
  CancelledWorkersReturn
CHECK_DEADLOCK FALSE

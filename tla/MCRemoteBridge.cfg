SPECIFICATION FairSpec
CONSTANTS
  c1 = c1
  c2 = c2
  Conns = {c1, c2}
  RequestsOf <- MCRequestsOf
  Scratch = 3
  MaxHeader = 2
  MaxBody = 1
  Workers = {w1, w2}
  QueueCap = 1
INVARIANTS
  RevocationHolds
  AnswerFitsRequest
PROPERTIES
  QueuedAreAnswered
  StopCompletes
CHECK_DEADLOCK FALSE

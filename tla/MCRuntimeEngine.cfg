SPECIFICATION FairEngineSpec
CONSTANTS
  ask = ask
  couldYou = couldYou
  speech = speech
  ProviderIds = {p1, p2}
  Fragments <- MCFragments
  TextLen <- MCTextLen
  MaxSegments = 2
  MaxTextBytes = 3
  DuplicateMemory = 1
  SegmentCap = 3
  Openers <- MCQuestions
  Marked = {}
  Trailing <- MCTrailing
  ToUser <- MCQuestions
  ToGroup = {}
  Wording <- MCWording
  MinConfidence = 65
  Cooldown = 0
  RepeatMemory = 1
  LastQuestion = 2
  MaxDeltas = 1
  MaxAnswer = 1
  HealthStates = {"streaming"}
  FinalCap = 3
INVARIANTS
  AnswerFitsQuestion
  ActiveIsShown
  NoSilentStop
PROPERTIES
  UsesComponents
  QuestionResolves
CHECK_DEADLOCK FALSE

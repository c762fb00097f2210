SPECIFICATION ToolsSpec
CONSTANTS
  short = short
  long = long
  huge = huge
  deploy = deploy
  friday = friday
  the = the
  ann = ann
  ProviderIds = {p1, p2, p3, p4, p5}
  Texts <- MCTexts
  TextLen <- MCTextLen
  Mentions <- MCMentions
  MaxSegments = 4
  MaxTextBytes = 6
  DuplicateMemory = 4
  SessionCap = 2
  SegmentCap = 6
  Queries = {deploy, friday}
  SpeakerOf <- MCSpeakerOf
  TextChars <- MCTextChars
  CharBytes <- MCCharBytes
  MaxCharBytes = 2
  LimitArgs = {0, 1, 2, 9}
  MaxResults = 3
  DefaultResults = 2
  MaxShown = 1
  MaxResponse = 11
  Envelope = 2
  SegmentFrame = 1
  Ellipsis = 1
  NoSpeaker = NoSpeaker
  NoLimit = NoLimit
  Blank = Blank
  NotAnId = NotAnId
  Nobody = Nobody
  Questions <- MCQuestions
  Searchable = {deploy, friday}
  SourceLists <- MCSourceLists
  MaxTerms = 2
  RecentSegments = 2
  SearchHits = 2
  HitsPerTerm = 3
  MaxContext = 12
  PieceFrame = 1
  NoText = NoText
SYMMETRY ProviderSymmetry
INVARIANTS
  IdsAreContiguous
  BoundsHold
  NoDuplicateRetained
  IdsResolve
  SmallCallsAreAnswered
  EarlierContextHolds
  PromptIsCutOnce
PROPERTIES
  EvictionIsMinimal
  ImplementsWindow

SPECIFICATION Spec
CONSTANTS
  canYouGo = canYouGo
  canYouGoQ = canYouGoQ
  couldYou = couldYou
  whyRed = whyRed
  mark = mark
  fine = fine
  Fragments <- MCFragments
  Openers <- MCOpeners
  Marked <- MCMarked
  Trailing <- MCTrailing
  ToUser <- MCToUser
  ToGroup <- MCToGroup
  Wording <- MCWording
  MinConfidence = 80
  Cooldown = 1
  RepeatMemory = 1
  LastSegment = 6
  ManualCap = 1
INVARIANTS
  MemoryIsRecentEvents
  NoRepeatWithinMemory
  SourcesAreConsecutive
CHECK_DEADLOCK FALSE

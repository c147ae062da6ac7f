SPECIFICATION FairSpec
CONSTANTS
  p1 = p1
  p2 = p2
  p3 = p3
  p4 = p4
  p5 = p5
  NoThread = NoThread
  Threads <- FiveThreads
  PlayerCount = 2
  HasReferee = 1
  Visits = 2
INVARIANTS
  CourtLockToken
  CountMatches
PROPERTIES
  MatchEndsEmpty
  ShortMatchNeverEnds
  HangsOnlyInShortMatch
CHECK_DEADLOCK FALSE

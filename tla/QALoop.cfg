SPECIFICATION FairSpec
CONSTANTS
  RawScores <- MCRawScores
  RawHooks <- MCRawHooks
  NHooks = 3
  PassScore = 8
  MaxIter = 3
  MaxAttempts = 2
INVARIANTS
  TypeOK
  ReviewsAreOfVersionInHand
  BestIsBest
  ReadyRowIsBest
  OrphansAreDrafts
PROPERTIES
  StopsAtFirstPass
  LoopEnds
  Selects
CHECK_DEADLOCK FALSE

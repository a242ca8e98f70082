SPECIFICATION FairSpec
CONSTANTS
  Declared <- HoldThenIndependent
  Horizon = 3
  Window = 1
  Before = 2
  Overtakes = FALSE
  MaxTime = 3
  MaxUpsets = 2
INVARIANTS TypeOK OneTimeline NothingMissed UnionCovers
PROPERTIES BackfillsEnd
CHECK_DEADLOCK FALSE

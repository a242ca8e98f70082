SPECIFICATION FairSpec
CONSTANTS
  Signals = {a}
  Beat = beat
  Up = up
  Values = {0, 1}
  NaN = nan
  None = none
  MaxPending = 3
  PageSize = 2
  Pages = 1
  MaxReads = 2
  MaxBeats = 3
  MaxUpsets = 1
INVARIANTS TypeOK SampleKept LatestJournaled
PROPERTIES JournalDrains
CHECK_DEADLOCK FALSE

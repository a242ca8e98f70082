SPECIFICATION FairSpec
CONSTANTS
  Places = {p}
  None = none
  Last = 2
  Limit = 1
  PageSize = 1
  MaxChanges = 2
  MaxTroubles = 1
INVARIANTS TypeOK NothingLost
PROPERTIES QueueFlushed BindingsFollow
CHECK_DEADLOCK FALSE

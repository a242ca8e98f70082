SPECIFICATION FairSpec
CONSTANTS
  s1 = s1
  a = a
  Other = Other
  Streams = {s1}
  Topics = {a}
  StreamOf <- OneTopic
  PageSize = 1
  Prunes = TRUE
  MaxRecords = 2
  Troubles = {"drop", "fail", "reset", "sync"}
  MaxTroubles = 1
INVARIANTS TypeOK AppliedState
PROPERTIES CausalRead Converges
CHECK_DEADLOCK FALSE

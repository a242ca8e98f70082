SPECIFICATION FairSpec
CONSTANTS
  a = a
  b = b
  x = x
  o = o
  mA = mA
  NoOp = NoOp
  Commands <- Single
  Tracked <- Single
  Malformed = {}
  Mortal <- Single
  Announced <- Single
  Op <- SingleOp
  Material <- SingleMaterial
  LinkFails = TRUE
  Durable = FALSE
  PageSize = 1
  AnsweredLimit = 2
  MaxSends = 2
  MaxLog = 3
  MaxStops = 1
PROPERTIES NoRunAfterAnswer ExpiredNeverRuns EventuallyAnswered
CHECK_DEADLOCK FALSE

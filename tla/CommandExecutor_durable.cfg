SPECIFICATION Spec
CONSTANTS
  a = a
  b = b
  x = x
  o = o
  mA = mA
  NoOp = NoOp
  Commands <- RepeatsOrOdd
  Tracked <- Repeats
  Malformed <- Odd
  Mortal = {}
  Announced = {}
  LinkFails = FALSE
  Op <- RepeatsOp
  Material <- RepeatsMaterial
  Durable = TRUE
  PageSize = 2
  AnsweredLimit = 1
  MaxSends = 3
  MaxLog = 4
  MaxStops = 1
SYMMETRY Swaps
INVARIANTS TypeOK AtMostOnce AnsweredBehindCursor
PROPERTIES ContractSpec
CHECK_DEADLOCK FALSE

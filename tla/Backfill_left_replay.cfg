SPECIFICATION Spec
CONSTANTS
  Declared <- NoneThenHold
  Horizon = 3
  Window = 1
  Before = 2
  Overtakes = FALSE
  MaxTime = 2
  MaxUpsets = 1
INVARIANTS FirstIsHeld
CHECK_DEADLOCK FALSE

SPECIFICATION SessionFairSpec
CONSTANTS
  Wakeups = {w1, w2}
  Topics = {s}
  Net = net
  Keeps = TRUE
  MaxRebinds = 3
  MaxDrops = 1
  MaxRefusals = 1
INVARIANTS SessionTypeOK Settled
PROPERTIES WantedIsHeard
CHECK_DEADLOCK FALSE

SPECIFICATION FairSpec
CONSTANTS
  Paths = {a}
  Writers = {w}
  MaxRows = 2
  MaxSamples = 2
  MaxUpsets = 2
INVARIANTS TypeOK SamplesKept IdKept 
PROPERTIES SamplesDrain OwnRecordTrue
CHECK_DEADLOCK FALSE

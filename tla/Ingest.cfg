SPECIFICATION Spec
CONSTANTS
  Signal <- ThreeRecords
  Filter <- Widened
  Handlers <- Bindings
  Checkpointed <- TwoKept
  PageSize = 2
  Window = 2
  MaxUpsets = 2
INVARIANTS PassedIsDurable ExactlyOnceState NoSilentLoss
PROPERTIES DeliverySpec
CHECK_DEADLOCK FALSE

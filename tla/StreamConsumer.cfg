SPECIFICATION FairSpec
CONSTANTS
  Wanted <- AllOfThem
  PageSize = 2
  Prunes = TRUE
  MaxRecords = 2
  MaxUpsets = 1
INVARIANTS TypeOK NothingHidden
PROPERTIES DeliverySpec EventuallyHandled
CHECK_DEADLOCK FALSE

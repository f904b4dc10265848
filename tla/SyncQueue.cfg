SPECIFICATION Spec
CONSTANTS
  Capacity = 4
  MaxBatch = 2
  Clearing = {TRUE, FALSE}
  MaxPush = 8
INVARIANTS
  TypeOK
  RingInv
PROPERTIES
  FifoSpec
  OrderedUntilCleared
CHECK_DEADLOCK FALSE

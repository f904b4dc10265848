SPECIFICATION Spec
CONSTANTS
  Window = 4
  SlowPeriod = 2
  Timeout = 3
  Grace = 4
  TickPeriod = 2
  DiagPeriod = 2
  MaxWork = 1
  MaxWait = 1
  MaxTime = 18
INVARIANTS
  LossShown
  RecoveryShown
  EvaluateMeetsTable
CHECK_DEADLOCK FALSE

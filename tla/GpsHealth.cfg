SPECIFICATION Spec
CONSTANTS
  FixTimeout = 3
  Window = 5
  SlowPeriod = 2
  Required = {TRUE, FALSE}
  Qualities = {"nofix", "unknown", "fine", "degraded", "poor"}
  Steps = {4}
  MaxSteps = 1
  MaxTime = 16
INVARIANTS
  LossShown
  RecoveryShown
  EvaluateMeetsTable
CHECK_DEADLOCK FALSE

SPECIFICATION Spec
CONSTANTS
  QueueCap = 2
  MaxPackets = 1
  MaxFrames = 3
  MaxStale = 1
INVARIANT
  DiagnosesLiving
CHECK_DEADLOCK FALSE

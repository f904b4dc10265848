SPECIFICATION Spec
CONSTANTS
  Turn = 7
  Lasers = 2
  Calibration <- MCCalibration
  World <- MCWorld
  Setups <- MCSetups
  BlocksPerPkt = 2
  QueueCap = 1
  PointMax = 12
  Second = 8
  MaxPackets = 5
  MaxFlight = 3
INVARIANTS OneCloudPerTurn MessageOfItsTurn StampOfItsTurn

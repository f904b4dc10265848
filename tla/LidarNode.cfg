SPECIFICATION Spec
CONSTANTS
  QueueCap = 2
  MaxPackets = 1
  MaxFrames = 3
  MaxStale = 1
INVARIANTS
  SocketsReleased
  NoThreadAbandoned
  CloudsOwnedOnce
  RevolutionsInOrder
PROPERTIES
  CallbacksReturn
  RevolutionsDelivered
  FeedSpec
CHECK_DEADLOCK FALSE

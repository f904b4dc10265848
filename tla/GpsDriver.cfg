SPECIFICATION Spec
CONSTANTS
  MaxInbox = 2
  MaxLines = 2
INVARIANTS
  TypeOK
  PublishesOnlyWhenActive
  PortReleased
  DriverInv
PROPERTIES
  CallbacksReturn
  Rebinds
  FeedSpec

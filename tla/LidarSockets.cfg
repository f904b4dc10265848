SPECIFICATION SocketsSpec
CONSTANT
  MaxFd = 4
INVARIANTS
  AllClosed
  SocketsOwn
  ClosesOnlyOwn

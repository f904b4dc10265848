SPECIFICATION LinkSpec
CONSTANTS
  Datagrams <- MCDatagrams
  Noise <- MCNoise
  BufferSizes = {30, 100}
  Start <- MCStart
  End <- MCEnd
  MaxDelay = 2
  MaxSkew = 1
INVARIANTS
  FieldsInPlace
  SentencesIntact
  DatedByHost
CHECK_DEADLOCK FALSE

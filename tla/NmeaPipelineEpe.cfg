SPECIFICATION Spec
CONSTANTS
  Qualities <- MCQualities
  Readings = {r1, r2}
  MaxSentences = 3
INVARIANT
  EpeMatchesQuality
CHECK_DEADLOCK FALSE

SPECIFICATION Spec
CONSTANTS
  Qualities <- MCQualities
  Readings = {r1, r2}
  MaxSentences = 6
SYMMETRY MCSymmetry
INVARIANTS
  CountedOnce
  VelocityConfirmed
  EpeProvenance
  HealthSeesFix
CHECK_DEADLOCK FALSE

SPECIFICATION Spec
CONSTANTS
  Candidates <- MCCandidates
  Reaches <- MCReaches
  Heights <- MCHeights
  MaxPoints = 2
INVARIANTS
  AcceptedConstructs
  ClosestInBeam
  NoBlindSpot
CHECK_DEADLOCK FALSE

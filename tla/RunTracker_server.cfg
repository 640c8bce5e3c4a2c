SPECIFICATION Spec
CONSTANTS
  r1 = r1
  r2 = r2
  h1 = h1
  h2 = h2
  Runs <- TwoRuns
  Handlers <- TwoHandlers
  MaxRequests = 4
  MaxCancels = 2
  MaxDowns = 1
  MaxParks = 3
  MaxFaults = 2
SYMMETRY Symmetric
INVARIANTS ParkMirrored ParkSurvives CountedOnce
CHECK_DEADLOCK FALSE

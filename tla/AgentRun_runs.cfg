SPECIFICATION FairSpec
CONSTANTS
  root = root
  kidA = kidA
  kidB = kidB
  a = a
  b = b
  g = g
  h = h
  ser = ser
  x = x
  y = y
  Root = root
  Runs <- MCRuns
  Calls <- MCCalls
  Scenarios <- MCScenarios
INVARIANTS NothingStranded StartsBounded UsageExact
PROPERTIES ApprovedOnly RunEnds
CHECK_DEADLOCK FALSE

SPECIFICATION Spec
CONSTANTS
  Scenarios <- RaceScenarios
  Nodes = {"a", "b"}
  PollInterval = 2
  BatchLimit = 2
  MinDelay = 1
  MaxTime = 5
INVARIANTS Decided NeverLate
CHECK_DEADLOCK FALSE

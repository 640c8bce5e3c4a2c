SPECIFICATION Spec
CONSTANTS
  Scenarios <- AllScenarios
  MaxFrames = 2
  MaxTime = 4
INVARIANTS NeverSilent
PROPERTIES PausedNeverFires NoImmediateDuplicate
CHECK_DEADLOCK FALSE

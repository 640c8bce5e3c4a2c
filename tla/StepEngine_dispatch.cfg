SPECIFICATION Spec
CONSTANTS
  Workflows <- FailingFanOut
  When <- MCWhen
INVARIANTS NothingLost
CHECK_DEADLOCK FALSE

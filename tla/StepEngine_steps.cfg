SPECIFICATION Spec
CONSTANTS
  Workflows <- SafeWorkflows
  When <- MCWhen
INVARIANTS NothingTwice NothingLost AnswersKept
CHECK_DEADLOCK FALSE

SPECIFICATION FairSpec
CONSTANTS
  Workflows <- LiveWorkflows
  When <- MCWhen
PROPERTIES EarnedFromFrontier EventuallyEnds
CHECK_DEADLOCK FALSE

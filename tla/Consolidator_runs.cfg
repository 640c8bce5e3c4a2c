SPECIFICATION FairSpec
CONSTANTS
  conv = conv
  p = p
  q = q
  Sessions <- OneSession
  Runners <- TwoRunners
  Triggers <- OneTrigger
  Scenarios <- Served
  RowIds = {1, 2}
  MaxMessages = 2
INVARIANTS NothingSkipped OneRun FactsOnce CeilingHolds
PROPERTY CatchesUp
CHECK_DEADLOCK FALSE

SPECIFICATION FairSpec
CONSTANTS
  Scenarios <- AllScenarios
INVARIANTS AcceptedInOrder QueueAttended AdmittedByOperator PendingCapped RenderedCodeGood NoOwnCollision
PROPERTIES SilentAfterStop StopReturns
CHECK_DEADLOCK FALSE

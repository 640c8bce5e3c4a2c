SPECIFICATION FairSpec
CONSTANTS
  p = p
  q = q
  judge = judge
  Callers <- TwoCallers
  Judge = judge
  Scenarios <- Memories
  MaxFacts = 3
INVARIANTS TrustGate QuarantineClosesNothing ChainsForward
PROPERTY PendingSettled
CHECK_DEADLOCK FALSE

SPECIFICATION Spec
CONSTANTS
  r1 = r1
  r2 = r2
  r3 = r3
  Runners = {r1, r2, r3}
  InstanceOf <- TwoProcesses
  Durabilities = {"sync", "exit"}
  Maintenance = {"delete", "compact", "prune", "pruneAll"}
  MaxExecutes = 1
  MaxCalls = 2
  MaxSteps = 1
INVARIANTS NoFork LockExact
PROPERTY TimelineSpec
CHECK_DEADLOCK FALSE

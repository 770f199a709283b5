CONSTANTS
  Message = {m1, m2}
  Worker = {w1, w2}
  None = None
  MaxAttempts = 2
  Limit = 2
  MaxFaults = 1
  MaxRetries = 1
SPECIFICATION FairSpec
INVARIANTS
  AppliedOnce
PROPERTIES
  EveryVerdictCounts
  KeepsPromise
  Resolves
  StopCompletes
CHECK_DEADLOCK FALSE

SPECIFICATION Spec
CONSTANTS
  Sessions = {1}
  WindowSize = 2
  MaxAttempts = 1
  LeaseTicks = 1
  RetryTicks = 1
  MaxParallel = 1
  MaxPerSession = 1
  Tokens = {"t1", "t2"}
  MaxSeq = 3
  MaxEpoch = 2
  MaxRequests = 1
  MaxFaults = 1
INVARIANTS
  SourcesPreserved
  QuarantineSourcesKept
PROPERTIES
  ProgressIsFinal
  ImplementsProgress
CHECK_DEADLOCK FALSE

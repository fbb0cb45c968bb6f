SPECIFICATION Spec
CONSTANTS
  Sessions = {1}
  WindowSize = 3
  MaxAttempts = 1
  LeaseTicks = 1
  RetryTicks = 1
  MaxParallel = 1
  MaxPerSession = 1
  Tokens = {"t1", "t2"}
  MaxSeq = 5
  MaxEpoch = 1
  MaxRequests = 1
  MaxFaults = 0
INVARIANTS
  TypeOK
  WindowsDisjoint
  CursorTight
  FrontierDefined
CHECK_DEADLOCK FALSE

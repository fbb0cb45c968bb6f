SPECIFICATION FairSpec
CONSTANTS
  Sessions = {1, 2}
  WindowSize = 2
  MaxAttempts = 1
  LeaseTicks = 1
  RetryTicks = 1
  MaxParallel = 1
  MaxPerSession = 1
  Tokens = {"t1", "t2"}
  MaxSeq = 2
  MaxEpoch = 1
  MaxRequests = 0
  MaxFaults = 1
PROPERTIES
  EventuallySettled
CHECK_DEADLOCK FALSE

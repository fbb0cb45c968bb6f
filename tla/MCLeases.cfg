\* Two windows, two attempts with back-off, leases the heartbeat may fail to renew.
SPECIFICATION FairSpec
CONSTANTS
  Sessions = {1}
  WindowSize = 2
  MaxAttempts = 2
  LeaseTicks = 2
  RetryTicks = 1
  MaxParallel = 2
  MaxPerSession = 1
  Tokens = {"t1", "t2"}
  MaxSeq = 4
  MaxEpoch = 1
  MaxRequests = 0
  MaxFaults = 0
INVARIANTS
  CursorCovered
  OneLiveHolder
  ParallelCaps
PROPERTIES
  LeaseIsExclusive
  EventuallySettled
CHECK_DEADLOCK FALSE

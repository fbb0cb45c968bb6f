SPECIFICATION Spec
CONSTANTS
  Slots = {"s1"}
  MaxAttempts = 2
  MaxClaims = 2
  MaxFaults = 1
INVARIANTS
  CompletedIsRecallable
CHECK_DEADLOCK FALSE

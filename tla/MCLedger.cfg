SPECIFICATION Spec
CONSTANTS
  Slots = {"s1", "s2"}
  MaxAttempts = 2
  MaxClaims = 2
  MaxFaults = 1
INVARIANTS
  TypeOK
  CompletedIsBacked
  OwnersExist
PROPERTIES
  SettledIsFinal
  AcceptanceIsFinal
CHECK_DEADLOCK FALSE

\* A rollback that fails half way and is tried again.
CONSTANTS
  N = 2
  MaxStages = 1
  MaxFaults = 1
  HotReload = FALSE
SPECIFICATION Spec
PROPERTY RollbackKeepsOriginals
CHECK_DEADLOCK FALSE

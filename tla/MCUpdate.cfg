\* Two operations, which may overlap, of three versions, with two faults anywhere.
CONSTANTS
  MaxOps = 2
  MaxVersion = 3
  MaxFaults = 2
SPECIFICATION Spec
INVARIANTS TypeOK RuntimeNeverLost BackupAwaitsVerdict StatusIsTrue ActiveHasOwner
CHECK_DEADLOCK FALSE

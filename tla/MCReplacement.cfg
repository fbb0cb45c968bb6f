\* Two edits of one memory, other writers at every moment, two faults anywhere.
CONSTANTS
  Texts = {"a", "b"}
  MaxEdits = 2
  MaxRetries = 3
  RepairBatch = 2
  MaxFaults = 2
SPECIFICATION Spec
INVARIANTS TypeOK NeverLost HiddenIsLedgered OneRecallable CandidateIsUnique RepairSettles
CHECK_DEADLOCK FALSE

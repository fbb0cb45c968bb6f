\* Two candidates of one memory, other writers at every moment, two faults anywhere.
CONSTANTS
  Texts = {"a", "b"}
  MaxCands = 2
  MinRecall = 1
  MaxRecall = 2
  MaxRev = 3
  Summaries = {"yes", "no"}
  MaxFaults = 2
SPECIFICATION Spec
INVARIANTS TypeOK WritesAreIntended VerdictsAreTrue RecoverySettles
PROPERTIES ImplementsReview
CHECK_DEADLOCK FALSE

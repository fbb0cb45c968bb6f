\* One candidate, approved and taken back, nothing else happening.
CONSTANTS
  Texts = {"a", "b"}
  MaxCands = 1
  MinRecall = 1
  MaxRecall = 1
  MaxRev = 1
  Summaries = {"no"}
  MaxFaults = 0
SPECIFICATION Spec
INVARIANT UndisturbedReviewCompletes
CHECK_DEADLOCK FALSE

SPECIFICATION Spec
CONSTANTS
  MaxCycles = 2
  MaxEdits = 1
INVARIANTS CommittedWasVetted CommitAllowed FeedbackReaches EndReported
PROPERTIES RunEnds
CHECK_DEADLOCK FALSE

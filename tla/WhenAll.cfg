SPECIFICATION FairSpec

CONSTANTS
  N = 5

INVARIANTS
  ContinuedOnce
  AllDoneFirst
  OutcomeComplete
PROPERTIES
  WhenAllReturns
CHECK_DEADLOCK FALSE

\* Both services, two overlapping polls.
SPECIFICATION FairAttempt
CONSTANTS
  c1 = c1
  c2 = c2
  Collectors <- MCCollectors
INVARIANTS
  ForgottenWhenDrained
PROPERTIES
  CancelledReturnsNothing
  CleanupEnds
CHECK_DEADLOCK FALSE

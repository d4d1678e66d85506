\* Liveness: one page request at a time, no symmetry.
CONSTANTS
  a1 = a1
  a2 = a2
  r1 = r1
  r2 = r2
  Owner = Owner
  Saved = Saved
  None = None
  Attempts <- MCAttempts
  Requests <- MCOneRequest
SPECIFICATION FairSpec
PROPERTY
  AttemptsEnd
CHECK_DEADLOCK FALSE

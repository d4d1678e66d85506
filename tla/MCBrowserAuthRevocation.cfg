\* What the UI worker says of a logout that failed.
CONSTANTS
  a1 = a1
  a2 = a2
  r1 = r1
  r2 = r2
  Owner = Owner
  Saved = Saved
  None = None
  Attempts <- MCAttempts
  Requests <- MCRequests
SYMMETRY MCSymmetry
SPECIFICATION Spec
INVARIANT
  RevocationReported
CHECK_DEADLOCK FALSE

\* Any mode: two attempts, two page requests in flight.
CONSTANTS
  a1 = a1
  a2 = a2
  r1 = r1
  r2 = r2
  Owner = Owner
  Saved = Saved
  None = None
  Attempts <- MCAttempts
  Requests <- MCRequests
SYMMETRY MCSymmetry
SPECIFICATION Spec
INVARIANTS
  AttemptIsTimed
  CancelledNeverConnects
  ConfirmationHasSession
  StoreHoldsSession
CHECK_DEADLOCK FALSE

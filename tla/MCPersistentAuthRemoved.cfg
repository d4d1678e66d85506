\* health_status beside a confirmed disconnect, and no call cancelled.
CONSTANTS
  c1 = c1
  c2 = c2
  c3 = c3
  None = None
  MaxLogins = 2
  Uses <- MCCalls
  PersistentMethods <- LockingMethods
  Cancelled = {}
SYMMETRY MCSymmetry
SPECIFICATION PersistentSpec
INVARIANT
  RemovedCredentialStaysOut
CHECK_DEADLOCK FALSE

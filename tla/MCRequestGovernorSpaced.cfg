\* Two requests that queue behind the pacing.
CONSTANTS
  r1 = r1
  r2 = r2
  r3 = r3
  s1 = s1
  s2 = s2
  Owner = Owner
  None = None
  MaxInFlight = 2
  MaxRetries = 2
  MinInterval = 1
  Jitter = 0
  Cooldown = 2
  Retrying <- MCTwoRequests
  Requests <- MCTwoRequests
  Sessions <- MCSessions
SPECIFICATION Spec
PROPERTIES
  StartsSpaced
CHECK_DEADLOCK FALSE

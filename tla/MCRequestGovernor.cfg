\* Two slots and three requests, so that one has to queue.
CONSTANTS
  r1 = r1
  r2 = r2
  r3 = r3
  s1 = s1
  s2 = s2
  Owner = Owner
  None = None
  MaxInFlight = 2
  MaxRetries = 2
  MinInterval = 1
  Jitter = 0
  Cooldown = 2
  Retrying <- MCOneRetry
  Requests <- MCRequests
  Sessions <- MCSessions
SPECIFICATION FairSpec
INVARIANTS
  OpenUnderRequests
  EndedSessionSentOnce
PROPERTIES
  PublicStartsPaced
  EveryRequestEnds
CHECK_DEADLOCK FALSE

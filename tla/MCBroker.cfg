\* Three calls in either mode, each of which may be cancelled again and again.
SPECIFICATION SpecBroker
CONSTANTS
  c1 = c1
  c2 = c2
  c3 = c3
  w1 = w1
  w2 = w2
  NoCall = NoCall
  NoWorker = NoWorker
  NoFrame = NoFrame
  None = None
  MaxLogins = 2
  Workers <- MCWorkers
  Calls <- MCCalls
  Uses <- MCCalls
  PersistentMethods <- LockingMethods
  Cancelled <- MCCalls
SYMMETRY Symmetry
CONSTRAINT Uncrossed
CHECK_DEADLOCK FALSE
INVARIANTS
  AnswersOwnCommand
  QuietWhenUnlocked
  NoStrayWorker
  NoReadDuringDisconnect
  ClosedForGood
  DisconnectIsExclusive
  RemovedStaysRemoved
  NoLostUpdate

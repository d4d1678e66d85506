\* Liveness and the contract: two calls of any method in either mode, no symmetry.
SPECIFICATION FairBroker
CONSTANTS
  c1 = c1
  c2 = c2
  c3 = c3
  w1 = w1
  w2 = w2
  NoCall = NoCall
  NoWorker = NoWorker
  NoFrame = NoFrame
  None = None
  MaxLogins = 2
  Workers <- MCWorkers
  Calls <- MCTwoCalls
  Uses <- MCTwoCalls
  PersistentMethods <- EveryMethod
  Cancelled <- MCTwoCalls
CHECK_DEADLOCK FALSE
PROPERTIES
  KeepsContract
  EveryCallEnds
  EveryPersistentCallEnds

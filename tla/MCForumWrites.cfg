SPECIFICATION Spec
CONSTANTS
  c1 = c1  c2 = c2  c3 = c3  c4 = c4  w1 = w1
  Calls <- MCCalls
  Workers <- MCWorkers
  NoCall = NoCall
  NoWorker = NoWorker
SYMMETRY Symmetry
INVARIANTS PostedOnce ReceiptIsOwn RetryIsSafe
CHECK_DEADLOCK FALSE

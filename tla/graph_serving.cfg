SPECIFICATION Spec
CONSTANTS
  t1 = t1
  t2 = t2
  None = None
  Threads <- TwoThreads
  Order <- Bridge
  Versions = {1, 2}
  MaxEvents = 2
  Bolts = 4
INVARIANTS AnswersFromPinnedRegistry OneClientPerHandle
PROPERTY RequestsEnd
CHECK_DEADLOCK FALSE

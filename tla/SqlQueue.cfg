SPECIFICATION Spec
CONSTANTS
  t1 = t1
  t2 = t2
  s1 = s1
  Thread <- TwoThreads
  Session <- Sessions
  NoSession = NoSession
  QueueCount = 2
  Number <- Numbers
  MaxBatch = 1
  MinBatch = 0
  MaxTickets = 2
  MaxLosses = 1
INVARIANTS
  SessionOrder
PROPERTIES
  ImplementsJournal
CHECK_DEADLOCK FALSE

SPECIFICATION FairSpec
CONSTANTS
  t1 = t1
  t2 = t2
  s1 = s1
  Thread <- OneThread
  Session <- Sessions
  NoSession = NoSession
  QueueCount = 1
  Number <- Numbers
  MaxBatch = 1
  MinBatch = 0
  MaxTickets = 3
  MaxLosses = 2
INVARIANTS
  Accounted
  NoTransactionLeft
PROPERTIES
  OnlyBreaksLoseWork
  Drains
CHECK_DEADLOCK FALSE

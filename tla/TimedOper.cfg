SPECIFICATION FairSpec
CONSTANTS
  c1 = c1
  c2 = c2
  Call <- Calls
  Request <- Requests
  MaxCCRHandlers = 1
  NConn = 2
INVARIANTS
  NoUseAfterDelete
  AnswersAreWhole
  
  CounterExact
PROPERTIES
  CallsReturn
  Quiesces
CHECK_DEADLOCK FALSE

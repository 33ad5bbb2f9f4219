CONSTANTS
  Session = {s1}
  Rule = {r1}
  Thread = {t1, t2}
  OperCount = 2
  NoTask = NoTask
  MaxSent = 2
SPECIFICATION FairSpec
INVARIANTS TypeOK TakenOnce Agreement
PROPERTIES TakenIsApplied FiniReturns
CHECK_DEADLOCK FALSE

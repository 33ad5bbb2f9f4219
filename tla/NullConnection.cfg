SPECIFICATION Spec
CONSTANTS
  Thread = {t1, t2}
  Session = {"u", "p"}
  NoSession = NoSession
  DialectOf <- MCDialectOf
  Message <- MCLocationMessage
  Profiles <- MCNoRules
  DefaultRule <- MCDefaultRule
  Known <- MCKnown
  Quota <- MCQuota
  Opened = {}
  MaxRequests = 3
  MaxChanges = 0
  MaxWaiting = 1
SYMMETRY Symmetry
CHECK_DEADLOCK FALSE
INVARIANT Survives

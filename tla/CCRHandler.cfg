SPECIFICATION Spec
CONSTANTS
  Thread = {t1, t2}
  Session = {"u"}
  NoSession = NoSession
  DialectOf <- MCDialectOf
  Message <- MCCoreMessage
  Profiles <- MCProfiles
  DefaultRule <- MCDefaultRule
  Known <- MCKnown
  Quota <- MCQuota
  Opened = {"u"}
  MaxRequests = 3
  MaxChanges = 1
  MaxWaiting = 1
SYMMETRY Symmetry
CHECK_DEADLOCK FALSE
INVARIANTS RulesAgree EndLeavesNothing 
PROPERTIES RefreshConverges

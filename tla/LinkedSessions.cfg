SPECIFICATION Spec
CONSTANTS
  Thread = {t1, t2}
  Session = {"u", "p"}
  NoSession = NoSession
  DialectOf <- MCDialectOf
  Message <- MCLinkedMessage
  Profiles <- MCNoRules
  DefaultRule <- MCDefaultRule
  Known <- MCKnown
  Quota <- MCQuota
  Opened = {}
  MaxRequests = 3
  MaxChanges = 0
  MaxWaiting = 1
SYMMETRY Symmetry
CHECK_DEADLOCK FALSE
INVARIANTS TypeOK RulesAgree TerminationReaches
PROPERTIES KeepsRegistry

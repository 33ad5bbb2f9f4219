SPECIFICATION FairSpec
CONSTANTS
  c1 = c1
  c2 = c2
  c3 = c3
  c4 = c4
  Client <- Clients
  NConn = 3
  NoOne = NoOne
INVARIANTS
  AlwaysFound
  TokensMatchFree
  OwnersAgree
PROPERTIES
  ScanEnds
  ImplementsConnPool

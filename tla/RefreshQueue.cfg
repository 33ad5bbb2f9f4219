SPECIFICATION Spec
CONSTANTS
  u1 = u1
  u2 = u2
  x1 = x1
  a1 = a1
  p1 = p1
  p2 = p2
  Session <- Sessions
  Subscriber = {x1}
  Address = {a1}
  Peer = {p1, p2}
  Core <- Gateway
  Procera <- Beside
  OwnerOf <- Owner
  AddressOf <- AddressMap
  PeerOf <- PeerMap
  Listed = {p1, p2}
  Entitled = {x1}
  NoSession = NoSession
  Look4StalledSession = TRUE
  OperateRefreshQueue = TRUE
  RowRequest <- RefreshRows
  MaxAsked = 2
  MaxRows = 1
  MaxRestarts = 1
INVARIANTS
  TypeOK
  AskedOnce
PROPERTIES
  RowServed
CHECK_DEADLOCK FALSE

SPECIFICATION FairSpec
CONSTANTS
  u1 = u1
  u2 = u2
  x1 = x1
  a1 = a1
  p1 = p1
  p2 = p2
  Session <- OneSession
  Subscriber = {x1}
  Address = {a1}
  Peer = {p1, p2}
  Core <- OneSession
  Procera = {}
  OwnerOf <- Owner
  AddressOf <- AddressMap
  PeerOf <- PeerMap
  Listed = {p1, p2}
  Entitled = {x1}
  NoSession = NoSession
  Look4StalledSession = TRUE
  OperateRefreshQueue = TRUE
  RowRequest <- BothRows
  MaxAsked = 1
  MaxRows = 1
  MaxRestarts = 1
PROPERTIES
  AbortReaches
  RowsDrain
CHECK_DEADLOCK FALSE

SPECIFICATION Spec
CONSTANTS
  u1 = u1
  u2 = u2
  e1 = e1
  e2 = e2
  a1 = a1
  a2 = a2
  x1 = x1
  x2 = x2
  Core <- Cores
  Edge <- OneEdge
  Address <- Addresses
  Subscriber <- Subscribers
  NoAddress = NoAddress
  NoInfo = NoInfo
  NoSession = NoSession
  MaxListed = 2
INVARIANTS
  TypeOK
  LinksAgree
  IndexesCover
PROPERTIES
  RemovalForgets
  ImplementsRegistry
SYMMETRY Symmetry

\* The equals index over two positions of a service: a stub that could answer is lost.
CONSTANTS
  Clients = {c1, c2}
  Ids = {1, 2, 3}
  NoId = 0
  Global = "global"
  Sessions = {"s1"}
  Services = {"p.S", "S", "T"}
  Short <- MCShort
  Methods = {"M"}
  Inputs <- MCInputs
  Catalog <- MCCatalog
  Queries <- MCQueries
  NoStub = NoStub
  NoQuery = NoQuery
  MaxCalls = 2
  MaxWrites = 3
SPECIFICATION Spec
INVARIANT NeverMissed
CHECK_DEADLOCK FALSE

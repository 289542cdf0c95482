\* Two concurrent searches among puts, deletes and clears.
CONSTANTS
  Clients = {c1, c2}
  Ids = {1, 2, 3}
  NoId = 0
  Global = "global"
  Sessions = {"s1"}
  Services = {"p.S", "S", "T"}
  Short <- MCShort
  Methods = {"M"}
  Inputs <- MCInputs
  Catalog <- MCCatalog
  Queries <- MCQueries
  NoStub = NoStub
  NoQuery = NoQuery
  MaxCalls = 2
  MaxWrites = 3
SPECIFICATION FairSpec
INVARIANTS
  TypeOK
  TimesRespected
  NoFalseMiss
  BestAvailable
  SessionsSeparate
PROPERTY SearchesFinish
\* The bounds on calls and writes run out.
CHECK_DEADLOCK FALSE

\* Storage, its indexes and its reads over a catalog of seven stubs.
CONSTANTS
  Services = {"p.S", "S"}
  Methods = {"M", "N"}
  Truncated <- MCTruncated
  Global = ""
  Sessions = {"s1"}
  Catalog <- MCCatalog
  InternalStubs <- MCInternalStubs
  InitialInternal <- MCInitialInternal
  NilId = 0
  FreshIds = {4}
  Queries <- MCQueries
  Camel <- MCCamel
  Snake <- MCSnake
  Regex <- MCRegex
  Literal <- MCLiteral
  Globs <- MCGlobs
  Text <- MCText
  NoText = NoText
  Samples <- MCSamples
  MaxBatch = 2
SPECIFICATION Spec
INVARIANTS
  IndexesAgree
  ReadsExact
  IndexCompleteAtUsable
  DeletesExact
  ListsPairOff
PROPERTY ImplementsTable

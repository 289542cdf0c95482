\* Gateways, registry, history, start-up and shutdown, each by itself.
SPECIFICATION PartsSpec
CONSTANTS
  Requests <- MCRequests
  Limit = 3
  MaxOut = 2
  FilePool <- MCFilePool
  Lookers = {1, 2}
  MaxGen = 3
  NoView = NoView
  Sessions = {"s1", "s2"}
  Global = ""
  Messages <- MCMessages
  Payloads <- MCPayloads
  Redacted <- MCRedacted
  Marker <- MCMarker
  Overhead = 1
  limitBytes = 9
  messageMaxBytes = 5
  MaxInt = 5
  MaxSlice = 4
  Operators = {o1}
  MaxCalls = 3
\* A request is answered once, the bound on calls runs out, the process exits.
CHECK_DEADLOCK FALSE
INVARIANTS
  ResponseFramed
  RequestDelivered
  BudgetKept
  StoredMessagesClean
  PagesExact
  ReadyAfterLoad
  Drained
PROPERTIES
  LookupsCurrent
  EvictsOldestOnly
  ShutdownCompletes

SPECIFICATION ServicesSpec
CONSTANTS
  Names = {a, b}
  Root = "root"
  Messages = {m1, m2}
  RootRanks = {1}
  MaxOps = 4
  MaxBeside = 3
  MaxMishaps = 1
  Workers = {a, b, x}
  Here = {a, b}
  Catalogs <- MCCatalogs
  BuiltIn <- MCBuiltIn
  Default = "glm"
  MaxUses = 3
  MaxTokens = 3
  MaxLosses = 1
  Texts = {"m"}
  Functions = {"f", "g"}
  Searches = {"w"}
  Outputs <- MCOutputs
  MaxRetries = 1
  McpServers <- MCServers
  Required = {"t"}
  McpPages <- MCPages
  McpBase <- MCBase
  MaxListed = 3
  MaxCalls = 1
SYMMETRY MCSymmetry
INVARIANTS ServicesTypeOK Authority WalkSuffices ParentAnswered AtMostOnce
INVARIANTS SavedTokenIsLive ListedIsAccepted StreamFaithful DeliveredOnce McpComplete
PROPERTIES ClosedStaysClosed RefreshReplacesItsOwn
CHECK_DEADLOCK FALSE

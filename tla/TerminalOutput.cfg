CONSTANTS
  None = None
  Failed = Failed
  Clients = {"c1"}
  Bytes = {"a", "b"}
  Outcomes = {0}
  Initial <- OutputInitial
  Definitions <- NoDefinitions
  Kinds = {}
  Acknowledges = FALSE
  MaxMonitors = 3
  MaxEvents = 8
  Retained = 3
  MaxTime = 0
  MaxOutput = 4
  MaxEventId = 9
  MaxCrashes = 0
SPECIFICATION Spec
INVARIANTS
  MatchSound
PROPERTIES
  OutputHeard
CHECK_DEADLOCK FALSE

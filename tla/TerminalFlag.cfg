CONSTANTS
  None = None
  Failed = Failed
  Clients = {"c1", "c2"}
  Bytes = {}
  Outcomes = {}
  Initial <- ExitInitial
  Definitions <- NoDefinitions
  Kinds = {}
  Acknowledges = FALSE
  MaxMonitors = 2
  MaxEvents = 8
  Retained = 3
  MaxTime = 0
  MaxOutput = 0
  MaxEventId = 9
  MaxCrashes = 0
SPECIFICATION Spec
INVARIANTS
  MonitorsWatched
CHECK_DEADLOCK FALSE

CONSTANTS
  None = None
  Failed = Failed
  Clients = {"c1", "c2"}
  Bytes = {}
  Outcomes = {0}
  Initial <- EventInitial
  Definitions <- EventDefinitions
  Kinds = {"add", "update", "pause", "resume", "remove"}
  Acknowledges = TRUE
  MaxMonitors = 2
  MaxEvents = 2
  Retained = 2
  MaxTime = 0
  MaxOutput = 0
  MaxEventId = 1
  MaxCrashes = 0
SPECIFICATION Spec
INVARIANTS
  TypeOK
  EventLogComplete
  EndedForGood
CHECK_DEADLOCK FALSE

CONSTANTS
  None = None
  Failed = Failed
  Clients = {"c1"}
  Bytes = {"a"}
  Outcomes = {}
  Initial <- TimerInitial
  Definitions <- NoDefinitions
  Kinds = {"pause","resume"}
  Acknowledges = FALSE
  MaxMonitors = 2
  MaxEvents = 8
  Retained = 3
  MaxTime = 4
  MaxOutput = 1
  MaxEventId = 2
  MaxCrashes = 1
SPECIFICATION FairSpec
INVARIANTS
  QuietSound
PROPERTIES
  LateMonitorsOnlyExpire OrphansEnd
CHECK_DEADLOCK FALSE

CONSTANTS
  Rules <- LayeredRules
  Batches <- MixedBatches
  MaxText = 1
  MaxSteps = 2
  Models = {"a", "b"}
  DefaultModel = "a"
  Requests <- CancelOnly
  MaxMessages = 2
  MaxInbox = 1
SPECIFICATION Spec
PROPERTY VisibleTextKept
CHECK_DEADLOCK FALSE

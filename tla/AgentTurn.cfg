CONSTANTS
  Rules <- LayeredRules
  Batches <- MixedBatches
  MaxText = 1
  MaxSteps = 2
  Models = {"a", "b"}
  DefaultModel = "a"
  Requests <- CancelOnly
  MaxMessages = 2
  MaxInbox = 1
SPECIFICATION Spec
INVARIANTS
  CallsAnswered
  TurnKept
PROPERTY StopsWhenCancelled
CHECK_DEADLOCK FALSE

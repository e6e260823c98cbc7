CONSTANTS
  Rules <- AskEtc
  Batches <- PlainBatches
  MaxText = 1
  MaxSteps = 1
  Models = {"a", "b"}
  DefaultModel = "a"
  Requests <- AllRequests
  MaxMessages = 3
  MaxInbox = 1
SPECIFICATION Spec
INVARIANT AnswerDispatchable
CHECK_DEADLOCK FALSE

SPECIFICATION SafeSpec
CONSTANTS
  MaxUsers = 2
  MaxBatches = 1
  MaxCalls = 2
  Modes = {"all", "one-at-a-time"}
  Disruptions = {"raise", "cancel", "reset", "clear", "abort", "mode"}
  Waiters = {}
INVARIANTS IInv DeliveredInOrder ResultsInPlace IdleIsClean HandoffAnswered
PROPERTIES FailedReplyIsFinal
CHECK_DEADLOCK FALSE

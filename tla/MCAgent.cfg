SPECIFICATION SafeSpec
CONSTANTS
  MaxUsers = 3
  MaxBatches = 2
  MaxCalls = 2
  Modes = {"all", "one-at-a-time"}
  Disruptions = {}
  Waiters = {}
INVARIANTS NothingLost RequestIsTranscript RequestWellFormed PendingIsOpen PolledOnce
PROPERTIES SteeringFirst LifecycleKept
CHECK_DEADLOCK FALSE

SPECIFICATION SafeSpec
CONSTANTS
  MaxUsers = 1
  MaxBatches = 1
  MaxCalls = 2
  Modes = {"one-at-a-time"}
  Disruptions = {}
  Waiters = {}
INVARIANT TerminateStopsRun
CHECK_DEADLOCK FALSE

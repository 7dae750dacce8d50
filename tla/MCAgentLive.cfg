SPECIFICATION Spec
CONSTANTS
  MaxUsers = 2
  MaxBatches = 1
  MaxCalls = 2
  Modes = {"one-at-a-time"}
  Disruptions = {"raise", "cancel", "giveUp"}
  Waiters = {w1, w2}
PROPERTIES RunEnds
CHECK_DEADLOCK FALSE

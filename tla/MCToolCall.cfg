SPECIFICATION Spec
CONSTANTS
  MaxUpdates = 3
  MaxListener = 2
  Disruptions = {"raise", "fail", "cancel", "leave", "late"}
INVARIANTS IInv HonestEnd
PROPERTIES UpdatesInside CallEnds
CHECK_DEADLOCK FALSE

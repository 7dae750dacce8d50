SPECIFICATION SafeSpec
CONSTANTS
  Apps = {a1, a2}
  Branches = {main, side}
  MaxAsked = 4
  Sizes = {1, 2}
  Disruptions = {"overflow", "cancel", "die"}
  Enabled = TRUE
  Window = 4
  Reserve = 1
  Keep = 2
INVARIANTS NothingForgotten
PROPERTIES BoundaryKept RecentKept CompactionFits BranchIsolated
CHECK_DEADLOCK FALSE

SPECIFICATION Spec
CONSTANTS
  Apps = {a1, a2}
  Branches = {main}
  MaxAsked = 3
  Sizes = {2}
  Disruptions = {"overflow", "tear", "cancel", "override", "die"}
  Enabled = TRUE
  Window = 3
  Reserve = 1
  Keep = 1
INVARIANTS IInv StoredOnce
PROPERTIES PromptEnds
CHECK_DEADLOCK FALSE

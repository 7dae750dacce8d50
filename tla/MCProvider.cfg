SPECIFICATION Spec
CONSTANTS
  Providers = {"openai", "anthropic"}
  MaxIndex = 2
  MaxSent = 5
  Disruptions = {"break", "cut", "late", "blank"}
INVARIANTS IInv MessageAsSent
PROPERTIES SnapshotsGrow
CHECK_DEADLOCK FALSE

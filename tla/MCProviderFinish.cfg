SPECIFICATION Spec
CONSTANTS
  Providers = {"anthropic"}
  MaxIndex = 1
  MaxSent = 3
  Disruptions = {}
INVARIANT ToolUseReported
CHECK_DEADLOCK FALSE

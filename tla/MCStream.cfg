SPECIFICATION Spec
CONSTANTS
  Classes = {"agent", "assistant", "proxy"}
  Kinds = {"text", "tool"}
  Waiters = {w1, w2}
  MaxSent = 4
  MaxIndex = 1
  Disruptions = {"raise", "stray", "cancel"}
INVARIANTS TypeOK FailureHasCause Assembled
PROPERTIES PromiseKept Released
CHECK_DEADLOCK FALSE

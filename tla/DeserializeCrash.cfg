SPECIFICATION Spec
CONSTANTS
  Addr = {a1, a2}
  Null = null
  MaxTokens = 5
INVARIANT NeverCrashes
CHECK_DEADLOCK FALSE

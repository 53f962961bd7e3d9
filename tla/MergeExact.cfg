SPECIFICATION Spec
CONSTANTS
  Null = null
  Addr <- MCAddr
  Forests <- MCForests
PROPERTY ExactMatchNeverConflicts
CHECK_DEADLOCK FALSE

SPECIFICATION Spec
CONSTANTS
  Null = null
  Addr <- MCAddr
  Forests <- MCForests
INVARIANTS TypeOK MergeIsUnion SameNameOnlyInherited ConflictIsReal InputsUntouched OneOwner
PROPERTIES Returns
CHECK_DEADLOCK FALSE

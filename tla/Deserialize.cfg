SPECIFICATION Spec
CONSTANTS
  Addr = {a1, a2, a3, a4, a5}
  Null = null
  MaxTokens = 10
INVARIANTS TypeOK OneOwner CleanEnd AcceptsDocuments TreeFaithful
PROPERTIES Returns
CHECK_DEADLOCK FALSE

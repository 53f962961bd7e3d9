SPECIFICATION Spec
CONSTANTS
  Ordinary <- MCOrdinary
  Files <- MCFiles
  MaxChars = 4
  FirstCap = 2
  Trees <- MCTrees
INVARIANTS TypeOK BufferFits WordVerbatim LexesGrammar RoundTrip
PROPERTIES Returns
CHECK_DEADLOCK FALSE

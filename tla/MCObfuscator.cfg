SPECIFICATION Spec
CONSTANTS
  flag = flag  helper = helper  node = node  guard = guard  write = write
  INT = INT  DUNDER = DUNDER
  x = x  y = y  z = z  u = u
  main = main  ser = ser
  Sorted <- MCSorted
  Sources <- MCSources
  NotVariables <- MCNotVariables
  NotMacros <- MCNotMacros
  Draws <- MCDraws
  Flag = flag
  FlagFile <- FlagC
  Leftover <- MCLeftover
SYMMETRY Symmetric
INVARIANTS TypeOK RenamingFaithful AnswerRight CommitLast
CHECK_DEADLOCK FALSE

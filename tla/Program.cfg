SPECIFICATION MainSpec
CONSTANTS
  MaxArgs = 3
  Paths = {a, b, c}
  Dash = dash
  Insane = insane
  FirstArgs = 1
  MaxOptions = 2
INVARIANTS TypeOK ArgsFit CommandLineKept ReleasedOnce UsesOnlyLive CleanExit SuccessIsComplete StatusNamesStage
PROPERTIES MainReturns ImplementsJob
CHECK_DEADLOCK FALSE

SPECIFICATION Spec
CONSTANTS
  MaxArgs = 1
  Paths = {a, b}
  Dash = dash
  Insane = insane
INVARIANTS StreamErrorsReported
CHECK_DEADLOCK FALSE

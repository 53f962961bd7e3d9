SPECIFICATION Spec
CONSTANTS
  Tabs = {t1, t2}
  RunIds = {r1, r2}
  NoRun = norun
  KeepRuns = FALSE
  ChallengeTime = 2
  TicksPerSecond = 2
  MaxTime = 5
  MaxChallenges = 1
SYMMETRY TabsAndRuns
INVARIANTS FullWindow

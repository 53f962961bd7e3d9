SPECIFICATION Spec
CONSTANTS
  Tabs = {t1, t2}
  RunIds = {r1, r2}
  NoRun = norun
  KeepRuns = FALSE
  ChallengeTime = 2
  TicksPerSecond = 1
  MaxTime = 3
  MaxChallenges = 1
SYMMETRY TabsAndRuns
INVARIANTS SingleAttempt

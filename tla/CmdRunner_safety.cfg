SPECIFICATION RunnerSpec
CONSTANTS
  s1 = s1
  s2 = s2
  None = None
  Ids <- TwoIds
  MAX_KEEP = 1
  MaxRuns = 2
  MaxPrompts = 2
  MaxClock = 1
  MaxBirths = 3
  MaxDeltas = 0
  TidyCli = FALSE
SYMMETRY Symmetry
PROPERTY SettlingIsPublished
INVARIANTS
  OutcomeExplained
  RunningHasProcess
  StoreBounded

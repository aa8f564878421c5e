SPECIFICATION LiveSpec
CONSTANTS
  s1 = s1
  s2 = s2
  c1 = c1
  c2 = c2
  None = None
  Ids <- TwoIds
  Clients <- OneClient
  MAX_KEEP = 1
  MaxRuns = 2
  MaxPrompts = 2
  MaxClock = 2
  MaxBirths = 3
  MaxDeltas = 0
  TidyCli = TRUE
INVARIANTS
  NothingTwice
PROPERTIES
  AnnouncedIsSettled
  RunSettles

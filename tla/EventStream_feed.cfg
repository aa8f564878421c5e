SPECIFICATION Spec
CONSTANTS
  s1 = s1
  s2 = s2
  c1 = c1
  c2 = c2
  None = None
  Ids <- TwoIds
  Clients <- TwoClients
  MAX_KEEP = 1
  MaxRuns = 1
  MaxPrompts = 1
  MaxClock = 2
  MaxBirths = 3
  MaxDeltas = 2
  TidyCli = TRUE
SYMMETRY Symmetry
INVARIANTS
  StreamTypeOK
  DeltaNumbersGrow
  StreamsAgree
PROPERTY WellFormedStories

SPECIFICATION Spec
CONSTANTS
  s1 = s1
  s2 = s2
  c1 = c1
  c2 = c2
  None = None
  Ids <- OneId
  Clients <- OneClient
  MAX_KEEP = 1
  MaxRuns = 2
  MaxPrompts = 2
  MaxClock = 0
  MaxBirths = 2
  MaxDeltas = 1
  TidyCli = FALSE
INVARIANT NoStaleOutcome
PROPERTY FirstOutcomeIsTold

SPECIFICATION Spec
CONSTANTS
  Versions = {v1, v2, v3}
  NoVersion = NoVersion
INVARIANT FailureKeepsCurrent

SPECIFICATION FairSpec
CONSTANTS
  Versions = {v1, v2, v3}
  NoVersion = NoVersion
INVARIANTS
  InstallingIsShown
  OnePlatformCall
  ShownIsStaged
PROPERTIES
  OfferIsKept
  WorkResolves

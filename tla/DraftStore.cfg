SPECIFICATION FairSpec
CONSTANTS
  p1 = p1
  p2 = p2
  k1 = k1
  k2 = k2
  b1 = b1
  NoBlob = NoBlob
  NoDoc = NoDoc
  Pages <- OnePage
  Keys <- TwoKeys
  Blobs <- NoBlobs
  Hosts <- BothHosts
  MaxWrites = 2
CHECK_DEADLOCK FALSE
PROPERTIES
  IsDurableMap
  QuitLosesNothing
  WordsReachDisk

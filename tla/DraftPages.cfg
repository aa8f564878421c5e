SPECIFICATION Spec
CONSTANTS
  p1 = p1
  p2 = p2
  k1 = k1
  k2 = k2
  b1 = b1
  NoBlob = NoBlob
  NoDoc = NoDoc
  Pages <- TwoPages
  Keys <- OneKey
  Blobs <- OneBlob
  Hosts <- BothHosts
  MaxWrites = 2
CHECK_DEADLOCK FALSE
INVARIANTS
  RefsResolve
  LastWordStands
SYMMETRY Symmetry

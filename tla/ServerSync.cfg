SPECIFICATION MCSpec
CONSTANTS
  k1 = k1
  k2 = k2
  d1 = d1
  d2 = d2
  f1 = f1
  f2 = f2
  Hello = Hello
  Keys <- TwoKeys
  Others <- TwoDirs
  Dirs <- TwoDirs
  Fragments <- TwoFragments
  TakeCount = 1
  MaxStarts = 3
  MaxQueue = 3
CHECK_DEADLOCK FALSE
INVARIANTS
  OneStream
  TypeOK
PROPERTIES
  HeardInOrder
  Reconnects
  CatchesUp

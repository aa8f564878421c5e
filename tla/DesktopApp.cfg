SPECIFICATION FairSpec
CONSTANTS
  w1 = w1
  w2 = w2
  l1 = l1
  NoWindow = NoWindow
  Windows <- TwoWindows
  Links <- OneLink
  Platforms <- TwoPlatforms
  MaxWaiting = 2
INVARIANTS
  RestoresWhatWasOpen
  LinksAccountedFor
  NoDaemonLeft
PROPERTIES
  InitializationResolves
  RelaunchEnds

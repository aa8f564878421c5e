SPECIFICATION FairSpec
CONSTANTS
  s1 = s1
  s2 = s2
  Servers <- TwoServers
  Quiet <- OneServer
  MaxCalls = 2
  MaxProcs = 2
INVARIANTS
  HandleIsLive
  ReadyIsServed
  NothingAstray
  RemovedStaysDown
  CliReplacedWhileDown
PROPERTIES
  StoppedMeansDown
  StartingResolves

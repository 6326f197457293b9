SPECIFICATION FairSpec
CONSTANTS
  Pids = {p1, p2, p3}
  NoPid = NoPid
  Missing = Missing
  Blank = Blank
  MaxRuns = 3
  Crashes = TRUE
INVARIANTS
  TypeOK
  NamedServer
  CleanExit
  StoppedIsOut
PROPERTIES
  StopEnds
CHECK_DEADLOCK FALSE

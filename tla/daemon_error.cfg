SPECIFICATION Spec
CONSTANTS
  Pids = {p1, p2}
  NoPid = NoPid
  Missing = Missing
  Blank = Blank
  MaxRuns = 2
  Crashes = FALSE
INVARIANTS
  ErrorMeansDown
CHECK_DEADLOCK FALSE

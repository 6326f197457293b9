SPECIFICATION Spec
CONSTANTS
  web = web
  six = six
  d1 = d1
  d2 = d2
  d6 = d6
  o1 = o1
  o2 = o2
  none = none
  None = none
  Services = {web, six}
  Dests = {d1, d2, d6}
  Options = {o1, o2}
  Default = o1
  V4 = {web, d1, d2}
  WithPe = {six}
  Builds = {"sockopt", "netlink"}
  Callers <- MCCallers
  Tables0 <- MCTables0
  Word = 2
  Counts = {3}
  ServiceList <- MCServiceList
  DestList <- MCDestList
  MaxLoads = 2
INVARIANTS
  TypeOK
  TwoStrikes
  ExactServices
  ExactDests
  ExactDaemons
  InBounds
PROPERTIES
  ImplementsIpvsTable
CHECK_DEADLOCK FALSE

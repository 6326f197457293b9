SPECIFICATION Spec
CONSTANTS
  c1 = c1
  c2 = c2
  c3 = c3
  noConn = noConn
  noEntry = noEntry
  noAddr = noAddr
  None = noConn
  NoEntry = noEntry
  NoAddr = noAddr
  Addr4 <- MCAddr4
  Addr6 <- MCAddr6
  Digits <- MCDigits
  InetAton <- MCInetAton
  InetPton <- MCInetPton
  Resolver <- MCResolver
  Strtol <- MCStrtol
  TcpServices <- MCServices
  Destinations <- MCDestinations
  Vip <- MCVip
  Conns = {c1, c2}
  Threads = 2
  Requests <- ServiceRequests
  Changes <- MCChanges
  WriteThrows = TRUE
  OnThrow = {"swallow", "abort"}
SYMMETRY Symmetry2
INVARIANTS
  TypeOK
  MutexDiscipline
  OwnAddress
PROPERTIES
  LeakIsFinal
  ImplementsWeightService

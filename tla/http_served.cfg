SPECIFICATION FairSpec
CONSTANTS
  c1 = c1
  c2 = c2
  c3 = c3
  noConn = noConn
  noEntry = noEntry
  noAddr = noAddr
  None = noConn
  NoEntry = noEntry
  NoAddr = noAddr
  Addr4 <- MCAddr4
  Addr6 <- MCAddr6
  Digits <- MCDigits
  InetAton <- MCInetAton
  InetPton <- MCInetPton
  Resolver <- MCResolver
  Strtol <- MCStrtol
  TcpServices <- MCServices
  Destinations <- MCDestinations
  Vip <- MCVip
  Conns = {c1, c2, c3}
  Threads = 2
  Requests <- ServedRequests
  Changes <- NothingElse
  WriteThrows = FALSE
  OnThrow = {"swallow", "abort"}
PROPERTIES
  Served

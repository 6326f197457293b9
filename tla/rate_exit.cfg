SPECIFICATION Spec
CONSTANTS
  noEntry = noEntry
  noAddr = noAddr
  NoEntry = noEntry
  NoAddr = noAddr
  Addr4 <- MCAddr4
  Addr6 <- MCAddr6
  Digits <- MCDigits
  InetAton <- MCInetAton
  InetPton <- MCInetPton
  Resolver <- MCResolver
  Strtol <- MCStrtol
  TcpServices <- MCServices
  Destinations <- MCDestinations
  Args <- MCArgs
  Tables <- MCTables
INVARIANTS
  TypeOK
  Initialised
  ExitTells
CHECK_DEADLOCK FALSE

SPECIFICATION Spec
CONSTANTS
  CommandLines <- MCCommandLines
  FileSystems <- MCFileSystems
  Unreadable = Unreadable
  LowerCase <- MCLowerCase
  Atoi <- MCAtoi
  DefaultFile <- Default
INVARIANTS
  ErrorsToSyslogOnly
CHECK_DEADLOCK FALSE

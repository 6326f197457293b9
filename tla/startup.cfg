SPECIFICATION Spec
CONSTANTS
  CommandLines <- MCCommandLines
  FileSystems <- MCFileSystems
  Unreadable = Unreadable
  LowerCase <- MCLowerCase
  Atoi <- MCAtoi
  DefaultFile <- Default
INVARIANTS
  TypeOK
  OptionsRule
  Precedence
  WholeFile
  Judged
CHECK_DEADLOCK FALSE

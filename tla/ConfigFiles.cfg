CONSTANTS
  Null = Null
  IntLimit = 8
  ClockBack = 3
  LineMax = 18
  PathMax = 6
  Kinds = {"entry", "client", "server"}
  FileNames <- MCNames
  Stats <- MCStats
  Clock <- MCClock
  BaseDirs <- MCBaseDirs
  Dirs <- MCDirs
  Patterns <- MCPatterns
  Passwords <- MCPasswords
  HandWritten <- MCHandWritten
  NameMax = 10
  DirMax = 30
  BufferSize = 25
  MaxEdits <- MCMaxEdits
SPECIFICATION Spec
INVARIANTS
  ReadBack
  SkipsAgree
  RightPlace
CHECK_DEADLOCK FALSE

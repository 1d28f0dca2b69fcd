SPECIFICATION Spec
CONSTANTS
  StreamLength = 6
  BufferSize = 3
  CR = "cr"
  LF = "lf"
  Character <- MCCharacter
  Space <- MCSpace
  GetName <- MCGet
  StatsName <- MCStats
  LogLevelName <- MCLogLevel
  QuitName <- MCQuit
  Filled <- MCFilled
  Streams <- MCStreams
INVARIANT TypeOK
INVARIANT RemainderIsRest
PROPERTY ImplementsLines
PROPERTY AllAnswered
CHECK_DEADLOCK FALSE

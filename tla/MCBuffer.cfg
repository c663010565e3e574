CONSTANTS
  Byte <- MCByte
  Zero = 0
  kCheapPrepend = 2
  kInitialSize = 2
  InitialSize = 1
  ExtraSize = 2
  Data <- MCData
  Ints <- MCInts
  CR = 1
  LF = 2
  Counts <- MCCounts
  MaxSize = 7
SPECIFICATION Spec
PROPERTIES ContentSpec OperationsExact
CHECK_DEADLOCK FALSE

CONSTANTS
  BuffSize = 2
  Lengths = {1, 2, 3}
  MaxAppends = 6
  DropAbove = 1
  CheckEveryN = 2
  FlushElapses = TRUE
  Null = Null
SPECIFICATION Spec
INVARIANTS AssertionsHold AtMostTwoBuffers NoLineLost
PROPERTIES LineIsWritten StopReturns
CHECK_DEADLOCK FALSE

CONSTANTS
  RollSize = 3
  FlushInterval = 1
  CheckEveryN = 2
  RollPeriod = 2
  Uninit <- MCUninit
  OpenMayFail = TRUE
  DiskMayFill = TRUE
  MaxTime = 3
  MaxAppends = 4
SPECIFICATION Spec
INVARIANTS NoLineLost FilesDistinct RollSizeRespected PeriodRespected
CHECK_DEADLOCK FALSE

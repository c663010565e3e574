CONSTANTS
  N = 2
  Caller = {c1, c2}
  Task = {k1, k2, k3}
  NoTask = NoTask
  UninitSizes = {0, 1}
  SetSizes = {1, 2}
  NestedRun = TRUE
  CreateMayFail = TRUE
SPECIFICATION Spec
INVARIANTS EachTaskOnce NoLostWakeup StopWakesAll
PROPERTIES StopReturns QueuedTaskRuns
CHECK_DEADLOCK FALSE

CONSTANTS
  Threads = {t1, t2}
SPECIFICATION Spec
INVARIANTS NoDangling NothingLeft JoinedIsDone
PROPERTY DetachedEnds
CHECK_DEADLOCK FALSE

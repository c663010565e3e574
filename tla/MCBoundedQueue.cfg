CONSTANTS
  Thread = {t1, t2, t3, t4}
  Value = {a, b}
  NoValue = NoValue
  Capacity = 2
  LockedThread = {t1, t2, t3}
  NoThread = NoThread
SPECIFICATION QueuesSpec
INVARIANTS TypeOK NoLostWakeup HolderExact
PROPERTIES FifoSpec AtomicSpec

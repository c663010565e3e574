CONSTANTS
  MaxFd = 4
  MaxConnects = 4
SPECIFICATION AcceptorSpec
INVARIANTS OnlyOwnClosed SpareHeld
PROPERTY PendingHandled
CHECK_DEADLOCK FALSE

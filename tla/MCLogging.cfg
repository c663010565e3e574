CONSTANTS
  SIZE = 14
  kMaxNumericSize = 5
  Times = {1, 2}
  Tids = {1, 2}
  Parts <- MCParts
  MaxInserts = 2
SPECIFICATION Spec
INVARIANTS NoOverrun LineExact StampIsCurrent
CHECK_DEADLOCK FALSE

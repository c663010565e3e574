CONSTANTS
  MaxRefs = 1
  Polled = {"IN", "PRI", "OUT", "ERR", "HUP", "other"}
SPECIFICATION ChannelSpec
INVARIANT InterestWithdrawn
CHECK_DEADLOCK FALSE

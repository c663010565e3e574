CONSTANTS
  MaxRefs = 2
  Polled = {"IN", "PRI", "OUT", "ERR", "HUP", "other"}
SPECIFICATION ChannelSpec
INVARIANTS OwnerOutlivesHandling EveryReportHandled
CHECK_DEADLOCK FALSE

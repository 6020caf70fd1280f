SPECIFICATION Spec
CONSTANTS
  Scenarios <- StaticOnly
  Assertions = {"has_event"}
  Depth = 9
  Patience = 2
  MaxSpans = 2
INVARIANT PassHasEvent
CHECK_DEADLOCK FALSE

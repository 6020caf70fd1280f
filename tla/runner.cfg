SPECIFICATION Spec
CONSTANTS
  Scenarios <- EveryScenario
  Assertions = {"has_event"}
  Depth = 9
  Patience = 2
  MaxSpans = 3
INVARIANTS TypeOK ResultPerToggle DetectedIsInTrace
PROPERTIES PromiseKept ObservationGrows EventIsFound EveryRunEnds
CHECK_DEADLOCK FALSE

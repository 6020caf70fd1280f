SPECIFICATION Spec
CONSTANTS
  None = None
  Plans <- EveryPlan
INVARIANTS RatesAreRuns  FiguresAgree MetricsInOrder OverheadAgrees
CHECK_DEADLOCK FALSE

SPECIFICATION Spec
CONSTANTS
  None = None
  Plans <- FullPlan
INVARIANTS BaselineIsRuns
CHECK_DEADLOCK FALSE

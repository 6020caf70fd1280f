SPECIFICATION Spec
CONSTANTS
  None = None
  Commands <- EveryCommand
  MaxSessions = 2
  Parts <- ClientsFail
  MaxUnclean = 1
INVARIANTS TypeOK ClientsExplained ThresholdInReach EnvironmentIsOwn JudgedOnOwn EveryComboRan
PROPERTIES ResultsAreKept
CHECK_DEADLOCK FALSE

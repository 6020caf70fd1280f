SPECIFICATION Spec
CONSTANTS
  None = None
  Commands <- GapCommand
  MaxSessions = 1
  Parts <- ClientsFail
  MaxUnclean = 0
INVARIANTS ServersAsAsked
CHECK_DEADLOCK FALSE

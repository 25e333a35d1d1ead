SPECIFICATION ServerSpec
CONSTANTS
  MaxSessions = 3
  MaxActions = 2
  MaxText = 2
INVARIANTS
  PausedStaysPaused
CHECK_DEADLOCK FALSE

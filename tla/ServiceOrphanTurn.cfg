SPECIFICATION Spec
CONSTANTS
  MaxTexts = 1
  MaxSessions = 2
  MaxFailures = 1
INVARIANT NoTurnWithoutMessage
CHECK_DEADLOCK FALSE

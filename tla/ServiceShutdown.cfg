SPECIFICATION FairSpec
CONSTANTS
  MaxTexts = 1
  MaxSessions = 2
  MaxFailures = 0
PROPERTY ShutdownCompletes
CHECK_DEADLOCK FALSE

SPECIFICATION FairSpec
CONSTANTS
  MaxTexts = 2
  MaxSessions = 3
  MaxFailures = 1
INVARIANTS
  TypeOK
  OneLiveSession
  NoTurnOnDeadSession
PROPERTIES
  LateFailureHarmless
  Recovers
  StopReturnsUnlessReopened
CHECK_DEADLOCK FALSE

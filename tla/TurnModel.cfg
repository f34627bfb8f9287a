SPECIFICATION FairSpec
CONSTANTS
  MaxTurns = 2
  MaxCalls = 3
INVARIANTS
  TypeOK
  OneContinuation
  NothingLeftBehind
PROPERTIES
  FinishedTurnIsWhole
  TurnEnds

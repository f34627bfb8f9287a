SPECIFICATION FairSpec
CONSTANTS
  Calls = {k1, k2, k3}
  MaxTurns = 2
INVARIANTS
  TypeOK
  OneCommandAtATime
  NoFalseCompletion
PROPERTIES
  NoStaleCommand
  QueueMoves

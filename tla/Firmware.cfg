SPECIFICATION FairSpec
CONSTANTS
  ZMax = 2
  ZBackup = 2
  ZHomeBackoff = 1
  Overshoot = 1
  PhaseTicks = 8
  ZMoves <- MCMoves
  MaxLines = 3
  MaxUpsets = 1
INVARIANTS
  TypeOK
  AnsweredOnce
  DescentBounded
  RestPosition
  GantryHomesRetracted
PROPERTIES
  CommandsEnd

SPECIFICATION Spec
CONSTANTS
  ZMax = 2
  ZBackup = 2
  ZHomeBackoff = 1
  Overshoot = 1
  PhaseTicks = 8
  ZMoves <- MCMoves
  MaxLines = 1
  MaxUpsets = 1
INVARIANTS
  RestPositionAlways
CHECK_DEADLOCK FALSE

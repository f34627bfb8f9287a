SPECIFICATION Spec
CONSTANTS
  Clients = {c1}
  b1 = b1
  b2 = b2
  Bridges <- MCBridges
  Emitters <- MCEmitters
  Loop = Loop
  Reset = Reset
  None = None
  MaxTurns = 2
  MaxChunks = 1
PROPERTY
  NoStaleEvent
CHECK_DEADLOCK FALSE

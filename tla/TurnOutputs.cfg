SPECIFICATION FairSpec
CONSTANTS
  Clients = {c1}
  b1 = b1
  b2 = b2
  Bridges <- MCBridges
  Emitters <- MCEmitters
  Loop = Loop
  Reset = Reset
  None = None
  MaxTurns = 2
  MaxChunks = 2
INVARIANTS
  TypeOK
  SpeechStops
  OneWriter
PROPERTY
  NextTurnBegins

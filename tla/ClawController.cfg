SPECIFICATION FairSpec
CONSTANTS
  MaxIds = 3
  Devices <- MCDevices
  None = None
INVARIANTS
  TypeOK
  BusyOnlyAfterGivingUp
  HomedShown
  BooksEmpty
  NoSilentSimulation
PROPERTIES
  TruthfulResults
  HaltSticks
  ToolsReturn

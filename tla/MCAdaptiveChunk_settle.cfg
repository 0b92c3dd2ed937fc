SPECIFICATION ChunkSpec
CONSTANTS
  Enabled = TRUE
  MinCfg = 300
  MaxCfg = 2
  TargetCfg = 100
  MaxMsCfg = 800
  Starts <- MCStarts
  Costs <- MCCosts
  MaxSpells = 3
INVARIANTS
  ChunkTypeOK
PROPERTIES
  RightDirection
  Settles

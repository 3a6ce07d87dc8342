SPECIFICATION FairSpec
CONSTANTS
  None = None
  NoTags = NoTags
  Resources = {r1, r2}
  t = t
  here = here
  there = there
  Tags <- MCTags
  Locations <- MCLocations
  Periods <- MCPeriods
  Configs <- MCConfigs
  Half = 2
  MaxFaults = 1
  MaxEdits = 1
INVARIANTS
  TypeOK
  Serialized
PROPERTIES
  KeepsItsBucket
  Converges

SPECIFICATION FairSpec
CONSTANTS
  None = None
  Unknown = Unknown
  Conflict = Conflict
  Versions = {a, b}
  Labels = {x}
  Batches = {s1}
  MaxCount = 2
  MaxFaults = 0
  MaxEdits = 1
PROPERTIES
  RotatesForChanges

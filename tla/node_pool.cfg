SPECIFICATION FairSpec
CONSTANTS
  None = None
  Unknown = Unknown
  Conflict = Conflict
  Versions = {a, b}
  Labels = {x}
  Batches = {s1}
  MaxCount = 2
  MaxFaults = 1
  MaxEdits = 2
INVARIANTS
  TypeOK
  RecordTracksPool
  OrphansNeedCuts
  NodesFollow
PROPERTIES
  RotatesForCause
  DrainsAreAnnounced
  KeepsItsPromise
  Converges

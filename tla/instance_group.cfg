SPECIFICATION FairSpec
CONSTANTS
  None = None
  Templates = {t1, t2}
  Instances = {i1, i2, i3}
  MaxCount = 2
  MaxFaults = 1
  MaxEdits = 2
INVARIANTS
  TypeOK
  OrphansNeedFaults
PROPERTIES
  ListedAreGone
  Converges

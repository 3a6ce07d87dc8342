SPECIFICATION Spec
CONSTANTS
  None = None
  VMs = {v1, v2}
  t1 = t1
  t2 = t2
  t3 = t3
  Types <- MCTypes
  Family <- MCFamily
  Disks = {d1, d2}
  Modes = {ro, rw}
  Detached = Detached
  Nics = {n1, n2}
  DefaultNic = n1
  MaxFaults = 1
  MaxEdits = 2
SYMMETRY MCSymmetry
INVARIANTS
  TypeOK
  RecordTracksCloud
  FinishedAsPlanned
  PowerRestored
  ResizedWhileOff
  OrphansNeedFaults
PROPERTIES
  DropsOnlyTheDeleted

SPECIFICATION Spec
CONSTANTS
  None = None
  VMs = {v1, v2, v3}
  t1 = t1
  t2 = t2
  t3 = t3
  Types <- MCTypes
  Family <- MCFamily
  Disks = {d1}
  Modes = {rw}
  Detached = Detached
  Nics = {n1}
  DefaultNic = n1
  MaxFaults = 1
  MaxEdits = 1
PROPERTIES
  ReadDropsOnlyTheDeleted

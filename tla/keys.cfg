SPECIFICATION Spec
CONSTANTS
  None = None
  Resources = {r1, r2}
  Aliases = {a}
  Expiries = {e1, e2}
  Services = {"s3", "token"}
  MaxKeys = 3
  MaxFaults = 1
  MaxEdits = 2
INVARIANTS
  TypeOK
  StrandedNeedFaults
PROPERTIES
  DeletesOnlyItsOwn

SPECIFICATION Spec
CONSTANTS
  None = None
  Resources = {r1, r2}
  Aliases = {a}
  Expiries = {e1}
  Services = {"token"}
  MaxKeys = 2
  MaxFaults = 0
  MaxEdits = 0
PROPERTIES
  RecordsTheCreated

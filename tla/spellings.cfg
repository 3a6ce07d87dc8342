SPECIFICATION FairSpec
CONSTANTS
  None = None
  Spellings <- MCSpellingsOf
  MaxEdits = 2
  MaxDrifts = 2
INVARIANTS
  TypeOK
  AppliedAsPlanned
  NoDriftHidden

  
CHECK_DEADLOCK FALSE

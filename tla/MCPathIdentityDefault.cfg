SPECIFICATION Spec
CONSTANTS
  Starts <- MCStarts
  Names <- MCNames
  MaxNames = 3
  Relatives <- MCRelatives
  RawNames <- MCRawNames
  Refs <- MCRefs
  MaxSlug = 3
  MaxLength = 5
  Options <- MCDefault
INVARIANTS
  DefaultIdempotent
CHECK_DEADLOCK FALSE

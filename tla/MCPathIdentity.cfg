SPECIFICATION Spec
CONSTANTS
  Starts <- MCStarts
  Names <- MCNames
  MaxNames = 3
  Relatives <- MCRelatives
  RawNames <- MCRawNames
  Refs <- MCRefs
  MaxSlug = 3
  MaxLength = 5
  Options <- MCOptions
INVARIANTS
  AcceptedBySpec
  StaysBelowRoot
PROPERTIES
  RebuildExact
  ReloadExact
  HostTripExact
  NamesOneComponent
CHECK_DEADLOCK FALSE

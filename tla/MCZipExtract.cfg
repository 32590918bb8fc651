SPECIFICATION Spec
CONSTANTS
  Extractions = {x1, x2}
  Nobody = Nobody
  Archives <- MCArchives
  Paths <- MCPaths
  Destination <- MCDestination
  FileSystems <- MCFileSystems
  MaxEntries = 2
  MaxEntryBytes = 2
  MaxTotalBytes = 2
  MaxPathDepth = 3
  MaxDirectories = 3
  MaxObjects = 4
SYMMETRY Symmetry
INVARIANTS
  EndsClean
  BudgetsHold
PROPERTIES
  OthersUntouched
CHECK_DEADLOCK FALSE

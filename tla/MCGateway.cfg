SPECIFICATION GatewaySpec
CONSTANTS
  Projects <- MCProjects
  Registrations <- MCRegistrations
  AliasRegistrations <- MCAliases
  Selectors <- MCSelectors
  UnityPaths <- MCUnityPaths
  FileNames <- MCFileNames
  ServicePaths <- MCServicePaths
  ServiceNames <- MCServiceNames
  UnityFiles <- MCUnityFiles
  ScopedPaths <- MCScopedPaths
  Globs <- MCGlobs
  Texts <- MCTexts
  Seeds <- MCSeeds
  Limits = {1, 3}
  NameLimits = {0, 2, 12}
  DefaultNameLength = 128
  Rank <- MCRank
  KeyUnits = 2
  MaxEntries = 2
  MaxStoredEntries = 2
  MaxStoredUnits = 12
  MaxValueUnits = 3
  MaxQueryWork = 40
  MaxSlug = 3
  MaxScopedLength = 6
  MaxGlobLength = 6
  MaxPartLength = 3
INVARIANTS
  AliasesSound
  StoreExact
  QueriesExact
  PathsExact
PROPERTIES
  RefusedChangesNothing

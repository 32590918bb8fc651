SPECIFICATION FairSpec
CONSTANTS
  ts = ts
  standalone = standalone
  unity = unity
  old = old
  new = new
  newUnity = newUnity
  Packages <- MCPackages
  Unity = unity
  Rank <- MCRank
  Releases <- MCReleases
  Kind <- MCKind
  Version <- MCVersion
  Attempts = {a1, a2}
  Missing = Missing
  MaxFaults = 2
INVARIANTS
  OriginalContents
  RestIsOriginal
PROPERTIES
  ImplementsRegistry
  RetriesComplete

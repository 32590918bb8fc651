SPECIFICATION FilesSpec
CONSTANTS
  top = top
  a1 = a1
  a2 = a2
  f1 = f1
  f2 = f2
  pipe = pipe
  x = x
  y = y
  Dirs <- MCDirs
  Files <- MCFiles
  Specials = {pipe}
  Top = top
  Below <- MCBelow
  Names = {x, y}
  Anchor <- MCAnchor
  Leaf = x
  Nothing = Nothing
  c1 = c1
  c2 = c2
  Callers = {c1, c2}
  Places <- MCPlaces
  Upper <- MCUpper
  RootDir = "root"
  Goals <- MCGoals
  link = link
  target = target
  d1 = d1
  d2 = d2
  NoDir = NoDir
  Invalid = Invalid
  HostNames = {link, target}
  HostDirs = {d1, d2}
  Configurations <- MCConfigurations
  l1 = l1
  l2 = l2
  Launches = {l1, l2}
  OutDirs = {"out"}
  NoLaunch = NoLaunch
  Absent = Absent
SYMMETRY FileSymmetry
INVARIANTS
  LeafWasReal
  AnswersAreRight
  StartIsWhole
  BundlesAreWhole
PROPERTIES
  AnchorWasReal
  AuthorityWasNamed
\* A start ends, and so do launches when none is left.
CHECK_DEADLOCK FALSE

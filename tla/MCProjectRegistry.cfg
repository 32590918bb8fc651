SPECIFICATION Spec
CONSTANTS
  Projects = {p1, p2, p3}
  Requests = {r1, r2, r3}
  Handles = {h1, h2, h3, h4}
  NoHandle = NoHandle
  MaxProjects = 2
  IdleTimeout = 2
SYMMETRY RegistrySymmetry
INVARIANTS
  RegistrySound
  NoHandleLeak
  SoleCloser
PROPERTIES
  LeaseHonoured
  RefusedOnlyWhenFull

SPECIFICATION FairSpec
CONSTANTS
  Projects = {p1, p2}
  Requests = {r1, r2}
  Handles = {h1, h2, h3, h4}
  NoHandle = NoHandle
  MaxProjects = 1
  IdleTimeout = 1
PROPERTY HandlesReturned

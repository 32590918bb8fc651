SPECIFICATION FairSpec
CONSTANTS
  Conns = {c1, c2}
  MaxConnections = 2
  MaxUnauthenticated = 1
PROPERTIES
  PendingSettles
  RefusedLeaves
\* Once the listener has failed and every connection is closed nothing is left to do.
CHECK_DEADLOCK FALSE

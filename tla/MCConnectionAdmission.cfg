SPECIFICATION Spec
CONSTANTS
  Conns = {c1, c2, c3}
  MaxConnections = 2
  MaxUnauthenticated = 1
SYMMETRY ConnSymmetry
INVARIANTS
  SlotsAccountedFor
  SocketsBounded
  OneWinner
PROPERTY ImplementsPool
\* Once the listener has failed and every connection is closed nothing is left to do.
CHECK_DEADLOCK FALSE

SPECIFICATION Spec
CONSTANTS
  u1 = u1
  u2 = u2
  u3 = u3
  u4 = u4
  d1 = d1
  d2 = d2
  d3 = d3
  d4 = d4
  d5 = d5
  d6 = d6
  NoConn = NoConn
  User <- MCUser
  Conn <- MCConn
  PoolSize = 2
SYMMETRY Symmetric
INVARIANTS
  InOnePlace
  NeverShrinks
PROPERTIES
  HandedOutAlive
CHECK_DEADLOCK FALSE

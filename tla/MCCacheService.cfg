SPECIFICATION Spec
CONSTANTS
  k1 = k1
  k2 = k2
  k3 = k3
  v1 = v1
  v2 = v2
  NoEntry = NoEntry
  Key <- MCKey
  Value <- MCValue
  MaxSize = 2
  Ttl = 2
  MaxClock = 5
SYMMETRY Symmetric
INVARIANTS
  TypeOK
  Capacity
PROPERTIES
  LosesOnlyOldest

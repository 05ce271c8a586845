SPECIFICATION Spec
CONSTANTS
  c1 = c1
  c2 = c2
  Client <- MCClient
  MaxRequests = 2
  Window = 2
  MaxClock = 5
SYMMETRY Symmetric
INVARIANTS
  AnyWindow
  RefusedOnlyWhenFull

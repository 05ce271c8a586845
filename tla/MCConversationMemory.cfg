SPECIFICATION Spec
CONSTANTS
  s1 = s1
  s2 = s2
  r1 = r1
  t1 = t1
  t2 = t2
  Detached = Detached
  Session <- MCSession
  Reader <- MCReader
  Turn <- MCTurn
  MaxTurns = 2
  SessionTtl = 1
  MaxClock = 4
SYMMETRY Symmetric
INVARIANTS
  TypeOK
  Accounted
  WindowBound
PROPERTIES
  DroppedOnlyIdle
  WindowSlides

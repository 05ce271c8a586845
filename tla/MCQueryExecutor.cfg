SPECIFICATION FairSpec
CONSTANTS
  q1 = q1
  q2 = q2
  Query = {q1, q2}
  Workers = 1
  Page = {1, 2}
  PageSize = 2
  Size = {0, 1, 2, 3, 4}
INVARIANTS
  PageIsExact
  NextPageExists
PROPERTIES
  CancelledNeverRuns
  EveryQueryEnds
CHECK_DEADLOCK FALSE

SPECIFICATION Spec
CONSTANTS
  q1 = q1
  q2 = q2
  Query = {q1}
  Workers = 1
  Page = {1, 2}
  PageSize = 2
  Size = {0, 2, 3}
INVARIANTS
  HasMoreTells
CHECK_DEADLOCK FALSE

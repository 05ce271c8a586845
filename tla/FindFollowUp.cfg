SPECIFICATION Spec
CONSTANTS
  r1 = r1
  r2 = r2
  r3 = r3
  q1 = q1
  Q1 = Q1
  q2 = q2
  q3 = q3
  p1 = p1
  p2 = p2
  s1 = s1
  s2 = s2
  NoSession = NoSession
  NoAsk = NoAsk
  NoBase = NoBase
  NoSql = NoSql
  NoBody = NoBody
  NoEntry = NoEntry
  Detached = Detached
  Question <- MCQuestion
  Normal <- MCNormal
  Keywordless = {q3}
  FollowUp = {q2}
  Page = {p1, p2}
  FirstPage = {p1}
  Session = {s1, s2}
  Request = {r1, r2, r3}
  Asks <- FollowUpAsks
  MaxSize = 3
  CacheTtl = 1
  MaxTurns = 2
  SessionTtl = 2
  MaxClock = 0
INVARIANTS
  FollowUpStaysInSession
CHECK_DEADLOCK FALSE

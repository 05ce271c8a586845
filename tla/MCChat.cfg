SPECIFICATION FairChat
CONSTANTS
  r1 = r1
  r2 = r2
  q2 = q2
  p1 = p1
  p2 = p2
  s1 = s1
  s2 = s2
  NoSession = NoSession
  NoAsk = NoAsk
  NoBase = NoBase
  NoSql = NoSql
  NoBody = NoBody
  NoEntry = NoEntry
  Detached = Detached
  Question = {q2}
  Normal <- MCNormal
  Keywordless = {}
  FollowUp = {q2}
  Page = {p1, p2}
  FirstPage = {p1}
  Following <- MCFollowing
  Session = {s1, s2}
  Setting <- MCSetting
  Request = {r1, r2}
  Asks <- MCAsks
  MaxSize = 1
  CacheTtl = 1
  MaxTurns = 2
  SessionTtl = 0
  MaxClock = 1
INVARIANTS
  CallBudget
  PageTypeOK
  MemoryIsOnScreen
  TurnsInAskingOrder
PROPERTIES
  EveryRequestEnds
  PageRecovers
CHECK_DEADLOCK FALSE

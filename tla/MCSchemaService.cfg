SPECIFICATION FairSpec
CONSTANTS
  start = start
  c1 = c1
  c2 = c2
  d1 = d1
  d2 = d2
  d3 = d3
  NoConn = NoConn
  NoSchema = NoSchema
  NoReply = NoReply
  Caller = {start, c1, c2}
  Startup = start
  Conn <- MCConn
  PoolSize = 1
  Ttl = 1
  MaxClock = 2
INVARIANTS
  LockAndConnection
  RepliesCurrent
PROPERTIES
  OncePerLifetime
  EveryCallEnds
CHECK_DEADLOCK FALSE

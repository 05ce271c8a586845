-------------------------- MODULE SchemaServiceProofs --------------------------
(***************************************************************************)
(* Proofs about SchemaService: who introspects has the lock and the one    *)
(* connection it needs; what calls return is current; an unforced call     *)
(* does not introspect within the lifetime of what is cached.              *)
(***************************************************************************)
EXTENDS SchemaService, SequenceTheorems, TLAPS

Outside == {"idle", "waiting", "done"}

\* The lock's queue q and the calls' locations p: the waiting calls stand in line,
\* once each, and who introspects is at its head.
Line(q, p) ==
  /\ q \in Seq(Caller) /\ p \in [Caller -> Location]
  /\ \A i, j \in DOMAIN q : q[i] = q[j] => i = j
  /\ \A i \in DOMAIN q : i # 1 => p[q[i]] = "waiting"
  /\ q # <<>> => p[q[1]] \notin {"idle", "done"}
  /\ \A c \in Caller : p[c] = "waiting" => \E i \in DOMAIN q : q[i] = c
  /\ \A c \in Caller : p[c] \notin Outside => q # <<>> /\ q[1] = c

-----------------------------------------------------------------------------
(***************************************************************************)
(* What calls do to the line.                                              *)
(***************************************************************************)

\* A call that need not wait comes and goes.
LEMMA Passes ==
  ASSUME NEW q, NEW p, Line(q, p), NEW c \in Caller, p[c] = "idle"
  PROVE  Line(q, [p EXCEPT ![c] = "done"])
<1> USE DEF Line, Location, Outside
<1>1. DOMAIN q = 1 .. Len(q) /\ Len(q) \in Nat /\ \A i \in DOMAIN q : q[i] \in Caller
  BY LenProperties
<1>2. q # <<>> => 1 \in DOMAIN q BY <1>1, EmptySeq
<1>3. \A i \in DOMAIN q : q[i] # c BY <1>1, <1>2
<1>4. QED BY <1>1, <1>2, <1>3

\* A call enters the line, and if nobody is there, the introspection.
LEMMA Enters ==
  ASSUME NEW q, NEW p, Line(q, p), NEW c \in Caller, p[c] = "idle",
         NEW x \in Location \ {"idle", "done"}, q # <<>> <=> x = "waiting"
  PROVE  Line(Append(q, c), [p EXCEPT ![c] = x])
<1> DEFINE r == Append(q, c)
<1> USE DEF Line, Location, Outside
<1>1. DOMAIN q = 1 .. Len(q) /\ Len(q) \in Nat /\ \A i \in DOMAIN q : q[i] \in Caller
  BY LenProperties
<1>2. q # <<>> => 1 \in DOMAIN q BY <1>1, EmptySeq
<1>3. \A i \in DOMAIN q : q[i] # c BY <1>1, <1>2
<1>4. /\ r \in Seq(Caller) /\ DOMAIN r = 1 .. Len(q) + 1 /\ r[Len(q) + 1] = c
      /\ \A i \in DOMAIN q : r[i] = q[i]
      /\ r # <<>>
  BY <1>1, AppendProperties, LenProperties, EmptySeq
<1>5. q = <<>> <=> Len(q) = 0 BY <1>1, EmptySeq
<1> HIDE DEF r
<1>6. \A i, j \in DOMAIN r : r[i] = r[j] => i = j BY <1>1, <1>3, <1>4
<1>7. \A i \in DOMAIN r : i # 1 => [p EXCEPT ![c] = x][r[i]] = "waiting"
  BY <1>1, <1>3, <1>4, <1>5
<1>8. [p EXCEPT ![c] = x][r[1]] \notin {"idle", "done"} BY <1>1, <1>2, <1>3, <1>4, <1>5
<1>9. \A d \in Caller : [p EXCEPT ![c] = x][d] = "waiting" => \E i \in DOMAIN r : r[i] = d
  BY <1>1, <1>4
<1>10. \A d \in Caller : [p EXCEPT ![c] = x][d] \notin Outside => r[1] = d
  BY <1>1, <1>2, <1>4, <1>5
<1>11. Line(r, [p EXCEPT ![c] = x]) BY <1>4, <1>6, <1>7, <1>8, <1>9, <1>10
<1>12. QED BY <1>11 DEF r

\* The head of the line goes on.
LEMMA Moves ==
  ASSUME NEW q, NEW p, Line(q, p), NEW c \in Caller, q # <<>>, q[1] = c,
         NEW x \in Location \ Outside
  PROVE  Line(q, [p EXCEPT ![c] = x])
<1> USE DEF Line, Location, Outside
<1>1. DOMAIN q = 1 .. Len(q) /\ Len(q) \in Nat /\ \A i \in DOMAIN q : q[i] \in Caller
  BY LenProperties
<1>2. 1 \in DOMAIN q BY <1>1, EmptySeq
<1>3. \A i \in DOMAIN q : i # 1 => q[i] # c BY <1>2
<1>4. QED BY <1>1, <1>2, <1>3

\* The head of the line leaves.
LEMMA Exits ==
  ASSUME NEW q, NEW p, Line(q, p), NEW c \in Caller, q # <<>>, q[1] = c
  PROVE  Line(Tail(q), [p EXCEPT ![c] = "done"])
<1> DEFINE r == Tail(q)
<1> USE DEF Line, Location, Outside
<1>1. DOMAIN q = 1 .. Len(q) /\ Len(q) \in Nat \ {0} /\ \A i \in DOMAIN q : q[i] \in Caller
  BY LenProperties, EmptySeq
<1>2. /\ r \in Seq(Caller) /\ DOMAIN r = 1 .. Len(q) - 1
      /\ \A i \in DOMAIN r : r[i] = q[i + 1]
      /\ r # <<>> => 1 \in DOMAIN r
  BY <1>1, HeadTailProperties, LenProperties, EmptySeq
<1> HIDE DEF r
<1>3. \A i \in DOMAIN r : i + 1 \in DOMAIN q /\ i + 1 # 1 /\ r[i] = q[i + 1]
  BY <1>1, <1>2
<1>4. \A i \in DOMAIN q : i # 1 => i - 1 \in DOMAIN r /\ r[i - 1] = q[i] /\ q[i] # c
  BY <1>1, <1>2
<1>5. \A i, j \in DOMAIN r : r[i] = r[j] => i = j BY <1>1, <1>2, <1>3
<1>6. \A i \in DOMAIN r : r[i] \in Caller /\ r[i] # c /\ p[r[i]] = "waiting" BY <1>1, <1>3
<1>7. \A d \in Caller : d # c /\ p[d] = "waiting" => \E i \in DOMAIN r : r[i] = d BY <1>4
<1>8. \A d \in Caller : d # c => p[d] \in Outside OBVIOUS
<1>9. Line(r, [p EXCEPT ![c] = "done"]) BY <1>2, <1>5, <1>6, <1>7, <1>8
<1>10. QED BY <1>9 DEF r

-----------------------------------------------------------------------------
(***************************************************************************)
(* The inductive invariant.  Hands: who has a connection, and at which     *)
(* point of acquire.  Full: with nobody introspecting the deque has        *)
(* PoolSize connections, and otherwise one less, so that the head of the   *)
(* line finds one.  Times and Overdue: what is known of a call before it   *)
(* returns.                                                                *)
(***************************************************************************)
Hands ==
  \A c \in Caller :
    /\ pc[c] \in Outside => stage[c] = "out" /\ conn[c] = NoConn
    /\ pc[c] \in {"opening", "reopening"} => stage[c] = "reconnecting" /\ conn[c] \in Conn
    /\ pc[c] \in {"objects", "columns", "counting"} => stage[c] = "using" /\ conn[c] \in Conn

Full ==
  /\ queue # <<>> => phase = "running"
  /\ phase = "running" =>
       Len(idle) >= IF queue # <<>> /\ pc[queue[1]] \notin Outside THEN PoolSize - 1 ELSE PoolSize

Times ==
  \A c \in Caller : asked[c] <= now /\ (pc[c] \notin Outside => asked[c] <= began[c])

Overdue ==
  \A c \in Caller : pc[c] \notin Outside /\ ~force[c] /\ cached # NoSchema /\ cached.tables = "some"
                      => began[c] - cached.at >= Ttl

IInv == /\ TypeOK /\ Line(queue, pc) /\ Hands /\ Full
        /\ Times /\ Overdue /\ RepliesCurrent

\* What the lock means for one call.
LEMMA Locked ==
  ASSUME Line(queue, pc), NEW c \in Caller
  PROVE  /\ queue \in Seq(Caller) /\ pc \in [Caller -> Location]
         /\ pc[c] \notin Outside \/ HasLock(c) => queue # <<>> /\ queue[1] = c
         /\ pc[c] \notin Outside => \A d \in Caller : d # c => pc[d] \in Outside
  BY DEF Line, HasLock, Outside

LEMMA LineStep == IInv /\ [Next]_vars => Line(queue, pc)'
<1> SUFFICES ASSUME IInv, [Next]_vars PROVE Line(queue', pc')
  BY DEF Line
<1>0. Line(queue, pc) BY DEF IInv
<1>1. ASSUME NEW c \in Caller, Asks(c) PROVE Line(queue', pc')
  <2>1. PICK forced \in BOOLEAN : AskFast(c, forced) \/ AskSlow(c, forced) BY <1>1 DEF Asks
  <2>2. CASE AskFast(c, forced)
    BY <1>0, <2>2, Passes DEF AskFast, MayAsk, Returns
  <2>3. CASE AskSlow(c, forced)
    <3>1. pc[c] = "idle" /\ queue' = Append(queue, c)
      BY <2>3 DEF AskSlow, MayAsk
    <3>2. PICK x \in Location \ {"idle", "done"} :
             pc' = [pc EXCEPT ![c] = x] /\ (queue # <<>> <=> x = "waiting")
      BY <2>3 DEF AskSlow, Introspects, Location
    <3>3. Line(Append(queue, c), [pc EXCEPT ![c] = x]) BY <1>0, <3>1, <3>2, Enters
    <3>4. QED BY <3>1, <3>2, <3>3
  <2>4. QED BY <2>1, <2>2, <2>3
<1>2. ASSUME NEW c \in Caller, Proceeds(c) PROVE Line(queue', pc')
  <2>1. pc \in [Caller -> Location] BY <1>0 DEF Line
  <2>2. queue # <<>> /\ queue[1] = c
    BY <1>0, <1>2, Locked DEF Proceeds, RecheckSuffices, RecheckFails, Opened, OpenFails,
       ObjectsRead, QueryFails, ColumnsRead, Reopened, ReopenFails, RowsCounted, HasLock, Outside
  <2>3. \/ queue' = Tail(queue) /\ pc' = [pc EXCEPT ![c] = "done"]
        \/ queue' = queue /\ \E x \in Location \ Outside : pc' = [pc EXCEPT ![c] = x]
    <3> USE DEF Location, Outside
    <3>1. CASE RecheckSuffices(c) \/ RecheckFails(c)
      BY <3>1 DEF RecheckSuffices, RecheckFails, Returns, Introspects
    <3>2. CASE Opened(c) \/ ObjectsRead(c) \/ Reopened(c)
      BY <2>1, <3>2 DEF Opened, ObjectsRead, Reopened
    <3>3. CASE OpenFails(c) \/ QueryFails(c) \/ ReopenFails(c) \/ RowsCounted(c)
      BY <3>3 DEF OpenFails, QueryFails, ReopenFails, RowsCounted, Raises, Finish, Returns
    <3>4. CASE ColumnsRead(c)
      BY <3>4 DEF ColumnsRead, Finish, Returns
    <3>5. QED BY <1>2, <3>1, <3>2, <3>3, <3>4 DEF Proceeds
  <2>4. CASE queue' = Tail(queue) /\ pc' = [pc EXCEPT ![c] = "done"]
    <3>1. Line(Tail(queue), [pc EXCEPT ![c] = "done"]) BY <1>0, <2>2, Exits
    <3>2. QED BY <2>4, <3>1
  <2>5. ASSUME queue' = queue, NEW x \in Location \ Outside, pc' = [pc EXCEPT ![c] = x]
        PROVE  Line(queue', pc')
    <3>1. Line(queue, [pc EXCEPT ![c] = x]) BY <1>0, <2>2, Moves
    <3>2. QED BY <2>5, <3>1
  <2>6. QED BY <2>3, <2>4, <2>5
<1>3. CASE StartPool \/ Shutdown \/ ConnectionDies \/ TimePasses \/ UNCHANGED vars
  BY <1>0, <1>3 DEF StartPool, Shutdown, ConnectionDies, TimePasses, vars, callVars
<1>4. QED BY <1>1, <1>2, <1>3 DEF Next

-----------------------------------------------------------------------------
(***************************************************************************)
(* The pool's part.                                                        *)
(***************************************************************************)
PoolOK == Pool!TypeOK /\ Hands /\ Full

\* Entering the block when the deque is q.
LEMMA Grabs ==
  ASSUME NEW c \in Caller, NEW q \in Seq(Conn), q # <<>>, Pool!Take(c, q)
  PROVE  /\ idle' \in Seq(Conn) /\ Len(idle') = Len(q) - 1
         /\ \E x \in {"reconnecting", "using"} : stage' = [stage EXCEPT ![c] = x]
         /\ \E k \in Conn : conn' = [conn EXCEPT ![c] = k]
<1>1. Tail(q) \in Seq(Conn) /\ Len(Tail(q)) = Len(q) - 1 /\ Head(q) \in Conn
  BY HeadTailProperties
<1>2. QED BY <1>1 DEF Pool!Take

\* Leaving it: the deque is full again.
LEMMA Frees ==
  ASSUME NEW c \in Caller, idle \in Seq(Conn), conn[c] \in Conn, Len(idle) >= PoolSize - 1
  PROVE  /\ Pool!AfterRelease(c) \in Seq(Conn)
         /\ Len(Pool!AfterRelease(c)) >= PoolSize
         /\ Pool!AfterRelease(c) # <<>>
<1> USE SchemaAssumption DEF Pool!AfterRelease
<1>1. /\ Append(idle, conn[c]) \in Seq(Conn)
      /\ Len(Append(idle, conn[c])) = Len(idle) + 1 /\ Len(idle) \in Nat
  BY AppendProperties, LenProperties
<1>2. Pool!AfterRelease(c) \in Seq(Conn) /\ Len(Pool!AfterRelease(c)) >= PoolSize BY <1>1
<1>3. QED BY <1>2, EmptySeq

\* The head of the line enters a block.
LEMMA GrabOK ==
  ASSUME PoolOK, Line(queue, pc), NEW c \in Caller, pc[c] = "idle" \/ HasLock(c) \/ pc[c] \notin Outside,
         NEW q \in Seq(Conn), Len(q) >= PoolSize, Pool!Take(c, q),
         phase = "running", phase' = phase,
         stale' \subseteq open', open' \subseteq Conn,
         queue' # <<>>, queue'[1] = c,
         NEW a \in {"objects", "counting"}, NEW b \in {"opening", "reopening"},
         pc' = [pc EXCEPT ![c] = IF stage'[c] = "using" THEN a ELSE b]
  PROVE  PoolOK'
<1> USE DEF PoolOK, Pool!TypeOK
<1>1. q # <<>> /\ Len(q) \in Nat BY SchemaAssumption, LenProperties, EmptySeq
<1>2. PICK x \in {"reconnecting", "using"}, k \in Conn :
        stage' = [stage EXCEPT ![c] = x] /\ conn' = [conn EXCEPT ![c] = k]
  BY <1>1, Grabs
<1>3. idle' \in Seq(Conn) /\ Len(idle') = Len(q) - 1 BY <1>1, Grabs
<1>4. pc \in [Caller -> Location] BY Locked
<1>5. Pool!TypeOK' BY <1>2, <1>3
<1>6. Hands' BY <1>2, <1>4 DEF Hands, Outside
<1>7. pc'[queue'[1]] \notin Outside BY <1>4 DEF Outside
<1>8. Full' BY <1>1, <1>3, <1>7, SchemaAssumption DEF Full
<1>9. QED BY <1>5, <1>6, <1>8

\* The head of the line gets a connection.
LEMMA ConnectOK ==
  ASSUME PoolOK, Line(queue, pc), NEW c \in Caller, Pool!Connected(c), queue' = queue,
         NEW a \in {"objects", "counting"}, pc[c] \in {"opening", "reopening"},
         pc' = [pc EXCEPT ![c] = IF stage'[c] = "using" THEN a ELSE @]
  PROVE  PoolOK'
<1> USE DEF PoolOK, Pool!TypeOK
<1>1. pc \in [Caller -> Location] /\ queue # <<>> /\ queue[1] = c BY Locked DEF Outside
<1>2. stage[c] = "reconnecting" BY DEF Hands
<1>3. /\ \E k \in Conn : conn' = [conn EXCEPT ![c] = k] /\ open' = (open \ {conn[c]}) \cup {k}
      /\ stage' = [stage EXCEPT ![c] = "using"] /\ stale' = stale \ {conn[c]}
      /\ UNCHANGED <<phase, idle>>
  BY <1>2 DEF Pool!Connected
<1>4. Pool!TypeOK' BY <1>3
<1>5. pc' = [pc EXCEPT ![c] = a] BY <1>1, <1>3
<1>6. Hands' BY <1>1, <1>3, <1>5 DEF Hands, Outside
<1>7. Full' BY <1>1, <1>3, <1>5 DEF Full, Outside
<1>8. QED BY <1>4, <1>6, <1>7

\* The head of the line leaves a block, and the line.
LEMMA LeaveOK ==
  ASSUME PoolOK, Line(queue, pc), NEW c \in Caller, Pool!Leave(c),
         pc[c] \notin Outside, queue' = Tail(queue), Line(queue', pc'),
         pc' = [pc EXCEPT ![c] = "done"]
  PROVE  PoolOK'
<1> USE DEF PoolOK, Pool!TypeOK
<1>1. /\ pc \in [Caller -> Location] /\ queue # <<>> /\ queue[1] = c
      /\ \A d \in Caller : d # c => pc[d] \in Outside
  BY Locked
<1>2. conn[c] \in Conn BY <1>1 DEF Hands, Outside, Location
<1>3. phase = "running" /\ Len(idle) >= PoolSize - 1 BY <1>1 DEF Full
<1>4. /\ idle' \in Seq(Conn) /\ Len(idle') >= PoolSize
      /\ stage' = [stage EXCEPT ![c] = "out"] /\ conn' = [conn EXCEPT ![c] = NoConn]
      /\ stale' \subseteq open' /\ open' \subseteq Conn /\ phase' = phase
  BY <1>2, <1>3, Frees DEF Pool!Leave, Pool!CloseOverflow
<1>5. Pool!TypeOK' BY <1>4
<1>6. Hands' BY <1>1, <1>4 DEF Hands, Outside
<1>7. Len(idle') \in Nat BY <1>4, LenProperties
<1>8. Full' BY <1>3, <1>4, <1>7, SchemaAssumption DEF Full
<1>9. QED BY <1>5, <1>6, <1>8

LEMMA PoolStep == IInv /\ [Next]_vars => PoolOK'
<1> SUFFICES ASSUME IInv, [Next]_vars PROVE PoolOK'
  OBVIOUS
<1>0. PoolOK /\ Line(queue, pc) /\ Line(queue', pc')
  <2>1. PoolOK /\ Line(queue, pc) BY DEF PoolOK, IInv, TypeOK
  <2>2. Line(queue', pc') BY LineStep DEF Line
  <2>3. QED BY <2>1, <2>2
<1> USE <1>0
<1>1. pc \in [Caller -> Location] /\ queue \in Seq(Caller) BY DEF Line
<1>2. idle \in Seq(Conn) /\ stale \subseteq open /\ open \subseteq Conn
  BY DEF PoolOK, Pool!TypeOK
<1>3. ASSUME NEW c \in Caller, Introspects(c), (pc[c] = "idle" /\ queue = <<>>) \/ HasLock(c),
             queue' # <<>>, queue'[1] = c
      PROVE  PoolOK'
  <2>1. phase = "running" /\ Pool!Take(c, idle) /\ UNCHANGED <<phase, open, stale>>
    BY <1>3 DEF Introspects, Pool!Acquire
  <2>2. Len(idle) >= PoolSize
    BY <1>3, <2>1 DEF PoolOK, Full, HasLock, Outside
  <2>3. pc' = [pc EXCEPT ![c] = IF stage'[c] = "using" THEN "objects" ELSE "opening"]
    BY <1>3 DEF Introspects
  <2>4. QED BY <1>2, <1>3, <2>1, <2>2, <2>3, GrabOK
<1>4. ASSUME NEW c \in Caller, Asks(c) PROVE PoolOK'
  <2>1. PICK forced \in BOOLEAN : AskFast(c, forced) \/ AskSlow(c, forced) BY <1>4 DEF Asks
  <2>2. CASE queue = <<>> /\ AskSlow(c, forced)
    <3>1. queue' # <<>> /\ queue'[1] = c BY <2>2 DEF AskSlow
    <3>2. QED BY <1>3, <2>2, <3>1 DEF AskSlow, MayAsk
  <2>3. CASE AskFast(c, forced) \/ (queue # <<>> /\ AskSlow(c, forced))
    <3>1. pc[c] = "idle" /\ phase = "running" /\ UNCHANGED poolVars
          /\ \E x \in {"waiting", "done"} : pc' = [pc EXCEPT ![c] = x]
      BY <2>3 DEF AskFast, AskSlow, MayAsk, Returns
    <3>2. Pool!TypeOK' BY <3>1 DEF PoolOK, Pool!TypeOK, poolVars
    <3>3. Hands' BY <1>1, <3>1 DEF PoolOK, Hands, Outside, poolVars
    <3>4. queue' = queue \/ (queue # <<>> /\ queue'[1] = queue[1] /\ queue' # <<>>)
      <4>1. CASE AskFast(c, forced) BY <4>1 DEF AskFast
      <4>2. CASE queue # <<>> /\ queue' = Append(queue, c)
        <5>1. Len(queue) \in Nat \ {0} BY <1>1, <4>2, LenProperties, EmptySeq
        <5>2. Len(queue') = Len(queue) + 1 /\ queue'[1] = queue[1]
          BY <1>1, <4>2, <5>1, AppendProperties
        <5>3. QED BY <4>2, <5>1, <5>2, LenProperties, EmptySeq
      <4>3. QED BY <2>3, <4>1, <4>2 DEF AskSlow
    <3>5. queue # <<>> /\ pc[queue[1]] \notin Outside
            => queue' # <<>> /\ pc'[queue'[1]] \notin Outside
      BY <1>1, <3>1, <3>4 DEF Outside, Line
    <3>6. phase' = phase /\ idle' = idle /\ Len(idle) \in Nat
      BY <1>2, <3>1, LenProperties DEF poolVars
    <3>7. Full' BY <3>1, <3>5, <3>6, SchemaAssumption DEF PoolOK, Full
    <3>8. QED BY <3>2, <3>3, <3>7 DEF PoolOK
  <2>4. QED BY <2>1, <2>2, <2>3
<1>5. ASSUME NEW c \in Caller, Proceeds(c) PROVE PoolOK'
  <2>1. CASE RecheckSuffices(c)
    <3>1. pc[c] = "waiting" /\ UNCHANGED poolVars /\ pc' = [pc EXCEPT ![c] = "done"]
          /\ queue # <<>> /\ queue[1] = c /\ queue' = Tail(queue)
      BY <2>1 DEF RecheckSuffices, HasLock, Returns
    <3>2. Pool!TypeOK' BY <3>1 DEF PoolOK, Pool!TypeOK, poolVars
    <3>3. Hands' BY <1>1, <3>1 DEF PoolOK, Hands, Outside, poolVars
    <3>4. phase = "running" /\ phase' = "running" /\ Len(idle') >= PoolSize
      BY <3>1 DEF PoolOK, Full, Outside, poolVars
    <3>5. Len(idle') \in Nat BY <1>2, <3>1, LenProperties DEF poolVars
    <3>6. QED BY <3>2, <3>3, <3>4, <3>5, SchemaAssumption DEF PoolOK, Full
  <2>2. CASE RecheckFails(c)
    BY <1>3, <2>2 DEF RecheckFails, HasLock
  <2>3. CASE Opened(c) \/ Reopened(c)
    BY <2>3, ConnectOK DEF Opened, Reopened
  <2>4. CASE ObjectsRead(c)
    <3>1. pc[c] = "objects" /\ UNCHANGED <<poolVars, queue>> /\ pc' = [pc EXCEPT ![c] = "columns"]
      BY <2>4 DEF ObjectsRead
    <3>2. Pool!TypeOK' BY <3>1 DEF PoolOK, Pool!TypeOK, poolVars
    <3>3. Hands' BY <1>1, <3>1 DEF PoolOK, Hands, Outside, poolVars
    <3>4. pc[queue[1]] \notin Outside /\ queue # <<>> BY <3>1, Locked DEF Outside
    <3>5. Full' BY <1>1, <3>1, <3>4, Locked DEF PoolOK, Full, Outside, poolVars
    <3>6. QED BY <3>2, <3>3, <3>5 DEF PoolOK
  <2>5. CASE OpenFails(c) \/ ReopenFails(c)
    <3>1. pc[c] \in {"opening", "reopening"} /\ Pool!Refused(c)
      BY <2>5 DEF OpenFails, ReopenFails
    <3>2. Pool!Leave(c) BY <3>1 DEF Pool!Refused, PoolOK, Hands
    <3>3. queue' = Tail(queue) /\ pc' = [pc EXCEPT ![c] = "done"]
      BY <2>5 DEF OpenFails, ReopenFails, Raises
    <3>4. QED BY <3>1, <3>2, <3>3, LeaveOK DEF Outside
  <2>6. CASE QueryFails(c) \/ RowsCounted(c)
    <3>1. pc[c] \notin Outside /\ Pool!Leave(c)
      BY <2>6 DEF QueryFails, RowsCounted, Pool!Release, Outside
    <3>2. queue' = Tail(queue) /\ pc' = [pc EXCEPT ![c] = "done"]
      BY <2>6 DEF QueryFails, RowsCounted, Raises, Finish, Returns
    <3>3. QED BY <3>1, <3>2, LeaveOK
  <2>7. CASE ColumnsRead(c)
    <3>1. pc[c] \notin Outside BY <2>7 DEF ColumnsRead, Outside
    <3>2. CASE Pool!Release(c) /\ \E tables \in {"none", "some"} : Finish(c, tables)
      <4>1. Pool!Leave(c) /\ queue' = Tail(queue) /\ pc' = [pc EXCEPT ![c] = "done"]
        BY <3>2 DEF Pool!Release, Finish, Returns
      <4>2. QED BY <3>1, <4>1, LeaveOK
    <3>3. CASE /\ Pool!Reacquire(c) /\ queue' = queue
               /\ pc' = [pc EXCEPT ![c] = IF stage'[c] = "using" THEN "counting" ELSE "reopening"]
      <4>1. queue # <<>> /\ queue[1] = c BY <3>1, Locked
      <4>2. phase = "running" /\ Len(idle) >= PoolSize - 1 /\ conn[c] \in Conn
        BY <1>1, <3>1, <4>1 DEF PoolOK, Full, Hands, Outside, Location
      <4>3. Pool!AfterRelease(c) \in Seq(Conn) /\ Len(Pool!AfterRelease(c)) >= PoolSize
        BY <1>2, <4>2, Frees
      <4>4. /\ Pool!Take(c, Pool!AfterRelease(c)) /\ phase' = phase
            /\ stale' \subseteq open' /\ open' \subseteq Conn
        BY <1>2, <3>3 DEF Pool!Reacquire, Pool!CloseOverflow
      <4>5. QED BY <3>1, <3>3, <4>1, <4>2, <4>3, <4>4, GrabOK
    <3>4. QED BY <2>7, <3>2, <3>3 DEF ColumnsRead
  <2>8. QED BY <1>5, <2>1, <2>2, <2>3, <2>4, <2>5, <2>6, <2>7 DEF Proceeds
<1>6. CASE StartPool
  <2>1. phase = "starting" /\ UNCHANGED <<queue, pc, stage, conn, stale>>
    BY <1>6 DEF StartPool, Pool!Populate, Pool!PopulateFails, callVars
  <2>2. queue = <<>> BY <2>1 DEF PoolOK, Full
  <2>3. CASE Pool!Populate
    <3>1. PICK k \in Conn \ open : idle' = Append(idle, k) /\ open' = open \cup {k}
      BY <2>3 DEF Pool!Populate
    <3>2. idle' \in Seq(Conn) /\ Len(idle') = Len(idle) + 1 /\ Len(idle) \in Nat
      BY <1>2, <3>1, AppendProperties, LenProperties
    <3>3. phase' = IF Len(idle) + 1 = PoolSize THEN "running" ELSE "starting"
      BY <2>1, <2>3 DEF Pool!Populate
    <3>4. Pool!TypeOK' BY <2>1, <3>1, <3>2, <3>3 DEF PoolOK, Pool!TypeOK
    <3>5. Hands' BY <2>1 DEF PoolOK, Hands
    <3>6. Full' BY <2>1, <2>2, <3>2, <3>3, SchemaAssumption DEF Full
    <3>7. QED BY <3>4, <3>5, <3>6 DEF PoolOK
  <2>4. CASE Pool!PopulateFails
    BY <2>1, <2>2, <2>4 DEF Pool!PopulateFails, PoolOK, Pool!TypeOK, Hands, Full
  <2>5. QED BY <1>6, <2>3, <2>4 DEF StartPool
<1>7. CASE Shutdown
  <2>1. /\ queue = <<>> /\ phase' = "closed" /\ idle' = <<>> /\ UNCHANGED <<queue, pc, stage, conn>>
        /\ open' = open \ Pool!Range(idle) /\ stale' = stale \ Pool!Range(idle)
    BY <1>7 DEF Shutdown, Pool!Close, callVars
  <2>2. idle' \in Seq(Conn) BY <2>1, EmptySeq
  <2>3. Pool!TypeOK' BY <2>1, <2>2 DEF PoolOK, Pool!TypeOK
  <2>4. Hands' /\ Full' BY <2>1 DEF PoolOK, Hands, Full
  <2>5. QED BY <2>3, <2>4 DEF PoolOK
<1>8. CASE ConnectionDies
  BY <1>8 DEF ConnectionDies, Pool!GoesStale, PoolOK, Pool!TypeOK, Hands, Full, callVars
<1>9. CASE TimePasses \/ UNCHANGED vars
  BY <1>9 DEF TimePasses, vars, callVars, poolVars, PoolOK, Pool!TypeOK, Hands, Full
<1>10. QED BY <1>4, <1>5, <1>6, <1>7, <1>8, <1>9 DEF Next

-----------------------------------------------------------------------------
(***************************************************************************)
(* The cache's part.                                                       *)
(***************************************************************************)
Values ==
  /\ cached \in Schema \cup {NoSchema}
  /\ serving \in BOOLEAN
  /\ force \in [Caller -> BOOLEAN]
  /\ asked \in [Caller -> Nat] /\ began \in [Caller -> Nat]
  /\ reply \in [Caller -> Reply \cup {NoReply}]
  /\ now \in Nat

CacheOK == Values /\ Times /\ Overdue /\ RepliesCurrent

\* A call returns what is cached.
LEMMA AnsweredOK ==
  ASSUME CacheOK, pc \in [Caller -> Location], NEW c \in Caller, NEW forced \in BOOLEAN,
         NEW t \in Nat, t <= now, Suffices(forced), Returns(c, cached, t, forced),
         pc[c] \in Outside, force' \in [Caller -> BOOLEAN], asked' = [asked EXCEPT ![c] = t],
         \A d \in Caller : d # c => force'[d] = force[d],
         UNCHANGED <<cached, began, now>>
  PROVE  CacheOK'
<1> USE DEF CacheOK, Values, Returns
<1>1. cached \in Schema /\ now - cached.at < Ttl /\ ~forced BY DEF Suffices, Fresh
<1>2. [schema |-> cached, asked |-> t, served |-> now, forced |-> forced] \in Reply
  BY <1>1 DEF Reply
<1>3. Values' BY <1>2
<1>4. Times' BY DEF Times, Outside
<1>5. Overdue' BY DEF Overdue, Outside
<1>6. RepliesCurrent' BY <1>1 DEF RepliesCurrent
<1>7. QED BY <1>3, <1>4, <1>5, <1>6

\* The head of the line begins to introspect.
LEMMA BeginsOK ==
  ASSUME CacheOK, pc \in [Caller -> Location], NEW c \in Caller, NEW forced \in BOOLEAN,
         NEW t \in Nat, t <= now, ~Suffices(forced), Introspects(c),
         force' = [force EXCEPT ![c] = forced], asked' = [asked EXCEPT ![c] = t],
         UNCHANGED now
  PROVE  CacheOK'
<1> USE DEF CacheOK, Values, Introspects
<1>1. cached # NoSchema /\ cached.tables = "some" /\ ~forced => now - cached.at >= Ttl
  BY SchemaAssumption DEF Suffices, Fresh, Schema
<1>2. Values' OBVIOUS
<1>3. Times' BY DEF Times, Outside
<1>4. Overdue' BY <1>1 DEF Overdue, Outside
<1>5. RepliesCurrent' BY DEF RepliesCurrent
<1>6. QED BY <1>2, <1>3, <1>4, <1>5

\* It returns what it has read.
LEMMA FinishOK ==
  ASSUME CacheOK, pc \in [Caller -> Location], NEW c \in Caller,
         NEW tables \in {"none", "some"}, Finish(c, tables),
         pc[c] \notin Outside, \A d \in Caller : d # c => pc[d] \in Outside
  PROVE  CacheOK'
<1> DEFINE schema == [tables |-> tables, began |-> began[c], at |-> now]
           r == [schema |-> schema, asked |-> asked[c], served |-> now, forced |-> force[c]]
<1> USE DEF CacheOK, Values
<1>1. /\ cached' = schema /\ UNCHANGED <<force, asked, began, now>>
      /\ pc' = [pc EXCEPT ![c] = "done"] /\ reply' = [reply EXCEPT ![c] = r]
      /\ serving' \in BOOLEAN
  BY DEF Finish, Returns
<1>2. schema \in Schema BY DEF Schema
<1>3. r \in Reply /\ r.schema.began = began[c] /\ r.asked = asked[c] BY <1>2 DEF Reply
<1> HIDE DEF schema, r
<1>4. Values' BY <1>1, <1>2, <1>3
<1>5. Times' BY <1>1 DEF Times, Outside
<1>6. Overdue' BY <1>1 DEF Overdue, Outside
<1>7. began[c] >= asked[c] BY DEF Times
<1>8. RepliesCurrent' BY <1>1, <1>3, <1>7 DEF RepliesCurrent
<1>9. QED BY <1>4, <1>5, <1>6, <1>8

\* The cache, the calls' records and the clock stay; calls at most move within or out of
\* the introspection.
LEMMA UntouchedOK ==
  ASSUME CacheOK, UNCHANGED <<cached, force, asked, began, reply, now>>, serving' \in BOOLEAN,
         \A c \in Caller : pc[c] \in Outside => pc'[c] \in Outside
  PROVE  CacheOK'
BY DEF CacheOK, Values, Times, Overdue, RepliesCurrent

LEMMA CacheStep == IInv /\ [Next]_vars => CacheOK'
<1> SUFFICES ASSUME IInv, [Next]_vars PROVE CacheOK'
  OBVIOUS
<1>1. CacheOK /\ Line(queue, pc) BY DEF CacheOK, Values, IInv, TypeOK
<1>2. pc \in [Caller -> Location] BY <1>1 DEF Line
<1>3. now \in Nat /\ serving \in BOOLEAN /\ force \in [Caller -> BOOLEAN]
      /\ asked \in [Caller -> Nat]
  BY <1>1 DEF CacheOK, Values
<1>4. ASSUME NEW c \in Caller, Asks(c) PROVE CacheOK'
  <2>1. PICK forced \in BOOLEAN : AskFast(c, forced) \/ AskSlow(c, forced) BY <1>4 DEF Asks
  <2>2. CASE AskFast(c, forced)
    <3>1. pc[c] \in Outside BY <2>2 DEF AskFast, MayAsk, Outside
    <3>2. /\ Suffices(forced) /\ Returns(c, cached, now, forced)
          /\ force' = [force EXCEPT ![c] = forced] /\ asked' = [asked EXCEPT ![c] = now]
          /\ UNCHANGED <<cached, began, now>>
      BY <2>2 DEF AskFast
    <3>3. now <= now /\ force' \in [Caller -> BOOLEAN] /\ \A d \in Caller : d # c => force'[d] = force[d]
      BY <1>3, <3>2
    <3>4. QED BY <1>1, <1>2, <1>3, <3>1, <3>2, <3>3, AnsweredOK
  <2>3. CASE queue = <<>> /\ AskSlow(c, forced)
    <3>1. /\ ~Suffices(forced) /\ Introspects(c)
          /\ force' = [force EXCEPT ![c] = forced] /\ asked' = [asked EXCEPT ![c] = now]
          /\ now' = now /\ now <= now
      BY <1>3, <2>3 DEF AskSlow
    <3>2. QED BY <1>1, <1>2, <1>3, <3>1, BeginsOK
  <2>4. CASE queue # <<>> /\ AskSlow(c, forced)
    <3>1. /\ pc' = [pc EXCEPT ![c] = "waiting"] /\ asked' = [asked EXCEPT ![c] = now]
          /\ force' = [force EXCEPT ![c] = forced] /\ UNCHANGED <<cached, serving, began, reply, now>>
      BY <2>4 DEF AskSlow
    <3>2. QED BY <1>1, <1>2, <3>1 DEF CacheOK, Values, Times, Overdue, RepliesCurrent, Outside
  <2>5. QED BY <2>1, <2>2, <2>3, <2>4
<1>5. ASSUME NEW c \in Caller, Proceeds(c) PROVE CacheOK'
  <2>1. asked[c] \in Nat /\ asked[c] <= now /\ force[c] \in BOOLEAN
        /\ [asked EXCEPT ![c] = asked[c]] = asked /\ [force EXCEPT ![c] = force[c]] = force
    BY <1>1, <1>3 DEF CacheOK, Times
  <2>2. CASE RecheckSuffices(c)
    <3>1. pc[c] \in Outside BY <2>2 DEF RecheckSuffices, HasLock, Outside
    <3>2. QED BY <1>1, <1>2, <1>3, <2>1, <2>2, <3>1, AnsweredOK DEF RecheckSuffices
  <2>3. CASE RecheckFails(c)
    BY <1>1, <1>2, <2>1, <2>3, BeginsOK DEF RecheckFails
  <2>4. ASSUME pc[c] \notin Outside, NEW tables \in {"none", "some"}, Finish(c, tables)
        PROVE  CacheOK'
    BY <1>1, <1>2, <2>4, Locked, FinishOK
  <2>5. CASE Opened(c) \/ ObjectsRead(c) \/ Reopened(c)
    <3>1. UNCHANGED <<cached, serving, force, asked, began, reply, now>>
          /\ pc[c] \notin Outside /\ \A d \in Caller : d # c => pc'[d] = pc[d]
      BY <1>2, <2>5 DEF Opened, ObjectsRead, Reopened, Outside
    <3>2. QED BY <1>1, <1>3, <3>1, UntouchedOK
  <2>6. CASE OpenFails(c) \/ QueryFails(c) \/ ReopenFails(c)
    <3>1. UNCHANGED <<cached, serving, force, asked, began, reply, now>>
          /\ pc' = [pc EXCEPT ![c] = "done"]
      BY <2>6 DEF OpenFails, QueryFails, ReopenFails, Raises
    <3>2. QED BY <1>1, <1>2, <1>3, <3>1, UntouchedOK DEF Outside
  <2>7. CASE ColumnsRead(c)
    <3>1. pc[c] \notin Outside BY <2>7 DEF ColumnsRead, Outside
    <3>2. CASE \E tables \in {"none", "some"} : Finish(c, tables) BY <2>4, <3>1, <3>2
    <3>3. CASE /\ UNCHANGED <<cached, serving, force, asked, began, reply, now>>
               /\ \A d \in Caller : d # c => pc'[d] = pc[d]
      BY <1>1, <1>3, <3>1, <3>3, UntouchedOK
    <3>4. QED BY <1>2, <2>7, <3>2, <3>3 DEF ColumnsRead
  <2>8. CASE RowsCounted(c)
    <3>1. pc[c] \notin Outside /\ Finish(c, "some") BY <2>8 DEF RowsCounted, Outside
    <3>2. QED BY <2>4, <3>1
  <2>9. QED BY <1>5, <2>2, <2>3, <2>5, <2>6, <2>7, <2>8 DEF Proceeds
<1>6. CASE StartPool \/ Shutdown \/ ConnectionDies \/ UNCHANGED vars
  BY <1>1, <1>3, <1>6, UntouchedOK DEF StartPool, Shutdown, ConnectionDies, vars, callVars
<1>7. CASE TimePasses
  BY <1>1, <1>7 DEF TimePasses, callVars, CacheOK, Values, Times, Overdue, RepliesCurrent
<1>8. QED BY <1>4, <1>5, <1>6, <1>7 DEF Next

LEMMA InvInit == Init => IInv
<1> SUFFICES ASSUME Init PROVE IInv
  OBVIOUS
<1> USE SchemaAssumption DEF Init
<1>1. queue = <<>> /\ queue \in Seq(Caller) /\ idle = <<>> /\ idle \in Seq(Conn)
  BY EmptySeq DEF Pool!PoolInit
<1>2. DOMAIN queue = {} BY <1>1
<1>3. Line(queue, pc) BY <1>1, <1>2 DEF Line, Location, Outside
<1>4. TypeOK BY <1>1 DEF TypeOK, Pool!TypeOK, Pool!PoolInit, Location
<1>5. Hands /\ Full BY <1>1 DEF Hands, Full, Pool!PoolInit, Outside
<1>6. Times /\ Overdue /\ RepliesCurrent BY DEF Times, Overdue, RepliesCurrent, Outside
<1>7. QED BY <1>3, <1>4, <1>5, <1>6 DEF IInv

LEMMA InvStep == IInv /\ [Next]_vars => IInv'
<1> SUFFICES ASSUME IInv, [Next]_vars PROVE IInv'
  OBVIOUS
<1>1. Line(queue, pc)' /\ PoolOK' /\ CacheOK' BY LineStep, PoolStep, CacheStep
<1>2. TypeOK' BY <1>1 DEF Line, PoolOK, CacheOK, Values, TypeOK
<1>3. QED BY <1>1, <1>2 DEF IInv, PoolOK, CacheOK

LEMMA Inductive == Spec => []IInv
BY InvInit, InvStep, PTL DEF Spec

-----------------------------------------------------------------------------
\* Every reachable state of the schema service and its pool is well typed.
THEOREM TypeCorrect == Spec => []TypeOK
<1>1. IInv => TypeOK BY DEF IInv
<1>2. QED BY <1>1, Inductive, PTL

\* Whoever introspects has the lock and one connection, and the deque never runs dry
\* for it, however introspections end (schema_service.py:100-123, database.py:63-66).
THEOREM LockAndConnectionHolds == Spec => []LockAndConnection
<1>1. ASSUME IInv PROVE LockAndConnection
  <2> USE DEF Outside, Inside
  <2>1. Line(queue, pc) /\ Hands /\ pc \in [Caller -> Location] BY <1>1 DEF IInv, Line
  <2>2. \A c \in Caller : Inside(c) => queue # <<>> /\ Head(queue) = c
    BY <2>1, Locked
  <2>3. \A c \in Caller : /\ stage[c] # "out" <=> Inside(c)
                          /\ stage[c] # "creating"
    BY <2>1 DEF Hands, Location
  <2>4. \A i \in DOMAIN queue : pc[queue[i]] = "waiting" \/ Inside(queue[i])
    <3>1. DOMAIN queue = 1 .. Len(queue) /\ Len(queue) \in Nat BY <2>1, LenProperties DEF Line
    <3>2. QED BY <2>1, <3>1 DEF Line
  <2>5. \A c \in Caller : pc[c] = "waiting" => \E i \in DOMAIN queue : queue[i] = c
    BY <2>1 DEF Line
  <2>6. QED BY <2>2, <2>3, <2>4, <2>5 DEF LockAndConnection
<1>2. QED BY <1>1, Inductive, PTL

\* What a call returns was read after it was made, or was within its lifetime and no
\* refresh had been asked for (schema_service.py:91-108).
THEOREM RepliesCurrentHolds == Spec => []RepliesCurrent
<1>1. IInv => RepliesCurrent BY DEF IInv
<1>2. QED BY <1>1, Inductive, PTL

\* Unless a call insists, no schema replaces another that is within its lifetime
\* when the introspection begins (schema_service.py:95-106).
THEOREM OncePerLifetimeHolds == Spec => OncePerLifetime
<1>1. ASSUME IInv, NEW c \in Caller, Inside(c), ~force[c], cached # NoSchema,
             cached.tables = "some"
      PROVE  began[c] - cached.at >= Ttl
  BY <1>1 DEF IInv, Overdue, Inside, Outside
<1>2. IInv /\ [Next]_vars =>
        [\A c \in Caller :
           /\ Inside(c) /\ ~force[c] /\ cached' # cached
           /\ cached # NoSchema /\ cached.tables = "some"
           => began[c] - cached.at >= Ttl]_vars
  BY <1>1
<1>3. QED BY <1>2, Inductive, PTL DEF Spec, OncePerLifetime
=============================================================================

------------------------------ MODULE DatabasePool ------------------------------
(***************************************************************************)
(* The connection pool, app/infrastructure/database.py.  User is whoever   *)
(* may be inside `async with pool.acquire()`.                              *)
(*                                                                         *)
(* Creating a connection runs in a worker thread, and its user waits for   *)
(* it; the health check does not suspend.  A connection to which nobody    *)
(* refers any more is closed by the runtime.  The thread lock spans no     *)
(* suspension, so it needs no state.                                       *)
(***************************************************************************)
EXTENDS Integers, Sequences, FiniteSets, Functions

CONSTANTS User, Conn, NoConn,   \* NoConn: no connection
          PoolSize

ASSUME PoolAssumption == IsFiniteSet(User) /\ PoolSize \in Nat /\ NoConn \notin Conn

VARIABLES
  phase,        \* of the application: starting, failed, running, closed
  idle,         \* the deque
  open,         \* the connections that exist
  stale,        \* those that the server has dropped
  stage,        \* out, creating, reconnecting or using, for each user
  conn          \* the connection that each user has

poolVars == <<phase, idle, open, stale, stage, conn>>

PoolInit ==
  /\ phase = IF PoolSize = 0 THEN "running" ELSE "starting"
  /\ idle = <<>> /\ open = {} /\ stale = {}
  /\ stage = [u \in User |-> "out"]
  /\ conn = [u \in User |-> NoConn]

-----------------------------------------------------------------------------
(* initialize *)

Populate ==
  /\ phase = "starting"
  /\ \E c \in Conn \ open : idle' = Append(idle, c) /\ open' = open \cup {c}
  /\ phase' = IF Len(idle) + 1 = PoolSize THEN "running" ELSE phase
  /\ UNCHANGED <<stale, stage, conn>>

PopulateFails ==
  /\ phase = "starting"
  /\ phase' = "failed"
  /\ UNCHANGED <<idle, open, stale, stage, conn>>

-----------------------------------------------------------------------------
(* acquire: entering, its two awaits, and leaving. *)

\* Mutation: no health check.
TakeUnchecked(u, q) ==
  /\ idle' = IF q = <<>> THEN q ELSE Tail(q)
  /\ conn' = [conn EXCEPT ![u] = IF q = <<>> THEN NoConn ELSE Head(q)]
  /\ stage' = [stage EXCEPT ![u] = IF q = <<>> THEN "creating" ELSE "using"]

\* Entering when the deque is q: popleft and the health check, or a new connection.
Take(u, q) ==
  /\ idle' = IF q = <<>> THEN q ELSE Tail(q)
  /\ conn' = [conn EXCEPT ![u] = IF q = <<>> THEN NoConn ELSE Head(q)]
  /\ stage' = [stage EXCEPT ![u] = IF q = <<>> THEN "creating"
                                   ELSE IF Head(q) \in stale THEN "reconnecting" ELSE "using"]

\* Leaving: back to the deque, or closed when the deque is full.
AfterRelease(u) == IF Len(idle) < PoolSize THEN Append(idle, conn[u]) ELSE idle

\* Mutation: a connection for which there is no room is forgotten, not closed.
ForgetOverflow(u) == UNCHANGED <<open, stale>>

CloseOverflow(u) ==
  LET dropped == IF Len(idle) < PoolSize THEN {} ELSE {conn[u]}
  IN open' = open \ dropped /\ stale' = stale \ dropped

Leave(u) ==
  /\ idle' = AfterRelease(u)
  /\ CloseOverflow(u)
  /\ stage' = [stage EXCEPT ![u] = "out"]
  /\ conn' = [conn EXCEPT ![u] = NoConn]
  /\ UNCHANGED phase

Acquire(u) ==
  /\ phase = "running" /\ stage[u] = "out"
  /\ Take(u, idle)
  /\ UNCHANGED <<phase, open, stale>>

Release(u) == stage[u] = "using" /\ Leave(u)

\* One block left and another entered without a suspension between them.
Reacquire(u) ==
  /\ stage[u] = "using"
  /\ Take(u, AfterRelease(u))
  /\ CloseOverflow(u)
  /\ UNCHANGED phase

\* The connection is there; a first one is checked like any other, and may already
\* be stale, while a second one is used unchecked.
Connected(u) ==
  /\ \E c \in Conn \ open :
       /\ conn' = [conn EXCEPT ![u] = c]
       /\ open' = (open \ {conn[u]}) \cup {c}
       /\ \/ /\ stage[u] \in {"creating", "reconnecting"}
             /\ stage' = [stage EXCEPT ![u] = "using"]
             /\ stale' = stale \ {conn[u]}
          \/ /\ stage[u] = "creating"
             /\ stage' = [stage EXCEPT ![u] = "reconnecting"]
             /\ stale' = stale \cup {c}
  /\ UNCHANGED <<phase, idle>>

\* Mutation: a user whose reconnection failed leaves without its connection.
RefusedLeavesNothing(u) ==
  /\ stage[u] \in {"creating", "reconnecting"}
  /\ stage' = [stage EXCEPT ![u] = "out"]
  /\ conn' = [conn EXCEPT ![u] = NoConn]
  /\ open' = open \ {conn[u]} /\ stale' = stale \ {conn[u]}
  /\ UNCHANGED <<phase, idle>>

\* No connection can be made: a user that had none leaves with nothing; the stale
\* one of a user that was to reconnect goes back to the deque.
Refused(u) ==
  \/ /\ stage[u] = "creating"
     /\ stage' = [stage EXCEPT ![u] = "out"]
     /\ UNCHANGED <<phase, idle, open, stale, conn>>
  \/ stage[u] = "reconnecting" /\ Leave(u)

-----------------------------------------------------------------------------
\* The server or the network drops a connection.
GoesStale ==
  /\ \E c \in open \ stale : stale' = stale \cup {c}
  /\ UNCHANGED <<phase, idle, open, stage, conn>>

\* close, at shutdown: the server has waited for the requests under way.
Close ==
  /\ phase = "running" /\ \A u \in User : stage[u] = "out"
  /\ phase' = "closed"
  /\ idle' = <<>>
  /\ open' = open \ Range(idle) /\ stale' = stale \ Range(idle)
  /\ UNCHANGED <<stage, conn>>

-----------------------------------------------------------------------------
Init == PoolInit

Next == \/ Populate \/ PopulateFails
        \/ \E u \in User : \/ Acquire(u) \/ Release(u) \/ Reacquire(u)
                           \/ Connected(u) \/ Refused(u)
        \/ GoesStale \/ Close

Spec == Init /\ [][Next]_poolVars

-----------------------------------------------------------------------------
Holders == {u \in User : conn[u] # NoConn}

\* Type invariant.
TypeOK ==
  /\ phase \in {"starting", "failed", "running", "closed"}
  /\ idle \in Seq(Conn)
  /\ open \subseteq Conn /\ stale \subseteq open
  /\ stage \in [User -> {"out", "creating", "reconnecting", "using"}]
  /\ conn \in [User -> Conn \cup {NoConn}]

\* A connection is in one place: nowhere twice in the deque, not in the deque and in
\* use, not in use by two.  Every open connection is in one of these places, so none
\* is lost, and none is there after it was closed; close leaves none open
\* (database.py:56-89).
InOnePlace ==
  /\ \A i, j \in DOMAIN idle : idle[i] = idle[j] => i = j
  /\ \A u \in Holders : conn[u] \notin Range(idle)
  /\ \A u, v \in Holders : conn[u] = conn[v] => u = v
  /\ open = Range(idle) \cup {conn[u] : u \in Holders}
  /\ phase = "closed" => open = {}

\* The deque keeps to its size, and failed reconnections do not use the pool up:
\* what is in the deque and with users never falls below the size
\* (database.py:69-85).
NeverShrinks ==
  /\ Len(idle) <= PoolSize
  /\ phase = "running" => Len(idle) + Cardinality(Holders) >= PoolSize

\* A user is never handed a connection that was already found dead
\* (database.py:69-77).
HandedOutAlive ==
  [][\A u \in User : stage[u] # "using" /\ stage'[u] = "using" => conn'[u] \notin stale']_poolVars
=============================================================================

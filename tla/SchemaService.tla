------------------------------ MODULE SchemaService ------------------------------
(***************************************************************************)
(* The schema cache, app/services/schema_service.py, with the connection   *)
(* pool it is the only user of, from startup (app/dependencies.py: fill    *)
(* the pool, introspect once, serve) to shutdown.                          *)
(*                                                                         *)
(* A caller is one call of get_tables.  queue is the asyncio lock: its     *)
(* head has the lock or is next to get it, and nobody overtakes, because   *)
(* a lock that has waiters does not let others in.  Of a schema only       *)
(* matters whether it has any table: an empty list is falsy, and the cache *)
(* then counts as cold.                                                    *)
(***************************************************************************)
EXTENDS Integers, Sequences, FiniteSets

CONSTANTS Caller, Startup,     \* Startup: the call of init_services
          Conn, NoConn, PoolSize,
          Ttl,
          NoSchema, NoReply,   \* absent values
          MaxClock             \* bound of the model: the clock stops here

Schema == [tables : {"none", "some"}, began : Nat, at : Nat]

Reply == [schema : Schema, asked : Nat, served : Nat, forced : BOOLEAN]

ASSUME SchemaAssumption ==
  /\ IsFiniteSet(Caller) /\ Startup \in Caller
  /\ PoolSize \in Nat \ {0} /\ NoConn \notin Conn
  /\ Ttl \in Nat
  /\ NoSchema \notin Schema /\ NoReply \notin Reply
  /\ MaxClock \in Nat

VARIABLES
  phase, idle, open, stale, stage, conn,    \* the pool
  cached,       \* _cached_tables and _cached_at; `began` is auxiliary
  queue,
  serving,      \* startup is over
  pc,           \* where each call is
  force, asked, \* its argument and when it was made
  began,        \* auxiliary: when its introspection began
  reply,        \* what it returned
  now

poolVars == <<phase, idle, open, stale, stage, conn>>
callVars == <<pc, force, asked, began, reply>>
vars == <<poolVars, cached, queue, serving, callVars, now>>

Pool == INSTANCE DatabasePool WITH User <- Caller

Location == {"idle", "waiting", "opening", "objects", "columns",
             "reopening", "counting", "done"}

Init ==
  /\ Pool!PoolInit
  /\ cached = NoSchema /\ queue = <<>> /\ serving = FALSE
  /\ pc = [c \in Caller |-> "idle"]
  /\ force = [c \in Caller |-> FALSE]
  /\ asked = [c \in Caller |-> 0]
  /\ began = [c \in Caller |-> 0]
  /\ reply = [c \in Caller |-> NoReply]
  /\ now = 0

-----------------------------------------------------------------------------
\* Mutation: the age of the cached schema is not looked at.
FreshForever == cached # NoSchema /\ cached.tables = "some"

Fresh == cached # NoSchema /\ cached.tables = "some" /\ now - cached.at < Ttl

\* Mutation: what is cached is good enough for a forced call as well.
SufficesAnyway(forced) == Fresh

Suffices(forced) == ~forced /\ Fresh

Returns(c, schema, t, forced) ==
  /\ pc' = [pc EXCEPT ![c] = "done"]
  /\ reply' = [reply EXCEPT ![c] =
       [schema |-> schema, asked |-> t, served |-> now, forced |-> forced]]
  /\ serving' = (serving \/ c = Startup)

\* Mutation: the lock is kept.
RaisesLocked(c) ==
  /\ pc' = [pc EXCEPT ![c] = "done"]
  /\ UNCHANGED <<queue, cached, serving, force, asked, began, reply, now>>

\* An exception leaves get_tables and releases the lock; at startup it stops the
\* application.
Raises(c) ==
  /\ pc' = [pc EXCEPT ![c] = "done"]
  /\ queue' = Tail(queue)
  /\ UNCHANGED <<cached, serving, force, asked, began, reply, now>>

\* The head of the queue enters _introspect: it takes a connection and, if that is
\* sound, sends the first query.
Introspects(c) ==
  /\ Pool!Acquire(c)
  /\ pc' = [pc EXCEPT ![c] = IF stage'[c] = "using" THEN "objects" ELSE "opening"]
  /\ began' = [began EXCEPT ![c] = now]
  /\ UNCHANGED <<cached, serving, reply>>

-----------------------------------------------------------------------------
(* get_tables *)

MayAsk(c, forced) ==
  /\ pc[c] = "idle" /\ phase = "running"
  /\ serving \/ (c = Startup /\ ~forced)

AskFast(c, forced) ==
  /\ MayAsk(c, forced)
  /\ Suffices(forced)
  /\ Returns(c, cached, now, forced)
  /\ force' = [force EXCEPT ![c] = forced]
  /\ asked' = [asked EXCEPT ![c] = now]
  /\ UNCHANGED <<poolVars, cached, queue, began, now>>

AskSlow(c, forced) ==
  /\ MayAsk(c, forced)
  /\ ~Suffices(forced)
  /\ queue' = Append(queue, c)
  /\ \/ /\ queue = <<>>
        /\ Introspects(c)
     \/ /\ queue # <<>>
        /\ pc' = [pc EXCEPT ![c] = "waiting"]
        /\ UNCHANGED <<poolVars, cached, serving, began, reply>>
  /\ force' = [force EXCEPT ![c] = forced]
  /\ asked' = [asked EXCEPT ![c] = now]
  /\ UNCHANGED now

HasLock(c) == pc[c] = "waiting" /\ queue # <<>> /\ Head(queue) = c

\* The second check.
RecheckSuffices(c) ==
  /\ HasLock(c)
  /\ Suffices(force[c])
  /\ Returns(c, cached, asked[c], force[c])
  /\ queue' = Tail(queue)
  /\ UNCHANGED <<poolVars, cached, force, asked, began, now>>

\* Mutation: the head of the queue introspects without looking at the cache again.
RecheckForgotten(c) ==
  /\ HasLock(c)
  /\ Introspects(c)
  /\ UNCHANGED <<queue, force, asked, now>>

RecheckFails(c) ==
  /\ HasLock(c)
  /\ ~Suffices(force[c])
  /\ Introspects(c)
  /\ UNCHANGED <<queue, force, asked, now>>

-----------------------------------------------------------------------------
(* _introspect *)

\* The connection is there, or has to be made once more.
Opened(c) ==
  /\ pc[c] = "opening"
  /\ Pool!Connected(c)
  /\ pc' = [pc EXCEPT ![c] = IF stage'[c] = "using" THEN "objects" ELSE @]
  /\ UNCHANGED <<cached, queue, serving, force, asked, began, reply, now>>

OpenFails(c) ==
  /\ pc[c] = "opening"
  /\ Pool!Refused(c)
  /\ Raises(c)

ObjectsRead(c) ==
  /\ pc[c] = "objects"
  /\ pc' = [pc EXCEPT ![c] = "columns"]
  /\ UNCHANGED <<poolVars, cached, queue, serving, force, asked, began, reply, now>>

\* Mutation: the connection is kept.
QueryFailsLeaking(c) ==
  /\ pc[c] \in {"objects", "columns"}
  /\ UNCHANGED poolVars
  /\ Raises(c)

\* The connection goes back on the way out.
QueryFails(c) ==
  /\ pc[c] \in {"objects", "columns"}
  /\ Pool!Release(c)
  /\ Raises(c)

Finish(c, tables) ==
  LET schema == [tables |-> tables, began |-> began[c], at |-> now]
  IN /\ cached' = schema
     /\ Returns(c, schema, asked[c], force[c])
     /\ queue' = Tail(queue)
     /\ UNCHANGED <<force, asked, began, now>>

\* Without views the tables are complete; with views a second block counts their
\* rows, which needs a connection again.
ColumnsRead(c) ==
  /\ pc[c] = "columns"
  /\ \/ Pool!Release(c) /\ \E tables \in {"none", "some"} : Finish(c, tables)
     \/ /\ Pool!Reacquire(c)
        /\ pc' = [pc EXCEPT ![c] = IF stage'[c] = "using" THEN "counting" ELSE "reopening"]
        /\ UNCHANGED <<cached, queue, serving, force, asked, began, reply, now>>

Reopened(c) ==
  /\ pc[c] = "reopening"
  /\ Pool!Connected(c)
  /\ pc' = [pc EXCEPT ![c] = IF stage'[c] = "using" THEN "counting" ELSE @]
  /\ UNCHANGED <<cached, queue, serving, force, asked, began, reply, now>>

ReopenFails(c) ==
  /\ pc[c] = "reopening"
  /\ Pool!Refused(c)
  /\ Raises(c)

\* A count that fails becomes a zero.
RowsCounted(c) ==
  /\ pc[c] = "counting"
  /\ Pool!Release(c)
  /\ Finish(c, "some")

-----------------------------------------------------------------------------
(* Startup, shutdown, the server and the clock. *)

StartPool == (Pool!Populate \/ Pool!PopulateFails) /\ UNCHANGED <<cached, queue, serving, callVars, now>>

Shutdown ==
  /\ serving /\ queue = <<>>
  /\ Pool!Close
  /\ UNCHANGED <<cached, queue, serving, callVars, now>>

ConnectionDies == Pool!GoesStale /\ UNCHANGED <<cached, queue, serving, callVars, now>>

TimePasses ==
  /\ now < MaxClock
  /\ now' = now + 1
  /\ UNCHANGED <<poolVars, cached, queue, serving, callVars>>

Asks(c) == \E forced \in BOOLEAN : AskFast(c, forced) \/ AskSlow(c, forced)

Proceeds(c) ==
  \/ RecheckSuffices(c) \/ RecheckFails(c)
  \/ Opened(c) \/ OpenFails(c)
  \/ ObjectsRead(c) \/ QueryFails(c) \/ ColumnsRead(c)
  \/ Reopened(c) \/ ReopenFails(c) \/ RowsCounted(c)

Next == \/ \E c \in Caller : Asks(c) \/ Proceeds(c)
        \/ StartPool \/ Shutdown \/ ConnectionDies \/ TimePasses

Spec == Init /\ [][Next]_vars

FairSpec == Spec /\ \A c \in Caller : WF_vars(Proceeds(c))

-----------------------------------------------------------------------------
\* Type invariant.
TypeOK ==
  /\ Pool!TypeOK
  /\ cached \in Schema \cup {NoSchema}
  /\ queue \in Seq(Caller)
  /\ serving \in BOOLEAN
  /\ pc \in [Caller -> Location]
  /\ force \in [Caller -> BOOLEAN]
  /\ asked \in [Caller -> Nat] /\ began \in [Caller -> Nat]
  /\ reply \in [Caller -> Reply \cup {NoReply}]
  /\ now \in Nat

Inside(c) == pc[c] \notin {"idle", "waiting", "done"}

\* Whoever introspects has the lock, and has a connection exactly while it does or
\* waits for one: every way out, by return or exception, gives both back.  So the pool
\* never runs dry and makes no overflow connection for it, although errors send
\* connections back dead (schema_service.py:100-123, database.py:63-66).
LockAndConnection ==
  /\ \A c \in Caller : Inside(c) => queue # <<>> /\ Head(queue) = c
  /\ \A c \in Caller : stage[c] # "out" <=> Inside(c)
  /\ \A c \in Caller : pc[c] = "waiting" <=> ~Inside(c) /\ \E i \in DOMAIN queue : queue[i] = c
  /\ \A c \in Caller : stage[c] # "creating"

\* What a call returns was read after it was made, or was within its lifetime when it
\* was returned and no refresh had been asked for (schema_service.py:91-108).
RepliesCurrent ==
  \A c \in Caller : reply[c] # NoReply =>
    LET r == reply[c]
    IN r.schema.began >= r.asked \/ (~r.forced /\ r.served - r.schema.at < Ttl)

\* Unless somebody insists, the database is introspected at most once per lifetime,
\* however many calls find the cache cold together (schema_service.py:95-106).
OncePerLifetime ==
  [][\A c \in Caller :
       /\ Inside(c) /\ ~force[c] /\ cached' # cached
       /\ cached # NoSchema /\ cached.tables = "some"
       => began[c] - cached.at >= Ttl]_vars

\* Every call returns or raises, also the ones that wait for the lock behind
\* introspections that fail (schema_service.py:100-108).
EveryCallEnds == \A c \in Caller : pc[c] # "idle" ~> pc[c] = "done"

=============================================================================

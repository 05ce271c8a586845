------------------------------ MODULE RateLimiter ------------------------------
(***************************************************************************)
(* The sliding-window limiter in front of the API,                         *)
(* app/middleware/rate_limiter.py.  dispatch decides without a suspension, *)
(* so a request is one action; requests for the health check and for       *)
(* static files pass by it and change nothing.                             *)
(*                                                                         *)
(* Client is the set of remote addresses, "unknown" among them.  A bucket  *)
(* is a list of times in the code.  Its order is never used, so it is a    *)
(* set here, of times numbered to keep equal ones apart.                   *)
(***************************************************************************)
EXTENDS Integers, FiniteSets

CONSTANTS Client, MaxRequests, Window,
          MaxClock      \* bound of the model: the clock stops here

ASSUME LimiterAssumption ==
  /\ MaxRequests \in Nat
  /\ Window \in Nat
  /\ MaxClock \in Nat

VARIABLES
  buckets,
  admitted,     \* history variable: every request of a client that was let through
  refusedAt,    \* history variable: when a client was last refused
  now

limiterVars == <<buckets, admitted, refusedAt, now>>

Never == -1

Stamp == [nth : Nat, at : Nat]

Init ==
  /\ buckets = [c \in Client |-> {}]
  /\ admitted = [c \in Client |-> {}]
  /\ refusedAt = [c \in Client |-> Never]
  /\ now = 0

\* Mutation: a request stays in its bucket for one more unit of time.
RecentTooLong(c) == {s \in buckets[c] : now - s.at <= Window}

\* The bucket after pruning.
Recent(c) == {s \in buckets[c] : now - s.at < Window}

\* Mutation: the limit itself is not yet full.
FullTooLate(c) == Cardinality(Recent(c)) > MaxRequests

Full(c) == Cardinality(Recent(c)) >= MaxRequests

Admit(c) ==
  /\ ~Full(c)
  /\ LET stamp == [nth |-> Cardinality(admitted[c]) + 1, at |-> now]
     IN /\ buckets' = [buckets EXCEPT ![c] = Recent(c) \cup {stamp}]
        /\ admitted' = [admitted EXCEPT ![c] = @ \cup {stamp}]
  /\ UNCHANGED <<refusedAt, now>>

\* HTTP 429; a refused request does not count.
Refuse(c) ==
  /\ Full(c)
  /\ buckets' = [buckets EXCEPT ![c] = Recent(c)]
  /\ refusedAt' = [refusedAt EXCEPT ![c] = now]
  /\ UNCHANGED <<admitted, now>>

Tick ==
  /\ now < MaxClock
  /\ now' = now + 1
  /\ UNCHANGED <<buckets, admitted, refusedAt>>

Next == (\E c \in Client : Admit(c) \/ Refuse(c)) \/ Tick

Spec == Init /\ [][Next]_limiterVars

-----------------------------------------------------------------------------
\* Type invariant.
TypeOK ==
  /\ buckets \in [Client -> SUBSET Stamp]
  /\ admitted \in [Client -> SUBSET Stamp]
  /\ refusedAt \in [Client -> Nat \cup {Never}]
  /\ now \in Nat

AdmittedIn(c, from, to) == {s \in admitted[c] : from <= s.at /\ s.at < to}

\* In no interval of the window's length, wherever it begins, is more than the limit
\* let through for one address, although pruning forgets (rate_limiter.py:38-55).
AnyWindow ==
  \A c \in Client : \A t \in 0 .. now :
    Cardinality(AdmittedIn(c, t, t + Window)) <= MaxRequests

\* A client is refused only when the limit has been used up within the window that
\* ends with the refusal: refused requests never count, and old ones are forgotten
\* in time (rate_limiter.py:38-53).
RefusedOnlyWhenFull ==
  \A c \in Client : refusedAt[c] # Never =>
    Cardinality(AdmittedIn(c, refusedAt[c] - Window + 1, refusedAt[c] + 1)) = MaxRequests
=============================================================================

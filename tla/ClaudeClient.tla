------------------------------- MODULE ClaudeClient -------------------------------
(***************************************************************************)
(* One call of ClaudeClient.complete, app/infrastructure/claude_client.py: *)
(* attempts at the Anthropic API with waits between them.  Calls share no  *)
(* state, so the calls of other requests need no place here.               *)
(*                                                                         *)
(* An attempt is one `await messages.create`; what the SDK repeats inside  *)
(* it is its own affair.  "empty_content" is the IndexError of an answer   *)
(* without content, "other" any other exception.                           *)
(***************************************************************************)
EXTENDS Integers

CONSTANTS
  MaxAttempts,         \* stop_after_attempt(3); max_retries is never read
  MinWait, MaxWait     \* seconds: wait_exponential(min=1, max=10)

ASSUME ClientAssumption ==
  /\ MaxAttempts \in Nat \ {0}
  /\ MinWait \in Nat /\ MaxWait \in Nat /\ MinWait <= MaxWait

VARIABLES
  phase,       \* what the call does
  attempts,    \* how many it has begun
  error,       \* how the last one failed
  waited       \* seconds slept so far

clientVars == <<phase, attempts, error, waited>>

Phase == {"idle", "calling", "sleeping", "returned", "raised"}

Transient == {"rate_limit", "server_error", "connection"}
Permanent == {"bad_request", "authentication", "empty_content", "other"}

ClientInit == phase = "idle" /\ attempts = 0 /\ error = "none" /\ waited = 0

\* complete is called.
Start ==
  /\ phase' = "calling" /\ attempts' = 1 /\ error' = "none" /\ waited' = 0

Returns ==
  /\ phase = "calling"
  /\ phase' = "returned" /\ error' = "none"
  /\ UNCHANGED <<attempts, waited>>

Clamped(w) ==
  IF w \in MinWait .. MaxWait THEN w ELSE IF w < MinWait THEN MinWait ELSE MaxWait

\* Doubles from one second, within the limits.
Wait(n) == Clamped(2 ^ (n - 1))

\* Mutation: every error is tried again.
RetriesAnything(e) == attempts < MaxAttempts

Retries(e) == e \in Transient /\ attempts < MaxAttempts

\* An attempt fails: it is repeated after a while, or the call raises; a transient
\* error then as RetryError, another one as itself.
AttemptFails ==
  /\ phase = "calling"
  /\ \E e \in Transient \cup Permanent :
       /\ error' = e
       /\ phase' = IF Retries(e) THEN "sleeping" ELSE "raised"
       /\ waited' = IF Retries(e) THEN waited + Wait(attempts) ELSE waited
  /\ UNCHANGED attempts

WakesUp ==
  /\ phase = "sleeping"
  /\ phase' = "calling" /\ attempts' = attempts + 1
  /\ UNCHANGED <<error, waited>>

Works == Returns \/ AttemptFails \/ WakesUp

\* The caller has taken the result.
Taken == phase' = "idle" /\ attempts' = 0 /\ error' = "none" /\ waited' = 0
=============================================================================

------------------------------ MODULE AnswerService ------------------------------
(***************************************************************************)
(* What the service promises a client, whatever happens inside: a request  *)
(* is answered at once by an answer that was already given to somebody who *)
(* asked the same and is not older than Lifetime, or it is worked on and   *)
(* ends with an answer of its own making, or it is refused.                *)
(*                                                                         *)
(* The abstract specification that QueryOrchestrator implements.           *)
(***************************************************************************)
EXTENDS Integers

CONSTANTS Request, Key, Lifetime,
          NoKey, NoAnswer     \* the absent key and the absent answer

VARIABLES
  phase,      \* idle, waiting, answered or refused
  wants,      \* what the request asks for
  given,      \* the answer it was given
  time

serviceVars == <<phase, wants, given, time>>

Answer == [key : Key, author : Request, made : Nat]

Init ==
  /\ phase = [r \in Request |-> "idle"]
  /\ wants = [r \in Request |-> NoKey]
  /\ given = [r \in Request |-> NoAnswer]
  /\ time = 0

Ask(r, k) ==
  /\ phase[r] = "idle"
  /\ phase' = [phase EXCEPT ![r] = "waiting"]
  /\ wants' = [wants EXCEPT ![r] = k]
  /\ UNCHANGED <<given, time>>

Reuse(r, k, d) ==
  /\ phase[r] = "idle" /\ phase[d] = "answered"
  /\ given[d].author = d
  /\ given[d].key = k
  /\ time <= given[d].made + Lifetime
  /\ phase' = [phase EXCEPT ![r] = "answered"]
  /\ wants' = [wants EXCEPT ![r] = k]
  /\ given' = [given EXCEPT ![r] = given[d]]
  /\ UNCHANGED time

Produce(r) ==
  /\ phase[r] = "waiting"
  /\ phase' = [phase EXCEPT ![r] = "answered"]
  /\ given' = [given EXCEPT ![r] = [key |-> wants[r], author |-> r, made |-> time]]
  /\ UNCHANGED <<wants, time>>

Refuse(r) ==
  /\ phase[r] = "waiting"
  /\ phase' = [phase EXCEPT ![r] = "refused"]
  /\ UNCHANGED <<wants, given, time>>

RefuseAtOnce(r, k) ==
  /\ phase[r] = "idle"
  /\ phase' = [phase EXCEPT ![r] = "refused"]
  /\ wants' = [wants EXCEPT ![r] = k]
  /\ UNCHANGED <<given, time>>

TimePasses ==
  /\ time' = time + 1
  /\ UNCHANGED <<phase, wants, given>>

Next ==
  \/ \E r \in Request :
       \/ \E k \in Key : Ask(r, k) \/ RefuseAtOnce(r, k)
       \/ \E k \in Key, d \in Request : Reuse(r, k, d)
       \/ Produce(r)
       \/ Refuse(r)
  \/ TimePasses

Spec == Init /\ [][Next]_serviceVars
=============================================================================

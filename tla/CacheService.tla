------------------------------ MODULE CacheService ------------------------------
(***************************************************************************)
(* The in-memory answer cache, app/services/cache_service.py.              *)
(*                                                                         *)
(* store[k] is the (value, expires_at) pair the dictionary holds for key k *)
(* or NoEntry.  The clock is in whole units; two entries may then expire   *)
(* together, and the model lets either go first where Python's min takes   *)
(* the one inserted first.  No caller passes the ttl argument of set, so   *)
(* every entry lives for Ttl.                                              *)
(***************************************************************************)
EXTENDS Integers, FiniteSets

CONSTANTS Key, Value, MaxSize, Ttl,
          NoEntry,      \* the absent entry, not a record
          MaxClock      \* bound of the model: the clock stops here

ASSUME CacheAssumption ==
  /\ IsFiniteSet(Key)
  /\ MaxSize \in Nat \ {0}
  /\ Ttl \in Nat \ {0}
  /\ MaxClock \in Nat

VARIABLES store, now

cacheVars == <<store, now>>

Entry == [value : Value, expires : Nat]

ASSUME NoEntryAssumption == NoEntry \notin Entry

Held == {k \in Key : store[k] # NoEntry}

CacheInit == store = [k \in Key |-> NoEntry]

(***************************************************************************)
(* get: an entry past its expiry is deleted when it is looked up, and not  *)
(* before.                                                                 *)
(***************************************************************************)
\* Mutation: an entry is served one unit past its lifetime.
ExpiredLate(k) == now > store[k].expires + 1

Expired(k) == now > store[k].expires

Hit(k) == k \in Held /\ ~Expired(k)

GetHit(k) == Hit(k) /\ UNCHANGED store

GetMiss(k) == ~Hit(k) /\ store' = [store EXCEPT ![k] = NoEntry]

(***************************************************************************)
(* set: at capacity one entry of earliest expiry is dropped, whether or    *)
(* not the key being stored is already there.                              *)
(***************************************************************************)
\* Mutation: max where the code takes min.
LatestToExpire == {k \in Held : \A j \in Held : store[k].expires >= store[j].expires}

EarliestToExpire == {k \in Held : \A j \in Held : store[k].expires <= store[j].expires}

\* Mutation: room is made one entry too late.
RoomOffByOne == IF Cardinality(Held) > MaxSize
                THEN {[store EXCEPT ![k] = NoEntry] : k \in EarliestToExpire}
                ELSE {store}

Room == IF Cardinality(Held) >= MaxSize
        THEN {[store EXCEPT ![k] = NoEntry] : k \in EarliestToExpire}
        ELSE {store}

\* Mutation: the lifetime is subtracted.
SetInThePast(k, v) == \E room \in Room :
  store' = [room EXCEPT ![k] = [value |-> v, expires |-> now - Ttl]]

Set(k, v) == \E room \in Room :
  store' = [room EXCEPT ![k] = [value |-> v, expires |-> now + Ttl]]

Tick == now < MaxClock /\ now' = now + 1

-----------------------------------------------------------------------------
Init == CacheInit /\ now = 0

Next == \/ \E k \in Key : (GetHit(k) \/ GetMiss(k)) /\ UNCHANGED now
        \/ \E k \in Key, v \in Value : Set(k, v) /\ UNCHANGED now
        \/ Tick /\ UNCHANGED store

Spec == Init /\ [][Next]_cacheVars

-----------------------------------------------------------------------------
\* Type invariant: every slot is empty or a dated value.
TypeOK == /\ store \in [Key -> Entry \cup {NoEntry}]
          /\ now \in Nat

\* However many keys are asked for, and although expired entries are only
\* removed when somebody looks them up, the dictionary never outgrows max_size
\* (cache_service.py:48-53).
Capacity == Cardinality(Held) <= MaxSize

\* An answer disappears from the cache only because its time is over, or
\* because the cache was full and nothing in it would have expired sooner;
\* no operation loses two answers (cache_service.py:40-50).
LossJustified ==
  /\ \A k \in Held \ Held' :
       \/ Expired(k)
       \/ /\ Cardinality(Held) >= MaxSize
          /\ \A j \in Held : store[k].expires <= store[j].expires
  /\ Cardinality(Held \ Held') <= 1

LosesOnlyOldest == [][LossJustified]_cacheVars
=============================================================================

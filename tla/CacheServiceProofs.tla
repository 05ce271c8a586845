--------------------------- MODULE CacheServiceProofs ---------------------------
(***************************************************************************)
(* Proofs about CacheService: types, capacity and what a step may drop.    *)
(***************************************************************************)
EXTENDS CacheService, FiniteSetTheorems, TLAPS

\* The set of held keys is finite, because there are finitely many keys.
LEMMA HeldFinite == IsFiniteSet(Held)
<1>1. Held \subseteq Key BY DEF Held
<1>2. QED BY <1>1, CacheAssumption, FS_Subset

\* Whatever room set makes keeps the type of the dictionary.
LEMMA RoomType ==
  ASSUME TypeOK, NEW room \in Room
  PROVE  room \in [Key -> Entry \cup {NoEntry}]
BY DEF TypeOK, Room, EarliestToExpire, Held

LEMMA SetType ==
  ASSUME TypeOK, NEW k \in Key, NEW v \in Value, Set(k, v)
  PROVE  store' \in [Key -> Entry \cup {NoEntry}]
<1>1. PICK room \in Room : store' = [room EXCEPT ![k] = [value |-> v, expires |-> now + Ttl]]
  BY DEF Set
<1>2. room \in [Key -> Entry \cup {NoEntry}] BY RoomType
<1>3. [value |-> v, expires |-> now + Ttl] \in Entry
  BY CacheAssumption DEF TypeOK, Entry
<1>4. QED BY <1>1, <1>2, <1>3

LEMMA TypeInit == Init => TypeOK
BY DEF Init, CacheInit, TypeOK

LEMMA TypeStep == TypeOK /\ [Next]_cacheVars => TypeOK'
<1> SUFFICES ASSUME TypeOK, [Next]_cacheVars PROVE TypeOK'
  OBVIOUS
<1>1. ASSUME NEW k \in Key, GetHit(k) \/ GetMiss(k), UNCHANGED now PROVE TypeOK'
  BY <1>1 DEF TypeOK, GetHit, GetMiss
<1>2. ASSUME NEW k \in Key, NEW v \in Value, Set(k, v), UNCHANGED now PROVE TypeOK'
  BY <1>2, SetType DEF TypeOK
<1>3. CASE Tick /\ UNCHANGED store
  BY <1>3 DEF TypeOK, Tick
<1>4. CASE UNCHANGED cacheVars
  BY <1>4 DEF TypeOK, cacheVars
<1>5. QED BY <1>1, <1>2, <1>3, <1>4 DEF Next

\* Every reachable state of the cache is well typed.
THEOREM TypeCorrect == Spec => []TypeOK
BY TypeInit, TypeStep, PTL DEF Spec

-----------------------------------------------------------------------------
\* Adding an element to a finite set adds at most one to its cardinality.
LEMMA AddOne ==
  ASSUME NEW S, NEW x, IsFiniteSet(S)
  PROVE  IsFiniteSet(S \cup {x}) /\ Cardinality(S \cup {x}) <= Cardinality(S) + 1
<1>1. Cardinality(S) \in Nat BY FS_CardinalityType
<1>2. CASE x \in S
  <2>1. S \cup {x} = S BY <1>2
  <2>2. Cardinality(S) <= Cardinality(S) + 1 BY <1>1
  <2>3. QED BY <2>1, <2>2
<1>3. CASE x \notin S
  <2>1. Cardinality(S \cup {x}) = Cardinality(S) + 1 BY <1>3, FS_AddElement
  <2>2. QED BY <2>1, <1>1, FS_AddElement
<1>4. QED BY <1>2, <1>3

\* Storing an answer keeps the bound: at capacity one held entry goes first.
LEMMA SetCapacity ==
  ASSUME TypeOK, Capacity, NEW k \in Key, NEW v \in Value, Set(k, v)
  PROVE  Capacity'
<1> DEFINE entry == [value |-> v, expires |-> now + Ttl]
<1>1. PICK room \in Room : store' = [room EXCEPT ![k] = entry]
  BY DEF Set
<1>2. room \in [Key -> Entry \cup {NoEntry}] BY RoomType
<1>3. entry \in Entry
  BY CacheAssumption DEF TypeOK, Entry
<1> DEFINE kept == {j \in Key : room[j] # NoEntry}
<1>4. Held' \subseteq kept \cup {k}
  BY <1>1, <1>2 DEF Held
<1>5. IsFiniteSet(Held) /\ Cardinality(Held) \in Nat
  BY HeldFinite, FS_CardinalityType
<1>6. IsFiniteSet(kept) /\ Cardinality(kept) < MaxSize
  <2>1. CASE Cardinality(Held) >= MaxSize
    <3>1. PICK old \in EarliestToExpire : room = [store EXCEPT ![old] = NoEntry]
      BY <2>1 DEF Room
    <3>2. old \in Held BY <3>1 DEF EarliestToExpire
    <3>3. kept = Held \ {old}
      BY <3>1, <3>2 DEF Held, TypeOK
    <3>4. IsFiniteSet(kept) /\ Cardinality(kept) = Cardinality(Held) - 1
      BY <3>2, <3>3, <1>5, FS_RemoveElement
    <3>5. QED BY <3>4, <1>5, CacheAssumption DEF Capacity
  <2>2. CASE ~(Cardinality(Held) >= MaxSize)
    <3>1. kept = Held BY <2>2 DEF Room, Held
    <3>2. QED BY <3>1, <2>2, <1>5, CacheAssumption
  <2>3. QED BY <2>1, <2>2
<1>7. IsFiniteSet(kept \cup {k}) /\ Cardinality(kept \cup {k}) <= Cardinality(kept) + 1
  BY <1>6, AddOne
<1>8. Cardinality(Held') <= Cardinality(kept \cup {k}) /\ Cardinality(Held') \in Nat
  BY <1>4, <1>7, FS_Subset, FS_CardinalityType
<1>9. Cardinality(kept) \in Nat /\ Cardinality(kept \cup {k}) \in Nat
  BY <1>6, <1>7, FS_CardinalityType
<1>10. QED BY <1>6, <1>7, <1>8, <1>9, CacheAssumption DEF Capacity

LEMMA CapacityInit == Init => Capacity
<1>1. ASSUME Init PROVE Held = {} BY <1>1 DEF Init, CacheInit, Held
<1>2. QED BY <1>1, FS_EmptySet, CacheAssumption DEF Capacity

\* A lookup removes at most the key it looked for.
LEMMA GetCapacity ==
  ASSUME TypeOK, Capacity, NEW k \in Key, GetHit(k) \/ GetMiss(k)
  PROVE  Capacity'
<1>1. Held' \subseteq Held BY DEF TypeOK, GetHit, GetMiss, Held
<1>2. Cardinality(Held') <= Cardinality(Held)
  BY <1>1, HeldFinite, FS_Subset
<1>3. Cardinality(Held) \in Nat /\ Cardinality(Held') \in Nat
  BY <1>1, HeldFinite, FS_Subset, FS_CardinalityType
<1>4. QED BY <1>2, <1>3, CacheAssumption DEF Capacity

LEMMA CapacityStep == TypeOK /\ Capacity /\ [Next]_cacheVars => Capacity'
<1> SUFFICES ASSUME TypeOK, Capacity, [Next]_cacheVars PROVE Capacity'
  OBVIOUS
<1>1. ASSUME NEW k \in Key, GetHit(k) \/ GetMiss(k) PROVE Capacity'
  BY <1>1, GetCapacity
<1>2. ASSUME NEW k \in Key, NEW v \in Value, Set(k, v) PROVE Capacity'
  BY <1>2, SetCapacity
<1>3. CASE UNCHANGED store
  BY <1>3 DEF Capacity, Held
<1>4. QED BY <1>1, <1>2, <1>3 DEF Next, cacheVars

\* The cache never holds more than max_size entries, whatever is asked of it and
\* however lazily expired entries go.
THEOREM CapacityHolds == Spec => []Capacity
<1>1. Spec => []TypeOK BY TypeCorrect
<1>2. QED BY <1>1, CapacityInit, CapacityStep, PTL DEF Spec

-----------------------------------------------------------------------------
\* A set without elements, or with only one, has at most one.
LEMMA AtMostOne ==
  ASSUME NEW S, NEW x, S \subseteq {x}
  PROVE  Cardinality(S) <= 1
<1>1. CASE S = {} BY <1>1, FS_EmptySet
<1>2. CASE S = {x} BY <1>2, FS_Singleton
<1>3. QED BY <1>1, <1>2

LEMMA GetLoses ==
  ASSUME TypeOK, NEW k \in Key, GetHit(k) \/ GetMiss(k)
  PROVE  LossJustified
<1>1. Held \ Held' \subseteq {k}
  BY DEF TypeOK, GetHit, GetMiss, Held
<1>2. ASSUME k \in Held \ Held' PROVE Expired(k)
  BY <1>2 DEF GetHit, GetMiss, Hit, Held
<1>3. QED BY <1>1, <1>2, AtMostOne DEF LossJustified

LEMMA SetLoses ==
  ASSUME TypeOK, NEW k \in Key, NEW v \in Value, Set(k, v)
  PROVE  LossJustified
<1>1. PICK room \in Room : store' = [room EXCEPT ![k] = [value |-> v, expires |-> now + Ttl]]
  BY DEF Set
<1>2. [value |-> v, expires |-> now + Ttl] # NoEntry
  BY CacheAssumption, NoEntryAssumption DEF TypeOK, Entry
<1>3. CASE Cardinality(Held) >= MaxSize
  <2>1. PICK old \in EarliestToExpire : room = [store EXCEPT ![old] = NoEntry]
    BY <1>3 DEF Room
  <2>2. Held \ Held' \subseteq {old}
    BY <1>1, <1>2, <2>1 DEF TypeOK, EarliestToExpire, Held
  <2>3. \A j \in Held : store[old].expires <= store[j].expires
    BY <2>1 DEF EarliestToExpire
  <2>4. \A x \in Held \ Held' : Cardinality(Held) >= MaxSize
                              /\ \A j \in Held : store[x].expires <= store[j].expires
    BY <1>3, <2>2, <2>3
  <2>5. Cardinality(Held \ Held') <= 1 BY <2>2, AtMostOne
  <2>6. QED BY <2>4, <2>5 DEF LossJustified
<1>4. CASE ~(Cardinality(Held) >= MaxSize)
  <2>1. Held \ Held' = {}
    BY <1>1, <1>2, <1>4 DEF TypeOK, Room, Held
  <2>2. Held \ Held' \subseteq {k} BY <2>1
  <2>3. QED BY <2>1, <2>2, AtMostOne DEF LossJustified
<1>5. QED BY <1>3, <1>4

LEMMA StepLoses == TypeOK /\ [Next]_cacheVars => [LossJustified]_cacheVars
<1> SUFFICES ASSUME TypeOK, Next PROVE LossJustified \/ UNCHANGED cacheVars
  OBVIOUS
<1>1. ASSUME NEW k \in Key, GetHit(k) \/ GetMiss(k) PROVE LossJustified
  BY <1>1, GetLoses
<1>2. ASSUME NEW k \in Key, NEW v \in Value, Set(k, v) PROVE LossJustified
  BY <1>2, SetLoses
<1>3. CASE UNCHANGED store
  <2>1. Held \ Held' \subseteq {0} BY <1>3 DEF Held
  <2>2. Held \ Held' = {} BY <1>3 DEF Held
  <2>3. QED BY <2>1, <2>2, AtMostOne DEF LossJustified
<1>4. QED BY <1>1, <1>2, <1>3 DEF Next

\* An answer only leaves the cache when its time is over, or from a full cache
\* as one of the answers that would have expired first, and never two at once.
THEOREM LosesOnlyOldestHolds == Spec => LosesOnlyOldest
<1>1. Spec => []TypeOK BY TypeCorrect
<1>2. QED BY <1>1, StepLoses, PTL DEF Spec, LosesOnlyOldest
=============================================================================

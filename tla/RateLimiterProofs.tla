--------------------------- MODULE RateLimiterProofs ---------------------------
(***************************************************************************)
(* Proofs about RateLimiter.  The bound concerns every request that was    *)
(* ever let through; the code only sees its bucket.  The link is Pruned:   *)
(* what a bucket has forgotten is out of the window for good, so that the  *)
(* recent part of the bucket is the recent part of the past.               *)
(***************************************************************************)
EXTENDS RateLimiter, FiniteSetTheorems, TLAPS

\* A bucket holds requests that were let through, none of them in the future, and
\* has lost only those that no window ending now or later can contain.
Pruned ==
  \A c \in Client :
    /\ IsFiniteSet(admitted[c])
    /\ buckets[c] \subseteq admitted[c]
    /\ \A s \in admitted[c] : s.at <= now
    /\ \A s \in admitted[c] \ buckets[c] : now - s.at >= Window
    /\ refusedAt[c] <= now

IInv == TypeOK /\ Pruned /\ AnyWindow /\ RefusedOnlyWhenFull

LEMMA IInvInit == Init => IInv
<1> SUFFICES ASSUME Init PROVE IInv
  OBVIOUS
<1>1. TypeOK BY DEF Init, TypeOK, Never
<1>2. Pruned BY FS_EmptySet DEF Init, Pruned, Never
<1>3. AnyWindow
  <2>1. ASSUME NEW c \in Client, NEW t \in 0 .. now PROVE AdmittedIn(c, t, t + Window) = {}
    BY DEF Init, AdmittedIn
  <2>2. QED BY <2>1, FS_EmptySet, LimiterAssumption DEF AnyWindow
<1>4. RefusedOnlyWhenFull BY DEF Init, RefusedOnlyWhenFull
<1>5. QED BY <1>1, <1>2, <1>3, <1>4 DEF IInv

\* The recent part of the bucket is the recent part of all that was let through.
LEMMA RecentIsAll ==
  ASSUME TypeOK, Pruned, NEW c \in Client
  PROVE  /\ Recent(c) = {s \in admitted[c] : now - s.at < Window}
         /\ Recent(c) = AdmittedIn(c, now - Window + 1, now + 1)
         /\ IsFiniteSet(Recent(c))
<1>1. \A s \in admitted[c] : s.at \in Nat /\ s.at <= now
  BY DEF TypeOK, Pruned, Stamp
<1>2. Recent(c) = {s \in admitted[c] : now - s.at < Window}
  BY <1>1, LimiterAssumption DEF TypeOK, Pruned, Recent
<1>3. Recent(c) = AdmittedIn(c, now - Window + 1, now + 1)
  BY <1>1, <1>2, LimiterAssumption DEF TypeOK, AdmittedIn
<1>4. IsFiniteSet(Recent(c))
  BY <1>2, FS_Subset DEF Pruned
<1>5. QED BY <1>2, <1>3, <1>4

LEMMA PartIsFinite ==
  ASSUME Pruned, NEW c \in Client, NEW from, NEW to
  PROVE  IsFiniteSet(AdmittedIn(c, from, to)) /\ Cardinality(AdmittedIn(c, from, to)) \in Nat
<1>1. AdmittedIn(c, from, to) \subseteq admitted[c] BY DEF AdmittedIn
<1>2. IsFiniteSet(AdmittedIn(c, from, to)) BY <1>1, FS_Subset DEF Pruned
<1>3. QED BY <1>2, FS_CardinalityType

\* The bucket of a client with a full one holds exactly the limit.
LEMMA FullIsExact ==
  ASSUME IInv, NEW c \in Client, Full(c)
  PROVE  Cardinality(AdmittedIn(c, now - Window + 1, now + 1)) = MaxRequests
<1> USE DEF IInv
<1> DEFINE recent == AdmittedIn(c, now - Window + 1, now + 1)
<1>1. Cardinality(recent) \in Nat /\ Cardinality(recent) >= MaxRequests
  BY RecentIsAll, PartIsFinite DEF Full
<1>2. CASE now - Window + 1 >= 0 /\ Window > 0
  <2>1. now - Window + 1 \in 0 .. now BY <1>2, LimiterAssumption DEF TypeOK
  <2>2. now - Window + 1 + Window = now + 1 BY LimiterAssumption DEF TypeOK
  <2>3. Cardinality(recent) <= MaxRequests BY <2>1, <2>2 DEF AnyWindow
  <2>4. QED BY <1>1, <2>3, LimiterAssumption
<1>3. CASE now - Window + 1 < 0
  <2>1. recent \subseteq AdmittedIn(c, 0, 0 + Window)
    BY <1>3, LimiterAssumption DEF TypeOK, AdmittedIn, Stamp
  <2>2. 0 \in 0 .. now BY DEF TypeOK
  <2>3. Cardinality(AdmittedIn(c, 0, 0 + Window)) <= MaxRequests BY <2>2 DEF AnyWindow
  <2>4. Cardinality(recent) <= Cardinality(AdmittedIn(c, 0, 0 + Window))
    BY <2>1, PartIsFinite, FS_Subset
  <2>5. Cardinality(AdmittedIn(c, 0, 0 + Window)) \in Nat BY PartIsFinite
  <2>6. QED BY <1>1, <2>3, <2>4, <2>5, LimiterAssumption
<1>4. CASE Window = 0
  <2>1. recent = {} BY <1>4 DEF AdmittedIn, TypeOK, Stamp
  <2>2. QED BY <1>1, <2>1, FS_EmptySet, LimiterAssumption
<1>5. QED BY <1>2, <1>3, <1>4, LimiterAssumption DEF TypeOK

LEMMA OneMore ==
  ASSUME NEW S, IsFiniteSet(S), NEW x
  PROVE  /\ IsFiniteSet(S \cup {x})
         /\ Cardinality(S \cup {x}) \in Nat
         /\ Cardinality(S \cup {x}) <= Cardinality(S) + 1
<1>1. Cardinality(S) \in Nat BY FS_CardinalityType
<1>2. IsFiniteSet(S \cup {x}) BY FS_AddElement
<1>3. Cardinality(S \cup {x}) = IF x \in S THEN Cardinality(S) ELSE Cardinality(S) + 1
  BY FS_AddElement
<1>4. QED BY <1>1, <1>2, <1>3

LEMMA AdmitKeeps ==
  ASSUME IInv, NEW c \in Client, Admit(c)
  PROVE  IInv'
<1> USE DEF IInv
<1> DEFINE stamp == [nth |-> Cardinality(admitted[c]) + 1, at |-> now]
<1>1. stamp \in Stamp /\ stamp.at = now
  BY FS_CardinalityType DEF TypeOK, Pruned, Stamp
<1>2. /\ buckets' = [buckets EXCEPT ![c] = Recent(c) \cup {stamp}]
      /\ admitted' = [admitted EXCEPT ![c] = admitted[c] \cup {stamp}]
      /\ refusedAt' = refusedAt /\ now' = now
  BY DEF Admit
<1> HIDE DEF stamp
<1>3. Recent(c) \subseteq Stamp BY DEF Recent, TypeOK
<1>4. TypeOK' BY <1>1, <1>2, <1>3 DEF TypeOK
<1>5. Pruned'
  <2>1. IsFiniteSet(admitted[c] \cup {stamp}) BY FS_AddElement DEF Pruned
  <2>2. \A s \in admitted[c] : s.at \in Nat BY DEF TypeOK, Stamp
  <2>3. Recent(c) = {s \in admitted[c] : now - s.at < Window} BY RecentIsAll
  <2>4. SUFFICES ASSUME NEW x \in Client
                 PROVE  /\ IsFiniteSet(admitted'[x])
                        /\ buckets'[x] \subseteq admitted'[x]
                        /\ \A s \in admitted'[x] : s.at <= now
                        /\ \A s \in admitted'[x] \ buckets'[x] : now - s.at >= Window
                        /\ refusedAt'[x] <= now
    BY <1>2 DEF Pruned
  <2>5. CASE x = c
    <3>1. admitted'[x] = admitted[c] \cup {stamp} /\ buckets'[x] = Recent(c) \cup {stamp}
      BY <1>2, <2>5 DEF TypeOK
    <3>2. refusedAt'[x] <= now BY <1>2 DEF Pruned
    <3>3. buckets'[x] \subseteq admitted'[x] BY <2>3, <3>1
    <3>4. \A s \in admitted'[x] : s.at <= now BY <1>1, <3>1 DEF Pruned, TypeOK
    <3>5. \A s \in admitted'[x] \ buckets'[x] : now - s.at >= Window
      BY <2>2, <2>3, <3>1, LimiterAssumption DEF TypeOK
    <3>6. QED BY <2>1, <3>1, <3>2, <3>3, <3>4, <3>5
  <2>6. CASE x # c BY <1>2, <2>6 DEF Pruned, TypeOK
  <2>7. QED BY <2>5, <2>6
<1>6. ASSUME NEW x \in Client, NEW from, NEW to, x # c \/ ~(from <= now /\ now < to)
      PROVE  AdmittedIn(x, from, to)' = AdmittedIn(x, from, to)
  BY <1>1, <1>2, <1>6 DEF AdmittedIn, TypeOK
<1>7. AnyWindow'
  <2>1. SUFFICES ASSUME NEW x \in Client, NEW t \in 0 .. now
                 PROVE  Cardinality(AdmittedIn(x, t, t + Window)') <= MaxRequests
    BY <1>2 DEF AnyWindow
  <2>2. CASE x # c \/ ~(t <= now /\ now < t + Window)
    BY <1>6, <2>2 DEF AnyWindow
  <2>3. CASE x = c /\ now < t + Window
    <3> DEFINE before == AdmittedIn(c, t, t + Window)
    <3>1. AdmittedIn(x, t, t + Window)' \subseteq before \cup {stamp}
      BY <1>2, <2>3 DEF AdmittedIn, TypeOK
    <3>2. before \subseteq Recent(c)
      BY <2>3, RecentIsAll, LimiterAssumption DEF AdmittedIn, TypeOK, Stamp
    <3>3. IsFiniteSet(before) /\ Cardinality(before) \in Nat BY PartIsFinite
    <3>4. Cardinality(before) <= Cardinality(Recent(c)) /\ Cardinality(Recent(c)) \in Nat
      BY <3>2, RecentIsAll, FS_Subset, FS_CardinalityType
    <3>5. Cardinality(Recent(c)) < MaxRequests
      BY <3>4, LimiterAssumption DEF Admit, Full
    <3>6. /\ IsFiniteSet(before \cup {stamp})
          /\ Cardinality(before \cup {stamp}) \in Nat
          /\ Cardinality(before \cup {stamp}) <= Cardinality(before) + 1
      BY <3>3, OneMore
    <3>7. /\ Cardinality(AdmittedIn(x, t, t + Window)') <= Cardinality(before \cup {stamp})
          /\ Cardinality(AdmittedIn(x, t, t + Window)') \in Nat
      BY <3>1, <3>6, FS_Subset, FS_CardinalityType
    <3>8. QED BY <3>3, <3>4, <3>5, <3>6, <3>7, LimiterAssumption
  <2>4. QED BY <2>2, <2>3
<1>8. RefusedOnlyWhenFull'
  <2>1. SUFFICES ASSUME NEW x \in Client, NEW at, at = refusedAt[x], at # Never
                 PROVE  Cardinality(AdmittedIn(x, at - Window + 1, at + 1)') = MaxRequests
    BY <1>2 DEF RefusedOnlyWhenFull, AdmittedIn
  <2>2. at \in Nat /\ at <= now BY <2>1 DEF TypeOK, Pruned
  <2>3. CASE x = c /\ at = now
    <3>1. Cardinality(Recent(c)) = MaxRequests
      BY <2>1, <2>3, RecentIsAll DEF RefusedOnlyWhenFull
    <3>2. QED BY <3>1, LimiterAssumption DEF Admit, Full
  <2>4. CASE x # c \/ at # now
    <3>1. x # c \/ ~(now < at + 1) BY <2>2, <2>4 DEF TypeOK
    <3>2. AdmittedIn(x, at - Window + 1, at + 1)' = AdmittedIn(x, at - Window + 1, at + 1)
      BY <1>6, <3>1
    <3>3. QED BY <2>1, <3>2 DEF RefusedOnlyWhenFull
  <2>5. QED BY <2>3, <2>4
<1>9. QED BY <1>4, <1>5, <1>7, <1>8

LEMMA RefuseKeeps ==
  ASSUME IInv, NEW c \in Client, Refuse(c)
  PROVE  IInv'
<1> USE DEF IInv
<1>1. /\ buckets' = [buckets EXCEPT ![c] = Recent(c)]
      /\ refusedAt' = [refusedAt EXCEPT ![c] = now]
      /\ admitted' = admitted /\ now' = now
  BY DEF Refuse
<1>2. Recent(c) \subseteq Stamp BY DEF Recent, TypeOK
<1>3. TypeOK' BY <1>1, <1>2 DEF TypeOK
<1>4. Pruned'
  <2>1. \A s \in admitted[c] : s.at \in Nat BY DEF TypeOK, Stamp
  <2>2. Recent(c) = {s \in admitted[c] : now - s.at < Window} BY RecentIsAll
  <2>3. \A s \in admitted[c] \ Recent(c) : now - s.at >= Window
    BY <2>1, <2>2, LimiterAssumption DEF TypeOK
  <2>4. now \in Nat BY DEF TypeOK
  <2>5. QED BY <1>1, <2>2, <2>3, <2>4 DEF Pruned, TypeOK
<1>5. \A x, from, to : AdmittedIn(x, from, to)' = AdmittedIn(x, from, to)
  BY <1>1 DEF AdmittedIn
<1>6. AnyWindow' BY <1>1, <1>5 DEF AnyWindow
<1>7. RefusedOnlyWhenFull'
  <2>1. SUFFICES ASSUME NEW x \in Client, refusedAt'[x] # Never
                 PROVE  Cardinality(AdmittedIn(x, refusedAt'[x] - Window + 1, refusedAt'[x] + 1))
                          = MaxRequests
    BY <1>1 DEF RefusedOnlyWhenFull, AdmittedIn
  <2>2. CASE x = c
    <3>1. refusedAt'[x] = now BY <1>1, <2>2 DEF TypeOK
    <3>2. QED BY <2>2, <3>1, FullIsExact DEF Refuse
  <2>3. CASE x # c
    <3>1. refusedAt'[x] = refusedAt[x] BY <1>1, <2>3 DEF TypeOK
    <3>2. QED BY <2>1, <3>1 DEF RefusedOnlyWhenFull
  <2>4. QED BY <2>2, <2>3
<1>8. QED BY <1>3, <1>4, <1>6, <1>7

LEMMA TickKeeps == IInv /\ Tick => IInv'
<1> SUFFICES ASSUME IInv, Tick PROVE IInv'
  OBVIOUS
<1> USE DEF IInv
<1>1. now' = now + 1 /\ buckets' = buckets /\ admitted' = admitted /\ refusedAt' = refusedAt
  BY DEF Tick
<1>2. TypeOK' BY <1>1 DEF TypeOK
<1>3. Pruned'
  <2>1. \A c \in Client : refusedAt[c] \in Int /\ \A s \in admitted[c] : s.at \in Nat
    BY DEF TypeOK, Stamp, Never
  <2>2. QED BY <1>1, <2>1, LimiterAssumption DEF Pruned, TypeOK
<1>4. \A x, from, to : AdmittedIn(x, from, to)' = AdmittedIn(x, from, to)
  BY <1>1 DEF AdmittedIn
<1>5. AnyWindow'
  <2>1. SUFFICES ASSUME NEW c \in Client, NEW t \in 0 .. now + 1
                 PROVE  Cardinality(AdmittedIn(c, t, t + Window)) <= MaxRequests
    BY <1>1, <1>4 DEF AnyWindow
  <2>2. CASE t \in 0 .. now BY <2>2 DEF AnyWindow
  <2>3. CASE t = now + 1
    <3>1. AdmittedIn(c, t, t + Window) = {}
      BY <2>3 DEF AdmittedIn, Pruned, TypeOK, Stamp
    <3>2. QED BY <3>1, FS_EmptySet, LimiterAssumption
  <2>4. QED BY <2>2, <2>3 DEF TypeOK
<1>6. RefusedOnlyWhenFull' BY <1>1, <1>4 DEF RefusedOnlyWhenFull
<1>7. QED BY <1>2, <1>3, <1>5, <1>6

LEMMA StutterKeeps == IInv /\ UNCHANGED limiterVars => IInv'
BY DEF IInv, limiterVars, TypeOK, Pruned, AnyWindow, RefusedOnlyWhenFull, AdmittedIn

LEMMA IInvHolds == Spec => []IInv
<1>1. IInv /\ [Next]_limiterVars => IInv'
  BY AdmitKeeps, RefuseKeeps, TickKeeps, StutterKeeps DEF Next
<1>2. QED BY <1>1, IInvInit, PTL DEF Spec

\* Every reachable state of the limiter is well typed.
THEOREM TypeCorrect == Spec => []TypeOK
BY IInvHolds, PTL DEF IInv

\* No client gets more than the limit through in any window, wherever it begins.
THEOREM AnyWindowHolds == Spec => []AnyWindow
BY IInvHolds, PTL DEF IInv

\* No client is refused before it has used up the limit.
THEOREM RefusedOnlyWhenFullHolds == Spec => []RefusedOnlyWhenFull
BY IInvHolds, PTL DEF IInv
=============================================================================

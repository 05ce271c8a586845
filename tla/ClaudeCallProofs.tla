----------------------------- MODULE ClaudeCallProofs -----------------------------
(***************************************************************************)
(* Proofs about ClaudeCalls.                                               *)
(***************************************************************************)
EXTENDS ClaudeCallProperties, SequenceTheorems, FiniteSetTheorems, WellFoundedInduction,
        TLAPS

-----------------------------------------------------------------------------
(***************************************************************************)
(* Numbers.  Induction is stated of a set of numbers, from the fact that   *)
(* every non-empty set of them has a least one.                            *)
(***************************************************************************)
LEMMA LeastNumber ==
  ASSUME NEW T, T \subseteq Nat, T # {}
  PROVE  \E m \in T : \A n \in T : m <= n
<1> DEFINE R == OpToRel(<, Nat)
<1>1. IsWellFoundedOn(R, Nat) BY NatLessThanWellFounded
<1>2. \A x, y \in Nat : y < x => <<y, x>> \in R BY DEF OpToRel
<1> HIDE DEF R
<1>3. PICK x \in T : \A y \in T : ~(<<y, x>> \in R) BY <1>1, WFMin
<1>4. \A y \in T : ~(y < x) BY <1>2, <1>3
<1>5. QED BY <1>4

LEMMA InductionOnSet ==
  ASSUME NEW S, 0 \in S, \A n \in Nat : n \in S => n + 1 \in S
  PROVE  \A n \in Nat : n \in S
<1>1. SUFFICES ASSUME NEW T, T = {n \in Nat : n \notin S}, T # {} PROVE FALSE
  <2>1. {n \in Nat : n \notin S} = {} BY <1>1
  <2>2. QED BY <2>1
<1>2. PICK m \in T : \A n \in T : m <= n
  <2>1. T \subseteq Nat BY <1>1
  <2>2. QED BY <1>1, <2>1, LeastNumber
<1>3. m \in Nat /\ m # 0 BY <1>1, <1>2
<1>4. m - 1 \in Nat /\ (m - 1) + 1 = m /\ ~(m <= m - 1) BY <1>3
<1>5. m - 1 \in S BY <1>1, <1>2, <1>4
<1>6. QED BY <1>1, <1>2, <1>4, <1>5

LEMMA MinOf ==
  ASSUME NEW I, I \subseteq Nat, I # {}
  PROVE  Min(I) \in I /\ \A i \in I : Min(I) <= i
BY LeastNumber DEF Min

LEMMA MaxOf ==
  ASSUME NEW n \in Nat, NEW I, I \subseteq 0 .. n, I # {}
  PROVE  Max(I) \in I /\ \A i \in I : i <= Max(I)
<1> DEFINE T == {k \in Nat : n - k \in I}
<1>1. T # {}
  <2>1. PICK i \in I : TRUE OBVIOUS
  <2>2. n - i \in Nat /\ n - (n - i) = i BY <2>1
  <2>3. QED BY <2>1, <2>2
<1>2. PICK m \in T : \A k \in T : m <= k BY <1>1, LeastNumber
<1> DEFINE top == n - m
<1>3. top \in I OBVIOUS
<1>4. ASSUME NEW i \in I PROVE top >= i
  <2>1. n - i \in Nat /\ n - (n - i) = i OBVIOUS
  <2>2. n - i \in T BY <2>1
  <2>3. m <= n - i BY <1>2, <2>2
  <2>4. QED BY <2>3
<1> HIDE DEF top
<1>5. \E x \in I : \A y \in I : x >= y BY <1>3, <1>4
<1>6. Max(I) \in I /\ \A i \in I : Max(I) >= i BY <1>5 DEF Max
<1>7. QED BY <1>6

-----------------------------------------------------------------------------
(* Parts of sequences.  What a trim leaves is a stretch of positions. *)

LEMMA Stretch ==
  ASSUME NEW T, NEW s \in Seq(T), NEW a \in 1 .. Len(s) + 1, NEW b \in a - 1 .. Len(s)
  PROVE  /\ SubSeq(s, a, b) \in Seq(T)
         /\ Len(SubSeq(s, a, b)) = b - a + 1
         /\ DOMAIN SubSeq(s, a, b) = 1 .. b - a + 1
         /\ \A i \in 1 .. b - a + 1 : SubSeq(s, a, b)[i] = s[a + i - 1]
<1>1. Len(s) \in Nat OBVIOUS
<1>2. \A i \in a .. b : s[i] \in T BY <1>1
<1>3. /\ SubSeq(s, a, b) \in Seq(T)
      /\ Len(SubSeq(s, a, b)) = IF a <= b THEN b - a + 1 ELSE 0
      /\ \A i \in 1 .. b - a + 1 : SubSeq(s, a, b)[i] = s[a + i - 1]
  BY <1>1, <1>2, SubSeqProperties
<1>4. Len(SubSeq(s, a, b)) = b - a + 1 BY <1>1, <1>3
<1>5. QED BY <1>3, <1>4

LEMMA RightDropped ==
  ASSUME NEW T, NEW s \in Seq(T), NEW token
  PROVE  \E n \in 0 .. Len(s) :
           /\ DropRight(s, token) = SubSeq(s, 1, n)
           /\ n > 0 => s[n] # token
           /\ \A k \in n + 1 .. Len(s) : s[k] = token
<1> DEFINE I == {i \in 1 .. Len(s) : s[i] # token}
<1> DEFINE n == IF I # {} THEN Max(I) ELSE 0
<1>1. DropRight(s, token) = SubSeq(s, 1, n) BY DEF DropRight, SelectLastInSeq
<1>2. Len(s) \in Nat OBVIOUS
<1>3. I # {} => Max(I) \in I /\ \A i \in I : i <= Max(I)
  <2>1. I \subseteq 0 .. Len(s) BY <1>2
  <2>2. QED BY <1>2, <2>1, MaxOf
<1>4. n \in 0 .. Len(s) BY <1>2, <1>3
<1>5. n > 0 => s[n] # token BY <1>3
<1>6. ASSUME NEW k \in n + 1 .. Len(s) PROVE s[k] = token
  <2>1. k \in 1 .. Len(s) /\ ~(k <= n) BY <1>2, <1>4
  <2>2. k \notin I BY <1>3, <2>1
  <2>3. QED BY <2>1, <2>2
<1> HIDE DEF n
<1>7. QED BY <1>1, <1>4, <1>5, <1>6

LEMMA LeftDropped ==
  ASSUME NEW T, NEW s \in Seq(T), NEW token
  PROVE  \E m \in 1 .. Len(s) + 1 :
           /\ DropLeft(s, token) = SubSeq(s, m, Len(s))
           /\ m <= Len(s) => s[m] # token
           /\ \A k \in 1 .. m - 1 : s[k] = token
<1> DEFINE I == {i \in 1 .. Len(s) : s[i] # token}
<1> DEFINE first == IF I # {} THEN Min(I) ELSE 0
<1> DEFINE m == IF I # {} THEN Min(I) ELSE Len(s) + 1
<1>1. DropLeft(s, token) = IF first = 0 THEN <<>> ELSE SubSeq(s, first, Len(s))
  BY DEF DropLeft, SelectInSeq
<1>2. Len(s) \in Nat OBVIOUS
<1>3. I # {} => Min(I) \in I /\ \A i \in I : Min(I) <= i
  <2>1. I \subseteq Nat OBVIOUS
  <2>2. QED BY <2>1, MinOf
<1>4. m \in 1 .. Len(s) + 1 BY <1>2, <1>3
<1>5. m <= Len(s) => s[m] # token BY <1>2, <1>3
<1>6. ASSUME NEW k \in 1 .. m - 1 PROVE s[k] = token
  <2>1. k \in 1 .. Len(s) /\ ~(m <= k) BY <1>2, <1>4
  <2>2. k \notin I BY <1>3, <2>1
  <2>3. QED BY <2>1, <2>2
<1>7. DropLeft(s, token) = SubSeq(s, m, Len(s))
  <2>1. CASE I = {}
    <3>1. SubSeq(s, Len(s) + 1, Len(s)) = <<>> BY <1>2, SubSeqEmpty
    <3>2. QED BY <1>1, <2>1, <3>1
  <2>2. CASE I # {}
    <3>1. first = m /\ first # 0 BY <1>3, <2>2
    <3> HIDE DEF first, m
    <3>2. QED BY <1>1, <3>1
  <2>3. QED BY <2>1, <2>2
<1> HIDE DEF m
<1>8. QED BY <1>4, <1>5, <1>6, <1>7

-----------------------------------------------------------------------------
(***************************************************************************)
(* Arrangements.  An order of the positions gives each a place of its own, *)
(* so that what is arranged is what there was, in that order.              *)
(***************************************************************************)
Orders(before, positions) ==
  /\ \A i \in positions : <<i, i>> \notin before
  /\ \A i, j, k \in positions : <<i, j>> \in before /\ <<j, k>> \in before => <<i, k>> \in before
  /\ \A i, j \in positions : i = j \/ <<i, j>> \in before \/ <<j, i>> \in before

\* p leads from places to positions.
Arranges(a, s, positions, before, p) ==
  LET c == Cardinality(positions)
  IN /\ p \in Bijection(1 .. c, positions)
     /\ a = [k \in 1 .. c |-> s[p[k]]]
     /\ \A k, l \in 1 .. c : k < l => <<p[k], p[l]>> \in before

LEMMA PlacesDiffer ==
  ASSUME NEW positions, IsFiniteSet(positions), NEW before, Orders(before, positions)
  PROVE  LET Place(i) == 1 + Cardinality({j \in positions : <<j, i>> \in before})
         IN /\ \A i \in positions : Place(i) \in 1 .. Cardinality(positions)
            /\ \A i, j \in positions : <<i, j>> \in before => Place(i) < Place(j)
<1> DEFINE Below(i) == {j \in positions : <<j, i>> \in before}
<1> DEFINE c == Cardinality(positions)
<1>1. c \in Nat BY FS_CardinalityType
<1>2. ASSUME NEW i \in positions
      PROVE  IsFiniteSet(Below(i)) /\ Cardinality(Below(i)) \in Nat /\ Cardinality(Below(i)) < c
  <2>1. Below(i) \subseteq positions /\ i \notin Below(i) BY DEF Orders
  <2>2. Below(i) # positions BY <2>1
  <2> HIDE DEF Below
  <2>3. /\ IsFiniteSet(Below(i))
        /\ Cardinality(Below(i)) <= c
        /\ Cardinality(Below(i)) = c => Below(i) = positions
    BY <2>1, FS_Subset
  <2>4. Cardinality(Below(i)) \in Nat BY <2>3, FS_CardinalityType
  <2>5. QED BY <1>1, <2>2, <2>3, <2>4
<1>3. ASSUME NEW i \in positions, NEW j \in positions, <<i, j>> \in before
      PROVE  Cardinality(Below(i)) < Cardinality(Below(j))
  <2>1. Below(i) \subseteq Below(j) BY <1>3 DEF Orders
  <2>2. i \in Below(j) /\ i \notin Below(i) BY <1>3 DEF Orders
  <2> HIDE DEF Below
  <2>3. /\ Cardinality(Below(i)) <= Cardinality(Below(j))
        /\ Cardinality(Below(i)) = Cardinality(Below(j)) => Below(i) = Below(j)
    BY <1>2, <2>1, FS_Subset
  <2>4. Below(i) # Below(j) BY <2>2
  <2>5. QED BY <1>2, <2>3, <2>4
<1> DEFINE Place(i) == 1 + Cardinality(Below(i))
<1>4. /\ \A i \in positions : Place(i) \in 1 .. c
      /\ \A i, j \in positions : <<i, j>> \in before => Place(i) < Place(j)
  <2> HIDE DEF Below, c
  <2>1. QED BY <1>1, <1>2, <1>3
<1>5. QED BY <1>4

LEMMA Arrangement ==
  ASSUME NEW s, NEW positions, IsFiniteSet(positions), NEW before, Orders(before, positions)
  PROVE  /\ Cardinality(positions) \in Nat
         /\ \E p : Arranges(Arranged(s, positions, before), s, positions, before, p)
<1> DEFINE c == Cardinality(positions)
<1> DEFINE Place(i) == 1 + Cardinality({j \in positions : <<j, i>> \in before})
<1> DEFINE p == [k \in 1 .. c |-> CHOOSE i \in positions : Place(i) = k]
<1> DEFINE f == [i \in positions |-> Place(i)]
<1>1. c \in Nat BY FS_CardinalityType
<1>2. /\ \A i \in positions : Place(i) \in 1 .. c
      /\ \A i, j \in positions : <<i, j>> \in before => Place(i) < Place(j)
  BY PlacesDiffer
<1>3. Arranged(s, positions, before) = [k \in 1 .. c |-> s[p[k]]] BY DEF Arranged
<1> HIDE DEF Place, c
<1>4. \A i, j \in positions : Place(i) = Place(j) => i = j
  <2>1. SUFFICES ASSUME NEW i \in positions, NEW j \in positions, Place(i) = Place(j), i # j
                 PROVE  FALSE
    OBVIOUS
  <2>2. <<i, j>> \in before \/ <<j, i>> \in before BY <2>1 DEF Orders
  <2>3. Place(i) \in Int /\ (Place(i) < Place(j) \/ Place(j) < Place(i)) BY <1>1, <1>2, <2>2
  <2>4. QED BY <2>1, <2>3
<1>5. f \in Injection(positions, 1 .. c) BY <1>2, <1>4 DEF Injection, IsInjective
<1>6. f \in Surjection(positions, 1 .. c)
  <2>1. IsFiniteSet(1 .. c) /\ Cardinality(1 .. c) = c
    <3>1. c \in Int /\ 1 \in Int BY <1>1
    <3>2. IsFiniteSet(1 .. c) /\ Cardinality(1 .. c) = IF 1 > c THEN 0 ELSE c - 1 + 1
      BY <3>1, FS_Interval
    <3>3. QED BY <1>1, <3>2
  <2>2. Cardinality(positions) = Cardinality(1 .. c) BY <2>1 DEF c
  <2> HIDE DEF f
  <2>3. QED BY <1>5, <2>1, <2>2, FS_Injection
<1>7. \A k \in 1 .. c : p[k] \in positions /\ Place(p[k]) = k
  <2>1. TAKE k \in 1 .. c
  <2>2. \E i \in positions : Place(i) = k BY <1>6 DEF Surjection
  <2>3. QED BY <2>2
<1>8. DOMAIN p = 1 .. c OBVIOUS
<1>9. p = [k \in 1 .. c |-> p[k]] OBVIOUS
<1> HIDE DEF p, f
<1>10. p \in [1 .. c -> positions] BY <1>7, <1>9
<1>11. \A k, l \in 1 .. c : p[k] = p[l] => k = l BY <1>7
<1>12. \A i \in positions : Place(i) \in 1 .. c /\ p[Place(i)] = i BY <1>2, <1>4, <1>7
<1>13. p \in Bijection(1 .. c, positions)
  <2>1. p \in Injection(1 .. c, positions) BY <1>8, <1>10, <1>11 DEF Injection, IsInjective
  <2>2. p \in Surjection(1 .. c, positions) BY <1>10, <1>12 DEF Surjection
  <2>3. QED BY <2>1, <2>2 DEF Bijection
<1>14. ASSUME NEW k \in 1 .. c, NEW l \in 1 .. c, k < l PROVE <<p[k], p[l]>> \in before
  <2>1. p[k] \in positions /\ p[l] \in positions /\ Place(p[k]) = k /\ Place(p[l]) = l BY <1>7
  <2>2. p[k] # p[l] BY <1>14, <2>1
  <2>3. <<p[l], p[k]>> \in before => l < k BY <1>2, <2>1
  <2>4. ~(l < k) BY <1>1, <1>14
  <2>5. QED BY <2>1, <2>2, <2>3, <2>4 DEF Orders
<1>15. Arranges(Arranged(s, positions, before), s, positions, before, p)
  BY <1>3, <1>13, <1>14 DEF Arranges, c
<1>16. QED BY <1>1, <1>15 DEF c

-----------------------------------------------------------------------------
(* How often Claude is called. *)

LEMMA ClampedInLimits == ASSUME NEW w PROVE Clamped(w) \in MinWait .. MaxWait
BY ClientAssumption DEF Clamped

LEMMA WaitInLimits == ASSUME NEW n PROVE Wait(n) \in MinWait .. MaxWait
<1> DEFINE w == 2 ^ (n - 1)
<1>1. Wait(n) = Clamped(w) BY Zenon DEF Wait
<1> HIDE DEF w
<1>2. QED BY <1>1, ClampedInLimits

\* One more wait, within one more pair of limits.
LEMMA Doubling ==
  ASSUME NEW n \in Nat, NEW m \in Nat
  PROVE  n * m \in Nat /\ (n + 1) * m = n * m + m
OBVIOUS

LEMMA MoreWaiting ==
  ASSUME NEW n \in Nat, NEW w \in n * MinWait .. n * MaxWait, NEW d \in MinWait .. MaxWait
  PROVE  w + d \in (n + 1) * MinWait .. (n + 1) * MaxWait
<1>1. MinWait \in Nat /\ MaxWait \in Nat BY ClientAssumption
<1>2. n * MinWait \in Nat /\ (n + 1) * MinWait = n * MinWait + MinWait BY <1>1, Doubling
<1>3. n * MaxWait \in Nat /\ (n + 1) * MaxWait = n * MaxWait + MaxWait BY <1>1, Doubling
<1> DEFINE least == n * MinWait
<1> DEFINE most == n * MaxWait
<1> HIDE DEF least, most
<1>4. least \in Nat /\ most \in Nat /\ w \in least .. most BY <1>2, <1>3 DEF least, most
<1>5. w + d \in least + MinWait .. most + MaxWait BY <1>1, <1>4
<1>6. QED BY <1>2, <1>3, <1>5 DEF least, most

\* A call that is idle has begun no attempt, and any other has begun one.
Begun == phase = "idle" <=> attempts = 0

ClientInv == ClientSound /\ Begun

LEMMA NoWaiting == 0 \in 0 * MinWait .. 0 * MaxWait
BY ClientAssumption

LEMMA ClientStarts ==
  ASSUME Start, step' \in {"asking", "commenting"}
  PROVE  ClientInv'
BY ClientAssumption, NoWaiting
DEF Start, ClientInv, ClientSound, TypeOK, AttemptsJustified, Begun, Step, Phase, Transient,
    Permanent

LEMMA ClientRests ==
  ASSUME Taken, step' \in Step \ {"asking", "commenting"}
  PROVE  ClientInv'
BY ClientAssumption
DEF Taken, ClientInv, ClientSound, TypeOK, AttemptsJustified, Begun, Step, Phase, Transient,
    Permanent

LEMMA ClientIdles ==
  ASSUME ClientInv, phase = "idle", UNCHANGED clientVars,
         step' \in Step \ {"asking", "commenting"}
  PROVE  ClientInv'
BY DEF clientVars, ClientInv, ClientSound, TypeOK, AttemptsJustified, Begun, Step

LEMMA ClientWorks ==
  ASSUME ClientInv, Works, UNCHANGED step
  PROVE  ClientInv'
<1> USE ClientAssumption
<1> USE DEF ClientInv, ClientSound, TypeOK, AttemptsJustified, Begun, Phase, Transient,
            Permanent
<1>1. CASE Returns BY <1>1 DEF Returns
<1>2. CASE WakesUp
  <2>1. (attempts + 1) - 1 = attempts BY <1>2 DEF WakesUp
  <2>2. QED BY <1>2, <2>1 DEF WakesUp
<1>3. CASE AttemptFails
  <2>1. PICK e \in Transient \cup Permanent :
          /\ phase = "calling" /\ error' = e
          /\ phase' = IF Retries(e) THEN "sleeping" ELSE "raised"
          /\ waited' = IF Retries(e) THEN waited + Wait(attempts) ELSE waited
          /\ UNCHANGED attempts
    BY <1>3 DEF AttemptFails
  <2>2. CASE Retries(e)
    <3>1. waited + Wait(attempts) \in
            (attempts - 1 + 1) * MinWait .. (attempts - 1 + 1) * MaxWait
      <4>1. attempts - 1 \in Nat
            /\ waited \in (attempts - 1) * MinWait .. (attempts - 1) * MaxWait
        BY <2>1
      <4>2. QED BY <4>1, MoreWaiting, WaitInLimits
    <3>2. attempts - 1 + 1 = attempts BY <2>1
    <3>3. waited' \in attempts * MinWait .. attempts * MaxWait BY <2>1, <2>2, <3>1, <3>2
    <3>4. Wait(attempts) \in Nat /\ waited' \in Nat BY <2>1, <2>2, WaitInLimits
    <3>5. QED BY <2>1, <2>2, <3>3, <3>4 DEF Retries
  <2>3. CASE ~Retries(e)
    BY <2>1, <2>3 DEF Retries
  <2>4. QED BY <2>2, <2>3
<1>4. QED BY <1>1, <1>2, <1>3 DEF Works

LEMMA ClientStep == ASSUME ClientInv, [Next]_callVars PROVE ClientInv'
<1> USE DEF ClientInv, ClientSound, TypeOK, Step
<1>1. CASE PromptRefused BY <1>1, ClientIdles DEF PromptRefused
<1>2. CASE AskClaude BY <1>2, ClientStarts DEF AskClaude
<1>3. CASE Waiting BY <1>3, ClientWorks DEF Waiting
<1>4. CASE AnswerComes BY <1>4, ClientRests DEF AnswerComes
<1>5. CASE CallFails BY <1>5, ClientRests DEF CallFails
<1>6. CASE Execute BY <1>6, ClientIdles DEF Execute
<1>7. CASE NoRows BY <1>7, ClientIdles DEF NoRows
<1>8. CASE FromTemplate BY <1>8, ClientIdles DEF FromTemplate
<1>9. CASE AskForCommentary BY <1>9, ClientStarts DEF AskForCommentary
<1>10. CASE CommentaryComes BY <1>10, ClientRests DEF CommentaryComes
<1>11. CASE CommentaryFails BY <1>11, ClientRests DEF CommentaryFails
<1>12. CASE QueryFails BY <1>12, ClientIdles DEF QueryFails
<1>13. CASE NotWanted BY <1>13, ClientIdles DEF NotWanted
<1>14. CASE UNCHANGED callVars
  BY <1>14 DEF callVars, AttemptsJustified, Begun
<1>15. QED
  BY <1>1, <1>2, <1>3, <1>4, <1>5, <1>6, <1>7, <1>8, <1>9, <1>10, <1>11, <1>12, <1>13, <1>14
  DEF Next

\* No call costs more than MaxAttempts attempts and the waits between them, and an error
\* that is not transient ends it (claude_client.py:56-63).
THEOREM ClientSoundHolds == Spec => []ClientSound
<1>1. Init => ClientInv
  BY ClientAssumption
  DEF Init, ClientInit, ClientInv, ClientSound, TypeOK, AttemptsJustified, Begun, Step, Phase
<1>2. ClientInv /\ [Next]_callVars => ClientInv' BY ClientStep
<1>3. ClientInv => ClientSound BY DEF ClientInv
<1>4. QED BY <1>1, <1>2, <1>3, PTL DEF Spec

-----------------------------------------------------------------------------
(* What Claude is shown. *)

\* The tables that are kept hold all that match, and are all of them but for a cause.
WithCause(kept, question, tables) ==
  /\ kept \subseteq tables
  /\ Matched(question, tables) \subseteq kept
  /\ kept # tables =>
       \/ Matched(question, tables) # {}
       \/ \E t \in kept : t.name \in Letter \cup ForeignTargets(tables)

LEMMA NarrowedForCause ==
  ASSUME NEW question, NEW tables, NEW history \in Seq([turn : Nat, names : SUBSET Name])
  PROVE  WithCause(Relevant(question, tables, history), question, tables)
<1> DEFINE matched == Matched(question, tables)
<1> DEFINE linked == ForeignTargets(tables)
<1> DEFINE recalled == HistoryTables(history)
<1> DEFINE kept == {t \in tables : t \in matched \/ t.name \in linked \/ t.name \in recalled}
<1> DEFINE shown == Relevant(question, tables, history)
<1>1. matched \subseteq tables BY DEF Matched
<1>2. recalled \subseteq Letter
  <2>1. ASSUME NEW i \in DOMAIN history PROVE history[i].names \subseteq Name
    <3>1. i \in 1 .. Len(history) OBVIOUS
    <3>2. history[i] \in [turn : Nat, names : SUBSET Name] BY <3>1, ElementOfSeq
    <3>3. QED BY <3>2
  <2> DEFINE named == UNION {history[i].names : i \in DOMAIN history}
  <2>2. named \subseteq Name BY <2>1, Zenon
  <2>3. recalled = {Second[n] : n \in named \ Letter} BY Zenon DEF HistoryTables
  <2> HIDE DEF named, recalled
  <2>4. \A n \in named \ Letter : Second[n] \in Letter BY <2>2, FilterAssumption
  <2>5. QED BY <2>3, <2>4
<1>3. shown = tables \/ (shown = kept /\ kept # {}) BY DEF Relevant
<1> HIDE DEF matched, linked, recalled, shown
<1>4. matched \subseteq shown BY <1>1, <1>3
<1>5. shown # tables => matched # {} \/ \E t \in shown : t.name \in Letter \cup linked
  BY <1>2, <1>3
<1>6. shown \subseteq tables BY <1>3 DEF kept
<1>7. QED BY <1>4, <1>5, <1>6 DEF matched, linked, shown, WithCause

LEMMA SomeExample == ASSUME NEW tables PROVE SelectedExamples(tables) # {}
BY FilterAssumption DEF SelectedExamples

LEMMA LatestTurns ==
  ASSUME NEW q \in Questions
  PROVE  LET lines == HistoryLines(q.history)
             full == {i \in DOMAIN lines : lines[i].full}
         IN /\ [i \in DOMAIN lines |-> lines[i].turn] =
                 [i \in DOMAIN q.history |-> q.history[i].turn]
            /\ Cardinality(full) <= FullTurns
            /\ \A i \in full, j \in DOMAIN lines : i < j => j \in full
            /\ Cardinality(full) < FullTurns => full = DOMAIN lines
            /\ {i \in DOMAIN lines : lines[i].base} = DOMAIN lines \ 1 .. Len(lines) - 1
<1> DEFINE lines == HistoryLines(q.history)
<1> DEFINE n == Len(q.history)
<1> DEFINE cutoff == IF n > FullTurns THEN n - FullTurns ELSE 0
<1> DEFINE full == {i \in DOMAIN lines : lines[i].full}
<1>1. q.history \in Seq([turn : Nat, names : SUBSET Name]) BY QuestionsAssumption
<1>2. n \in Nat /\ DOMAIN q.history = 1 .. n BY <1>1
<1>3. lines = [i \in 1 .. n |-> [turn |-> q.history[i].turn, full |-> i > cutoff,
                                base |-> i > cutoff /\ i = n]]
  BY <1>2 DEF HistoryLines
<1>4. Len(lines) = n BY <1>2, <1>3
<1>5. cutoff \in Nat /\ cutoff <= n /\ n - cutoff <= FullTurns /\ (cutoff > 0 => n - cutoff = FullTurns)
      /\ (n > 0 => cutoff < n)
  BY <1>2, FilterAssumption
<1> HIDE DEF lines, cutoff, n
<1>13. \A i \in 1 .. n : (lines[i].full <=> i > cutoff) /\ (lines[i].base <=> i > cutoff /\ i = n)
  BY <1>3, Zenon
<1>14. DOMAIN lines = 1 .. n BY <1>3
<1>6. full = cutoff + 1 .. n
  <2>1. full = {i \in 1 .. n : i > cutoff} BY <1>13, <1>14, Zenon
  <2>2. QED BY <1>2, <1>5, <2>1
<1>7. Cardinality(full) = n - cutoff
  <2>1. cutoff + 1 \in Int /\ n \in Int BY <1>2, <1>5
  <2>2. Cardinality(cutoff + 1 .. n) =
          IF cutoff + 1 > n THEN 0 ELSE n - (cutoff + 1) + 1
    BY <2>1, FS_Interval
  <2>3. (IF cutoff + 1 > n THEN 0 ELSE n - (cutoff + 1) + 1) = n - cutoff BY <1>2, <1>5
  <2>4. QED BY <1>6, <2>2, <2>3, Zenon
<1>8. [i \in DOMAIN lines |-> lines[i].turn] = [i \in DOMAIN q.history |-> q.history[i].turn]
  BY <1>2, <1>3
<1>9. {i \in DOMAIN lines : lines[i].base} = DOMAIN lines \ 1 .. Len(lines) - 1
  <2>1. {i \in DOMAIN lines : lines[i].base} = {i \in 1 .. n : i > cutoff /\ i = n}
    BY <1>13, <1>14, Zenon
  <2>2. QED BY <1>2, <1>4, <1>5, <1>14, <2>1
<1>10. Cardinality(full) < FullTurns => full = DOMAIN lines
  <2>1. ASSUME Cardinality(full) < FullTurns PROVE cutoff = 0
    BY <2>1, <1>2, <1>5, <1>7, FilterAssumption
  <2>2. QED BY <1>2, <1>3, <1>6, <2>1
<1>11. \A i \in full, j \in DOMAIN lines : i < j => j \in full
  BY <1>2, <1>3, <1>5, <1>6
<1>12. Cardinality(full) <= FullTurns BY <1>5, <1>7
<1> HIDE DEF full
<1>15. QED BY <1>8, <1>9, <1>10, <1>11, <1>12 DEF lines, full

\* Until the call is under way, its prompt is the one that the question gives.
PromptInv ==
  /\ step = "question" => input \in Questions
  /\ Asked => /\ input \in Questions
              /\ output = Prompt(input.question, input.tables, input.history)

LEMMA PromptStep == ASSUME ClientSound, PromptInv, [Next]_callVars PROVE PromptInv'
<1>1. CASE AskClaude BY <1>1 DEF AskClaude, PromptInv, Asked
<1>2. CASE Waiting
  <2>1. step # "question"
    BY <1>2 DEF Waiting, Works, Returns, AttemptFails, WakesUp, ClientSound, TypeOK
  <2>2. QED BY <1>2, <2>1 DEF Waiting, PromptInv, Asked
<1>3. CASE UNCHANGED callVars BY <1>3 DEF callVars, PromptInv, Asked
<1>4. CASE Next /\ ~AskClaude /\ ~Waiting
  <2>1. step' \notin {"question", "asking"}
    BY <1>4
    DEF Next, PromptRefused, AnswerComes, CallFails, Execute, QueryFails, NotWanted, NoRows,
        FromTemplate, AskForCommentary, CommentaryComes, CommentaryFails
  <2>2. QED BY <2>1 DEF PromptInv, Asked
<1>5. QED BY <1>1, <1>2, <1>3, <1>4

LEMMA PromptIsSound == PromptInv => PromptSound
<1>1. SUFFICES ASSUME PromptInv, Asked PROVE PromptSound
  BY DEF PromptSound, SchemaSound, BaseShown
<1> DEFINE q == input
<1>2. q \in Questions BY <1>1 DEF PromptInv
<1>3. /\ output.tables = Relevant(q.question, q.tables, q.history)
      /\ output.examples = SelectedExamples(output.tables)
      /\ output.history = HistoryLines(q.history)
  BY <1>1 DEF PromptInv, Prompt
<1> HIDE DEF q
<1>4. WithCause(output.tables, q.question, q.tables)
  <2>1. q.history \in Seq([turn : Nat, names : SUBSET Name]) BY <1>2, QuestionsAssumption
  <2>2. QED BY <1>3, <2>1, NarrowedForCause
<1>5. SchemaSound BY <1>3, <1>4, SomeExample DEF SchemaSound, WithCause, q
<1>6. BaseShown
  <2>1. LET lines == output.history
            full == {i \in DOMAIN lines : lines[i].full}
        IN /\ [i \in DOMAIN lines |-> lines[i].turn] =
                [i \in DOMAIN q.history |-> q.history[i].turn]
           /\ Cardinality(full) <= FullTurns
           /\ \A i \in full, j \in DOMAIN lines : i < j => j \in full
           /\ Cardinality(full) < FullTurns => full = DOMAIN lines
           /\ {i \in DOMAIN lines : lines[i].base} = DOMAIN lines \ 1 .. Len(lines) - 1
    BY <1>2, <1>3, LatestTurns
  <2>2. QED BY <2>1 DEF BaseShown, q
<1>7. QED BY <1>5, <1>6 DEF PromptSound

\* Claude call 1 is shown every table that the question names, narrowed for a cause only,
\* and of the history all turns with the SQL of the latest (nl_to_sql.py:206-241, 249-321).
THEOREM PromptSoundHolds == Spec => []PromptSound
<1>1. Init => PromptInv BY DEF Init, PromptInv, Asked
<1>2. ClientSound /\ PromptInv /\ [Next]_callVars => PromptInv' BY PromptStep
<1>3. PromptInv => PromptSound BY PromptIsSound
<1>4. QED BY <1>1, <1>2, <1>3, ClientSoundHolds, PTL DEF Spec
-----------------------------------------------------------------------------
(* What is said, and to what. *)

Unshown(c) ==
  /\ Len(c.result.rows) = 1 /\ c.result.columns \in 2 .. KpiColumns
  /\ \A column \in 1 .. c.result.columns : c.result.rows[1][column] = Null

LEMMA TemplateCovers ==
  ASSUME NEW c \in Results, c.result.rows # <<>>
  PROVE  IF Template(c) = NoCommentary
         THEN c.insight = "custom" \/ Unshown(c) \/ c.result.total = 0
         ELSE c.insight # "custom" /\ ~Unshown(c)
<1> DEFINE r == c.result
<1> DEFINE n == Len(r.rows)
<1> DEFINE keyFigures == HasKeyFigures(r)
<1>1. /\ r.columns \in Nat \ {0} /\ r.total \in Nat \cup {-1}
      /\ r.rows \in Seq([1 .. r.columns -> Cell]) /\ r.rows # <<>>
  BY ResultsAssumption
<1>2. n \in Nat /\ n # 0 BY <1>1
<1>3. RowCount(r) > 0 \/ r.total = 0 BY <1>1, <1>2 DEF RowCount
<1>4. keyFigures => ~Unshown(c) BY DEF HasKeyFigures, Unshown
<1>5. n = 1 /\ r.columns # 1 /\ r.columns <= KpiColumns /\ ~keyFigures => Unshown(c)
  BY <1>1, TemplateAssumption DEF HasKeyFigures, Unshown
<1>6. Unshown(c) => n = 1 /\ r.columns # 1 /\ r.columns <= KpiColumns
  BY <1>1, TemplateAssumption DEF Unshown
<1>7. KeyFigures(c.ask, c.query, r) # NoCommentary BY DEF KeyFigures, NoCommentary
<1>8. Comparison(c.ask, r) # NoCommentary /\ TopListing(r) # NoCommentary
  BY DEF Comparison, Compared, TopListing, NoCommentary
<1>9. \A v : [kind |-> "single_value", value |-> v] # NoCommentary
             /\ [kind |-> "generic", records |-> v] # NoCommentary
  BY DEF NoCommentary
<1> DEFINE said == Commentary(c.ask, c.query, r)
<1>10. said = NoCommentary => Unshown(c) \/ r.total = 0
  BY <1>1, <1>3, <1>5, <1>7, <1>8, <1>9 DEF Commentary
<1>11. Unshown(c) => said = NoCommentary
  BY <1>1, <1>4, <1>6 DEF Commentary
<1> HIDE DEF said
<1>12. Template(c) = IF c.insight = "custom" THEN NoCommentary ELSE said
  BY DEF Template, said
<1>13. QED BY <1>10, <1>11, <1>12

LEMMA UnsaidStep == ASSUME NothingUnsaid, [Next]_callVars PROVE NothingUnsaid'
<1> USE DEF NothingUnsaid
<1>1. CASE FromTemplate
  <2>1. PICK c \in Results :
          /\ c.result.rows # <<>> /\ Template(c) # NoCommentary
          /\ input' = c /\ step' = "commented"
    BY <1>1 DEF FromTemplate, Templated, Untemplated, Treated, Unanswered
  <2>2. c.insight # "custom" /\ ~Unshown(c) BY <2>1, TemplateCovers
  <2>3. QED BY <2>1, <2>2 DEF Unshown
<1>2. CASE AskForCommentary
  <2>1. PICK c \in Results :
          /\ c.result.rows # <<>> /\ Template(c) = NoCommentary
          /\ input' = c /\ step' = "commenting"
    BY <1>2 DEF AskForCommentary, Untemplated, Treated, Unanswered
  <2>2. c.insight = "custom" \/ Unshown(c) \/ c.result.total = 0 BY <2>1, TemplateCovers
  <2>3. QED BY <2>1, <2>2 DEF Unshown
<1>3. CASE NoRows \/ NotWanted BY <1>3 DEF NoRows, NotWanted
<1>4. CASE CommentaryComes BY <1>4 DEF CommentaryComes
<1>5. CASE CommentaryFails BY <1>5 DEF CommentaryFails
<1>6. CASE Waiting
  <2>1. output' = Nothing /\ "says" \notin DOMAIN Nothing BY <1>6 DEF Waiting, Nothing
  <2>2. QED BY <2>1
<1>7. CASE PromptRefused \/ AskClaude \/ AnswerComes \/ CallFails \/ Execute \/ QueryFails
  <2>1. step' \notin {"commenting", "commented"}
    BY <1>7 DEF PromptRefused, AskClaude, AnswerComes, CallFails, Execute, QueryFails
  <2>2. QED BY <2>1
<1>8. CASE UNCHANGED callVars BY <1>8 DEF callVars
<1>9. QED BY <1>1, <1>2, <1>3, <1>4, <1>5, <1>6, <1>7, <1>8 DEF Next

\* Rows go to Claude only with a custom prompt or where the templates have nothing to show,
\* and a template is used only where it has (commentary.py:47-59).
THEOREM NothingUnsaidHolds == Spec => []NothingUnsaid
<1>1. Init => NothingUnsaid BY DEF Init, NothingUnsaid
<1>2. NothingUnsaid /\ [Next]_callVars => NothingUnsaid' BY UnsaidStep
<1>3. QED BY <1>1, <1>2, PTL DEF Spec
-----------------------------------------------------------------------------
(* What of Claude's answer runs. *)

\* v is what s has at the positions of P, and p tells where each element comes from.
Picks(v, s, P, p) ==
  /\ \A k \in 1 .. Len(v) : p[k] \in P /\ v[k] = s[p[k]]
  /\ \A i \in P : \E k \in 1 .. Len(v) : p[k] = i
  /\ \A k, l \in 1 .. Len(v) : k < l => p[k] < p[l]

LEMMA ChosenInOrder ==
  ASSUME NEW T, NEW s, NEW n \in Nat, NEW positions \in SUBSET (1 .. n),
         \A i \in positions : s[i] \in T
  PROVE  /\ Chosen(s, positions) \in Seq(T)
         /\ \E p : Picks(Chosen(s, positions), s, positions, p)
<1> DEFINE c == Cardinality(positions)
<1> DEFINE before == {e \in positions \X positions : e[1] < e[2]}
<1> DEFINE a == Chosen(s, positions)
<1>1. IsFiniteSet(positions)
  <2>1. IsFiniteSet(1 .. n) BY FS_Interval
  <2>2. QED BY <2>1, FS_Subset
<1>2. \A i, j \in positions : <<i, j>> \in before <=> i < j OBVIOUS
<1>3. Orders(before, positions)
  <2>1. \A i \in positions : i \in Int OBVIOUS
  <2> HIDE DEF before
  <2>2. QED BY <1>2, <2>1 DEF Orders
<1>4. a = Arranged(s, positions, before) BY DEF Chosen
<1> HIDE DEF before, a
<1>5. c \in Nat /\ \E p : Arranges(a, s, positions, before, p) BY <1>1, <1>3, <1>4, Arrangement
<1>6. PICK p : /\ p \in Bijection(1 .. c, positions)
               /\ a = [k \in 1 .. c |-> s[p[k]]]
               /\ \A k, l \in 1 .. c : k < l => <<p[k], p[l]>> \in before
  BY <1>5 DEF Arranges
<1> HIDE DEF c
<1>7. \A k \in 1 .. c : p[k] \in positions BY <1>6 DEF Bijection, Injection
<1>8. \A k \in 1 .. c : a[k] = s[p[k]] /\ a[k] \in T BY <1>6, <1>7
<1>9. a \in Seq(T) /\ Len(a) = c
  <2>1. a = [k \in 1 .. c |-> a[k]] /\ DOMAIN a = 1 .. c BY <1>6
  <2>2. a \in [1 .. c -> T] BY <1>8, <2>1
  <2>3. QED BY <1>5, <2>2
<1>10. \A k, l \in 1 .. c : k < l => p[k] < p[l] BY <1>2, <1>6, <1>7
<1>11. \A i \in positions : \E k \in 1 .. c : p[k] = i BY <1>6 DEF Bijection, Surjection
<1>12. Picks(a, s, positions, p) BY <1>7, <1>8, <1>9, <1>10, <1>11 DEF Picks
<1>13. QED BY <1>9, <1>12 DEF a

LEMMA ChosenLength ==
  ASSUME NEW s, NEW n \in Nat, NEW positions \in SUBSET (1 .. n)
  PROVE  /\ Cardinality(positions) \in Nat
         /\ Len(Chosen(s, positions)) = Cardinality(positions)
<1>1. IsFiniteSet(1 .. n) BY FS_Interval
<1>2. IsFiniteSet(positions) BY <1>1, FS_Subset
<1>3. Cardinality(positions) \in Nat BY <1>2, FS_CardinalityType
<1>4. DOMAIN Chosen(s, positions) = 1 .. Cardinality(positions) BY DEF Chosen, Arranged
<1>5. Chosen(s, positions) = [k \in 1 .. Cardinality(positions) |-> Chosen(s, positions)[k]]
  BY DEF Chosen, Arranged
<1>6. QED BY <1>3, <1>4, <1>5

\* What a text begins with decides: a pick that leaves out white space and semicolons
\* only begins as the text does.
LEMMA StartPicked ==
  ASSUME NEW c \in Seq(Token), NEW v \in Seq(Token), NEW P, NEW p, Picks(v, c, P, p),
         \A k \in 1 .. Len(c) : k \notin P => c[k] \in {"newline", "semi"},
         P \subseteq 1 .. Len(c), ValidStart(c)
  PROVE  ValidStart(v)
<1>1. /\ Len(c) \in Nat /\ DOMAIN c = 1 .. Len(c)
      /\ Len(v) \in Nat /\ DOMAIN v = 1 .. Len(v)
  OBVIOUS
<1>2. \A k \in 1 .. Len(v) : p[k] \in 1 .. Len(c) /\ v[k] = c[p[k]] BY DEF Picks
<1>3. ASSUME NEW i \in 1 .. Len(c), c[i] \notin {"newline", "semi"}
      PROVE  \E k \in 1 .. Len(v) : p[k] = i /\ v[k] = c[i]
  <2>1. i \in P BY <1>3
  <2>2. QED BY <1>2, <2>1 DEF Picks
<1>4. \A k, l \in 1 .. Len(v) : k < l => p[k] < p[l] BY DEF Picks
<1>5. \A k, l \in 1 .. Len(v) : p[k] < p[l] => k < l
  <2>1. ASSUME NEW k \in 1 .. Len(v), NEW l \in 1 .. Len(v), p[k] < p[l], ~(k < l) PROVE FALSE
    <3>1. p[k] \in Int /\ p[l] \in Int BY <1>2
    <3>2. k = l \/ l < k BY <2>1
    <3>3. QED BY <1>4, <2>1, <3>1, <3>2
  <2>2. QED BY <2>1
<1>6. PICK i \in 1 .. Len(c) :
        /\ c[i] = "select"
        /\ \/ Space(c, 1, i - 1)
           \/ \E j, l \in 1 .. i - 1 :
                /\ j < l /\ c[j] = "with" /\ c[l] = "close"
                /\ Space(c, 1, j - 1) /\ Space(c, l + 1, i - 1)
  BY <1>1 DEF ValidStart
<1>7. PICK x \in 1 .. Len(v) : p[x] = i /\ v[x] = "select" BY <1>3, <1>6
<1>8. CASE Space(c, 1, i - 1)
  <2>1. ASSUME NEW k \in 1 .. x - 1 PROVE v[k] = "newline"
    <3>1. k \in 1 .. Len(v) /\ k < x BY <1>1, <1>7
    <3>2. p[k] < i BY <1>4, <1>7, <3>1
    <3>3. p[k] \in 1 .. i - 1 BY <1>2, <3>1, <3>2
    <3>4. QED BY <1>2, <1>8, <3>1, <3>3 DEF Space
  <2>2. Space(v, 1, x - 1) BY <2>1 DEF Space
  <2>3. QED BY <1>1, <1>7, <2>2 DEF ValidStart
<1>9. CASE \E j, l \in 1 .. i - 1 :
             /\ j < l /\ c[j] = "with" /\ c[l] = "close"
             /\ Space(c, 1, j - 1) /\ Space(c, l + 1, i - 1)
  <2>1. PICK j \in 1 .. i - 1, l \in 1 .. i - 1 :
          /\ j < l /\ c[j] = "with" /\ c[l] = "close"
          /\ Space(c, 1, j - 1) /\ Space(c, l + 1, i - 1)
    BY <1>9
  <2>2. j \in 1 .. Len(c) /\ l \in 1 .. Len(c) BY <1>1
  <2>3. PICK y \in 1 .. Len(v) : p[y] = j /\ v[y] = "with" BY <1>3, <2>1, <2>2
  <2>4. PICK z \in 1 .. Len(v) : p[z] = l /\ v[z] = "close"
    <3>1. l \in 1 .. Len(c) /\ c[l] = "close" BY <2>1, <2>2
    <3>2. \E z \in 1 .. Len(v) : p[z] = l /\ v[z] = c[l] BY <1>3, <3>1
    <3>3. QED BY <3>1, <3>2
  <2>5. y < z /\ z < x
    <3>1. p[y] < p[z] BY <2>1, <2>3, <2>4
    <3>2. p[z] < p[x] BY <1>7, <2>4
    <3>3. QED BY <1>5, <3>1, <3>2
  <2>6. ASSUME NEW k \in 1 .. y - 1 PROVE v[k] = "newline"
    <3>1. k \in 1 .. Len(v) /\ k < y BY <1>1, <2>3
    <3>2. p[k] < j BY <1>4, <2>3, <3>1
    <3>3. p[k] \in 1 .. j - 1 BY <1>2, <3>1, <3>2
    <3>4. QED BY <1>2, <2>1, <3>1, <3>3 DEF Space
  <2>7. ASSUME NEW k \in z + 1 .. x - 1 PROVE v[k] = "newline"
    <3>1. k \in 1 .. Len(v) /\ k < x /\ z < k BY <1>1, <1>7, <2>4
    <3>2. p[k] < i /\ l < p[k] BY <1>4, <1>7, <2>4, <3>1
    <3>3. p[k] \in l + 1 .. i - 1 BY <1>2, <3>1, <3>2
    <3>4. QED BY <1>2, <2>1, <3>1, <3>3 DEF Space
  <2>8. Space(v, 1, y - 1) /\ Space(v, z + 1, x - 1) BY <2>6, <2>7 DEF Space
  <2>9. y \in 1 .. x - 1 /\ z \in 1 .. x - 1 BY <2>5
  <2>10. QED BY <1>1, <1>7, <2>3, <2>4, <2>5, <2>8, <2>9 DEF ValidStart
<1>10. QED BY <1>6, <1>8, <1>9

\* And the other way round: where only white space is left out before the last element
\* that is picked, the text begins as the pick does.
LEMMA StartWhole ==
  ASSUME NEW c \in Seq(Token), NEW m \in Seq(Token), NEW R, NEW q, Picks(m, c, R, q),
         R \subseteq 1 .. Len(c),
         \A k \in 1 .. Len(c), r \in R : k < r /\ k \notin R => c[k] = "newline",
         ValidStart(m)
  PROVE  ValidStart(c)
<1>1. /\ Len(c) \in Nat /\ DOMAIN c = 1 .. Len(c)
      /\ Len(m) \in Nat /\ DOMAIN m = 1 .. Len(m)
  OBVIOUS
<1>2. \A k \in 1 .. Len(m) : q[k] \in R /\ q[k] \in 1 .. Len(c) /\ m[k] = c[q[k]] BY DEF Picks
<1>3. \A k, l \in 1 .. Len(m) : k < l => q[k] < q[l] BY DEF Picks
<1>4. \A k, l \in 1 .. Len(m) : q[k] < q[l] => k < l
  <2>1. ASSUME NEW k \in 1 .. Len(m), NEW l \in 1 .. Len(m), q[k] < q[l], ~(k < l) PROVE FALSE
    <3>1. q[k] \in Int /\ q[l] \in Int BY <1>2
    <3>2. k = l \/ l < k BY <2>1
    <3>3. QED BY <1>3, <2>1, <3>1, <3>2
  <2>2. QED BY <2>1
<1>5. ASSUME NEW a \in 0 .. Len(m), NEW b \in 1 .. Len(m), Space(m, a + 1, b - 1),
             NEW k \in 1 .. Len(c), k < q[b], a > 0 => q[a] < k
      PROVE  c[k] = "newline"
  <2>1. CASE k \notin R BY <1>2, <1>5, <2>1
  <2>2. CASE k \in R
    <3>1. PICK x \in 1 .. Len(m) : q[x] = k BY <2>2 DEF Picks
    <3>2. x < b BY <1>4, <1>5, <3>1
    <3>3. a < x
      <4>1. CASE a = 0 BY <4>1
      <4>2. CASE a > 0
        <5>1. a \in 1 .. Len(m) /\ q[a] < q[x] BY <1>5, <3>1, <4>2
        <5>2. QED BY <1>4, <5>1
      <4>3. QED BY <4>1, <4>2
    <3>4. x \in a + 1 .. b - 1 BY <3>2, <3>3
    <3>5. m[x] = "newline" BY <1>5, <3>4 DEF Space
    <3>6. QED BY <1>2, <3>1, <3>5
  <2>3. QED BY <2>1, <2>2
<1>6. PICK i \in 1 .. Len(m) :
        /\ m[i] = "select"
        /\ \/ Space(m, 1, i - 1)
           \/ \E j, l \in 1 .. i - 1 :
                /\ j < l /\ m[j] = "with" /\ m[l] = "close"
                /\ Space(m, 1, j - 1) /\ Space(m, l + 1, i - 1)
  BY <1>1 DEF ValidStart
<1>7. q[i] \in DOMAIN c /\ c[q[i]] = "select" BY <1>1, <1>2, <1>6
<1>8. CASE Space(m, 1, i - 1)
  <2>1. 0 \in 0 .. Len(m) /\ Space(m, 0 + 1, i - 1) BY <1>1, <1>8
  <2>2. ASSUME NEW k \in 1 .. q[i] - 1 PROVE c[k] = "newline"
    <3>1. k \in 1 .. Len(c) /\ k < q[i] BY <1>1, <1>7
    <3>2. QED BY <1>5, <2>1, <3>1
  <2>3. Space(c, 1, q[i] - 1) BY <2>2 DEF Space
  <2>4. QED BY <1>7, <2>3 DEF ValidStart
<1>9. CASE \E j, l \in 1 .. i - 1 :
             /\ j < l /\ m[j] = "with" /\ m[l] = "close"
             /\ Space(m, 1, j - 1) /\ Space(m, l + 1, i - 1)
  <2>1. PICK j \in 1 .. i - 1, l \in 1 .. i - 1 :
          /\ j < l /\ m[j] = "with" /\ m[l] = "close"
          /\ Space(m, 1, j - 1) /\ Space(m, l + 1, i - 1)
    BY <1>9
  <2>2. j \in 1 .. Len(m) /\ l \in 1 .. Len(m) /\ l < i BY <1>1
  <2>3. /\ q[j] \in 1 .. Len(c) /\ q[l] \in 1 .. Len(c)
        /\ c[q[j]] = "with" /\ c[q[l]] = "close"
        /\ q[j] < q[l] /\ q[l] < q[i]
    BY <1>2, <1>3, <2>1, <2>2
  <2>4. ASSUME NEW k \in 1 .. q[j] - 1 PROVE c[k] = "newline"
    <3>1. k \in 1 .. Len(c) /\ k < q[j] BY <1>1, <2>3
    <3>2. 0 \in 0 .. Len(m) /\ Space(m, 0 + 1, j - 1) BY <1>1, <2>1
    <3>3. QED BY <1>5, <2>2, <3>1, <3>2
  <2>5. ASSUME NEW k \in q[l] + 1 .. q[i] - 1 PROVE c[k] = "newline"
    <3>1. k \in 1 .. Len(c) /\ k < q[i] /\ q[l] < k BY <1>1, <1>7, <2>3
    <3>2. l \in 0 .. Len(m) /\ Space(m, l + 1, i - 1) BY <1>1, <2>1, <2>2
    <3>3. QED BY <1>5, <3>1, <3>2
  <2>6. Space(c, 1, q[j] - 1) /\ Space(c, q[l] + 1, q[i] - 1) BY <2>4, <2>5 DEF Space
  <2>7. q[j] \in 1 .. q[i] - 1 /\ q[l] \in 1 .. q[i] - 1 BY <1>1, <1>7, <2>3
  <2>8. QED BY <1>7, <2>3, <2>6, <2>7 DEF ValidStart
<1>10. QED BY <1>6, <1>8, <1>9

LEMMA Trims ==
  ASSUME NEW s \in Seq(Token)
  PROVE  /\ TrimStart[s] = DropLeft(s, "newline") /\ TrimStart[s] \in Seq(Token)
         /\ TrimEnd[s] = DropRight(s, "newline") /\ TrimEnd[s] \in Seq(Token)
         /\ DropSemicolons[s] = DropRight(s, "semi") /\ DropSemicolons[s] \in Seq(Token)
<1>1. /\ TrimStart[s] = DropLeft(s, "newline")
      /\ TrimEnd[s] = DropRight(s, "newline")
      /\ DropSemicolons[s] = DropRight(s, "semi")
  BY DEF TrimStart, TrimEnd, DropSemicolons
<1>2. Len(s) \in Nat OBVIOUS
<1>3. ASSUME NEW token PROVE DropLeft(s, token) \in Seq(Token)
  <2>1. PICK m \in 1 .. Len(s) + 1 : DropLeft(s, token) = SubSeq(s, m, Len(s)) BY LeftDropped
  <2>2. Len(s) \in m - 1 .. Len(s) BY <1>2
  <2>3. QED BY <2>1, <2>2, Stretch
<1>4. ASSUME NEW token PROVE DropRight(s, token) \in Seq(Token)
  <2>1. PICK n \in 0 .. Len(s) : DropRight(s, token) = SubSeq(s, 1, n) BY RightDropped
  <2>2. 1 \in 1 .. Len(s) + 1 /\ n \in 1 - 1 .. Len(s) BY <1>2
  <2>3. QED BY <2>1, <2>2, Stretch
<1>5. QED BY <1>1, <1>3, <1>4

LEMMA StripType == ASSUME NEW s \in Seq(Token) PROVE Strip(s) \in Seq(Token)
BY Trims DEF Strip

LEMMA FenceTypes ==
  ASSUME NEW s \in Seq(Token)
  PROVE  OpenFence[s] \in Seq(Token) /\ CloseFence[s] \in Seq(Token)
<1>1. OpenFence[s] = IF s # <<>> /\ Head(s) \in {"fence", "fence_sql"}
                     THEN TrimStart[Tail(s)] ELSE s
  BY DEF OpenFence
<1>2. CloseFence[s] = IF s # <<>> /\ Last(s) = "fence" THEN TrimEnd[Front(s)] ELSE s
  BY DEF CloseFence
<1>3. s # <<>> => Tail(s) \in Seq(Token) /\ Front(s) \in Seq(Token)
  BY HeadTailProperties DEF Front
<1>4. QED BY <1>1, <1>2, <1>3, Trims

LEMMA NoDashesLeft ==
  ASSUME NEW s \in Seq(Token)
  PROVE  /\ WithoutComments[s] \in Seq(Token)
         /\ ~Has(WithoutComments[s], {"dashes"})
<1> DEFINE cut == [i \in DOMAIN s |-> IF s[i] = "dashed" THEN "cut" ELSE s[i]]
<1> DEFINE kept == {i \in DOMAIN s : ~InComment(s, i)}
<1> DEFINE T == Token \ {"dashes"}
<1>1. WithoutComments[s] = Chosen(cut, kept) BY DEF WithoutComments
<1>2. Len(s) \in Nat /\ DOMAIN s = 1 .. Len(s) OBVIOUS
<1>3. ASSUME NEW i \in kept PROVE cut[i] \in T
  <2>1. i \in 1 .. Len(s) /\ s[i] \in Token BY <1>2
  <2>2. s[i] # "dashes"
    <3>1. SUFFICES ASSUME s[i] = "dashes" PROVE InComment(s, i) OBVIOUS
    <3>2. i \in 1 .. i /\ \A k \in i .. i : s[k] # "newline" BY <2>1, <3>1
    <3>3. QED BY <3>1, <3>2 DEF InComment
  <2>3. QED BY <2>1, <2>2 DEF Token
<1> HIDE DEF cut, T
<1>4. kept \in SUBSET (1 .. Len(s)) BY <1>2
<1> HIDE DEF kept
<1>5. Chosen(cut, kept) \in Seq(T) BY <1>2, <1>3, <1>4, ChosenInOrder
<1>6. QED BY <1>1, <1>5 DEF T, Has

\* A stretch of a text has no token that the text has not.
LEMMA StretchHas ==
  ASSUME NEW s \in Seq(Token), NEW tokens, NEW a \in 1 .. Len(s) + 1, NEW b \in a - 1 .. Len(s),
         Has(SubSeq(s, a, b), tokens)
  PROVE  Has(s, tokens)
<1>1. Len(s) \in Nat OBVIOUS
<1>2. PICK i \in 1 .. b - a + 1 : SubSeq(s, a, b)[i] \in tokens BY Stretch DEF Has
<1>3. SubSeq(s, a, b)[i] = s[a + i - 1] BY Stretch
<1>4. a + i - 1 \in 1 .. Len(s) BY <1>1
<1>5. QED BY <1>2, <1>3, <1>4 DEF Has

\* strip leaves what lies between the first and the last token that is not white.
LEMMA Stripped ==
  ASSUME NEW s \in Seq(Token)
  PROVE  \E a \in 1 .. Len(s) + 1 : \E b \in a - 1 .. Len(s) :
           /\ Strip(s) = SubSeq(s, a, b)
           /\ a <= b => s[a] # "newline" /\ s[b] # "newline"
           /\ \A k \in 1 .. Len(s) : k < a \/ b < k => s[k] = "newline"
<1>1. PICK b \in 0 .. Len(s) :
        /\ TrimEnd[s] = SubSeq(s, 1, b)
        /\ b > 0 => s[b] # "newline"
        /\ \A k \in b + 1 .. Len(s) : s[k] = "newline"
  <2>1. TrimEnd[s] = DropRight(s, "newline") BY Trims
  <2>2. \E n \in 0 .. Len(s) :
          /\ DropRight(s, "newline") = SubSeq(s, 1, n)
          /\ n > 0 => s[n] # "newline"
          /\ \A k \in n + 1 .. Len(s) : s[k] = "newline"
    BY RightDropped
  <2>3. QED BY <2>1, <2>2
<1>2. Len(s) \in Nat OBVIOUS
<1> DEFINE t == TrimEnd[s]
<1>3. /\ t \in Seq(Token) /\ Len(t) = b
      /\ \A i \in 1 .. b : t[i] = s[i]
  <2>1. 1 \in 1 .. Len(s) + 1 /\ b \in 1 - 1 .. Len(s) /\ b - 1 + 1 = b BY <1>2
  <2>2. \A i \in 1 .. b : 1 + i - 1 = i OBVIOUS
  <2>3. QED BY <1>1, <2>1, <2>2, Stretch
<1> HIDE DEF t
<1>4. PICK a \in 1 .. b + 1 :
        /\ DropLeft(t, "newline") = SubSeq(t, a, b)
        /\ a <= b => t[a] # "newline"
        /\ \A k \in 1 .. a - 1 : t[k] = "newline"
  <2>1. \E m \in 1 .. Len(t) + 1 :
          /\ DropLeft(t, "newline") = SubSeq(t, m, Len(t))
          /\ m <= Len(t) => t[m] # "newline"
          /\ \A k \in 1 .. m - 1 : t[k] = "newline"
    <3>1. t \in Seq(Token) BY <1>3
    <3>2. QED BY <3>1, LeftDropped
  <2>2. Len(t) = b BY <1>3
  <2>3. QED BY <2>1, <2>2
<1>5. Strip(s) = SubSeq(t, a, b) BY <1>3, <1>4, Trims DEF Strip, t
<1>6. SubSeq(t, a, b) = SubSeq(s, a, b)
  <2>1. a \in 1 .. Len(s) + 1 /\ b \in a - 1 .. Len(s) BY <1>2
  <2>2. a \in 1 .. Len(t) + 1 /\ b \in a - 1 .. Len(t) BY <1>3
  <2>3. \A i \in 1 .. b - a + 1 : a + i - 1 \in 1 .. b OBVIOUS
  <2>4. /\ SubSeq(s, a, b) \in Seq(Token) /\ SubSeq(t, a, b) \in Seq(Token)
        /\ Len(SubSeq(s, a, b)) = b - a + 1 /\ Len(SubSeq(t, a, b)) = b - a + 1
        /\ \A i \in 1 .. b - a + 1 : /\ SubSeq(s, a, b)[i] = s[a + i - 1]
                                    /\ SubSeq(t, a, b)[i] = t[a + i - 1]
    BY <1>3, <2>1, <2>2, Stretch
  <2>5. \A i \in 1 .. b - a + 1 : SubSeq(s, a, b)[i] = SubSeq(t, a, b)[i] BY <1>3, <2>3, <2>4
  <2>6. QED BY <2>4, <2>5, SeqEqual
<1>7. a \in 1 .. Len(s) + 1 /\ b \in a - 1 .. Len(s) BY <1>2
<1>8. a <= b => s[a] # "newline" /\ s[b] # "newline" BY <1>1, <1>3, <1>4
<1>9. \A k \in 1 .. Len(s) : k < a \/ b < k => s[k] = "newline" BY <1>1, <1>2, <1>3, <1>4
<1>10. QED BY <1>5, <1>6, <1>7, <1>8, <1>9

LEMMA Cleaned ==
  ASSUME NEW raw \in Seq(Token)
  PROVE  CleanSql(raw) \in Seq(Token) /\ ~Has(CleanSql(raw), {"dashes"})
<1> DEFINE s == WithoutComments[Strip(DropSemicolons[CloseFence[OpenFence[Strip(raw)]]])]
<1>1. CloseFence[OpenFence[Strip(raw)]] \in Seq(Token) BY StripType, FenceTypes
<1>2. Strip(DropSemicolons[CloseFence[OpenFence[Strip(raw)]]]) \in Seq(Token)
  BY <1>1, Trims, StripType
<1>3. s \in Seq(Token) /\ ~Has(s, {"dashes"}) BY <1>2, NoDashesLeft
<1>4. CleanSql(raw) = Strip(s) BY DEF CleanSql
<1> HIDE DEF s
<1>5. PICK a \in 1 .. Len(s) + 1 : \E b \in a - 1 .. Len(s) : Strip(s) = SubSeq(s, a, b)
  BY <1>3, Stripped
<1>6. PICK b \in a - 1 .. Len(s) : Strip(s) = SubSeq(s, a, b) BY <1>5
<1>7. ~Has(Strip(s), {"dashes"}) BY <1>3, <1>6, StretchHas
<1>8. QED BY <1>3, <1>4, <1>7, StripType

\* What the validator lets through, after the last strip and without its semicolons.
LEMMA ValidRuns ==
  ASSUME NEW c \in Seq(Token), ~Has(c, {"dashes"}), Verdict(c) = "valid"
  PROVE  /\ Verdict(Validated(c)) = "valid"
         /\ ~Has(Validated(c), {"semi", "parted", "dashes"})
<1>1. /\ ValidStart(c) /\ ~Has(c, {"forbidden"}) /\ ~SeveralStatements(c)
      /\ ~Has(c, {"tautology"}) /\ ~(Len(c) > MaxQueryLength)
  BY DEF Verdict
<1>2. Len(c) \in Nat /\ DOMAIN c = 1 .. Len(c) OBVIOUS
<1> DEFINE w == Strip(c)
<1> DEFINE v == Validated(c)
<1>3. PICK a \in 1 .. Len(c) + 1 : \E b \in a - 1 .. Len(c) :
        /\ w = SubSeq(c, a, b)
        /\ a <= b => c[a] # "newline" /\ c[b] # "newline"
        /\ \A k \in 1 .. Len(c) : k < a \/ b < k => c[k] = "newline"
  BY Stripped
<1>4. PICK b \in a - 1 .. Len(c) :
        /\ w = SubSeq(c, a, b)
        /\ a <= b => c[a] # "newline" /\ c[b] # "newline"
        /\ \A k \in 1 .. Len(c) : k < a \/ b < k => c[k] = "newline"
  BY <1>3
<1>5. /\ w \in Seq(Token) /\ Len(w) = b - a + 1
      /\ \A k \in 1 .. b - a + 1 : w[k] = c[a + k - 1]
  <2>1. w = SubSeq(c, a, b) BY <1>4
  <2>2. /\ SubSeq(c, a, b) \in Seq(Token) /\ Len(SubSeq(c, a, b)) = b - a + 1
        /\ \A k \in 1 .. b - a + 1 : SubSeq(c, a, b)[k] = c[a + k - 1]
    BY Stretch
  <2> HIDE DEF w
  <2>3. QED BY <2>1, <2>2
<1> HIDE DEF w
<1>6. PICK n \in 0 .. Len(w) :
        /\ v = SubSeq(w, 1, n)
        /\ n > 0 => w[n] # "semi"
        /\ \A k \in n + 1 .. Len(w) : w[k] = "semi"
  <2>1. v = DropRight(w, "semi") BY <1>5, Trims DEF Validated, w
  <2>2. \E n \in 0 .. Len(w) :
          /\ DropRight(w, "semi") = SubSeq(w, 1, n)
          /\ n > 0 => w[n] # "semi"
          /\ \A k \in n + 1 .. Len(w) : w[k] = "semi"
    BY <1>5, RightDropped
  <2> HIDE DEF v
  <2>3. QED BY <2>1, <2>2
<1> HIDE DEF v
<1>7. /\ v \in Seq(Token) /\ Len(v) = n /\ DOMAIN v = 1 .. n
      /\ \A k \in 1 .. n : k \in 1 .. Len(w) /\ v[k] = w[k]
  <2>1. 1 \in 1 .. Len(w) + 1 /\ n \in 1 - 1 .. Len(w) /\ n - 1 + 1 = n BY <1>5
  <2>2. \A k \in 1 .. n : 1 + k - 1 = k /\ k \in 1 .. Len(w) BY <1>5
  <2>3. /\ v \in Seq(Token) /\ Len(v) = n - 1 + 1 /\ DOMAIN v = 1 .. n - 1 + 1
        /\ \A k \in 1 .. n - 1 + 1 : v[k] = w[1 + k - 1]
    BY <1>5, <1>6, <2>1, Stretch
  <2>4. QED BY <2>1, <2>2, <2>3
<1>8. \A k \in 1 .. n : a + k - 1 \in DOMAIN c /\ v[k] = c[a + k - 1] BY <1>2, <1>5, <1>7
<1>9. ValidStart(v)
  <2> DEFINE p == [k \in 1 .. n |-> a + k - 1]
  <2> DEFINE P == a .. a + n - 1
  <2>1. n \in Nat /\ n <= b - a + 1 /\ b <= Len(c) BY <1>2, <1>5
  <2>2. P \subseteq 1 .. Len(c) BY <1>2, <2>1
  <2>3. ASSUME NEW k \in 1 .. Len(c), k \notin P PROVE c[k] \in {"newline", "semi"}
    <3>1. CASE k < a \/ b < k BY <1>4, <3>1
    <3>2. CASE ~(k < a \/ b < k)
      <4>1. k - a + 1 \in n + 1 .. Len(w) /\ a + (k - a + 1) - 1 = k BY <1>2, <1>5, <2>1, <2>3, <3>2
      <4>2. w[k - a + 1] = "semi" BY <1>6, <4>1
      <4>3. k - a + 1 \in 1 .. b - a + 1 BY <3>2
      <4>4. QED BY <1>5, <4>1, <4>2, <4>3
    <3>3. QED BY <3>1, <3>2
  <2>4. Picks(v, c, P, p)
    <3>1. \A k \in 1 .. n : p[k] = a + k - 1 /\ p[k] \in P /\ v[k] = c[p[k]] BY <1>8, <2>1
    <3>2. ASSUME NEW i \in P PROVE \E k \in 1 .. n : p[k] = i
      <4>1. i - a + 1 \in 1 .. n /\ a + (i - a + 1) - 1 = i BY <2>1
      <4>2. QED BY <4>1
    <3>3. \A k, l \in 1 .. n : k < l => p[k] < p[l] BY <3>1
    <3> HIDE DEF p, P
    <3>4. QED BY <1>7, <3>1, <3>2, <3>3 DEF Picks
  <2> HIDE DEF p, P
  <2>5. QED BY <1>1, <1>7, <2>2, <2>3, <2>4, StartPicked
<1>10. ASSUME NEW k \in 1 .. n, v[k] \in {"semi", "parted", "dashes", "forbidden", "tautology"}
       PROVE  FALSE
  <2>1. a + k - 1 \in DOMAIN c /\ c[a + k - 1] = v[k] BY <1>8
  <2>2. v[k] \notin {"parted", "dashes", "forbidden", "tautology"}
    BY <1>1, <2>1 DEF Has, SeveralStatements
  <2>3. v[k] = "semi" BY <1>10, <2>2
  <2>4. k < n /\ n <= Len(w)
    <3>1. w[n] # "semi" /\ w[k] = "semi" BY <1>6, <1>7, <2>3
    <3>2. k # n BY <3>1
    <3>3. QED BY <1>5, <3>2
  <2>5. a <= b /\ b \in DOMAIN c /\ a + k - 1 < b BY <1>2, <1>5, <2>4
  <2>6. c[b] # "newline" BY <1>4, <2>5
  <2>7. QED BY <1>1, <2>1, <2>3, <2>5, <2>6 DEF SeveralStatements
<1>11. ~Has(v, {"semi", "parted", "dashes", "forbidden", "tautology"}) BY <1>7, <1>10 DEF Has
<1>12. ~SeveralStatements(v) BY <1>11 DEF SeveralStatements, Has
<1>13. ~(Len(v) > MaxQueryLength)
  <2>1. Len(v) <= Len(c) BY <1>2, <1>5, <1>7
  <2>2. QED BY <1>1, <1>2, <1>7, <2>1, LengthAssumption
<1>14. ~Space(v, 1, Len(v))
  <2>1. PICK i \in DOMAIN v : v[i] = "select" BY <1>9 DEF ValidStart
  <2>2. QED BY <1>7, <2>1 DEF Space
<1>15. ~Has(v, {"forbidden"}) /\ ~Has(v, {"tautology"}) /\ ~Has(v, {"semi", "parted", "dashes"})
  BY <1>11 DEF Has
<1>16. Verdict(v) = "valid" BY <1>9, <1>12, <1>13, <1>14, <1>15 DEF Verdict
<1>17. QED BY <1>15, <1>16 DEF v

LEMMA ExecutedStep ==
  ASSUME ExecutedIsValid, ClientSound, [Next]_callVars PROVE ExecutedIsValid'
<1>1. CASE AnswerComes
  <2>1. SUFFICES ASSUME step' = "accepted" PROVE ExecutedIsValid'
    BY DEF ExecutedIsValid
  <2>2. PICK r \in Readings :
          /\ output' = r.reading
          /\ step' = IF r.reading.verdict = "valid" THEN "accepted" ELSE "refused"
    BY <1>1 DEF AnswerComes
  <2>3. r.reading.verdict = "valid" BY <2>1, <2>2
  <2>4. PICK raw \in Answers : r.reading = Reading(raw) BY DEF Readings
  <2>5. raw \in Seq(Token) BY AnswersAssumption
  <2> DEFINE c == CleanSql(raw)
  <2>6. c \in Seq(Token) /\ ~Has(c, {"dashes"}) BY <2>5, Cleaned
  <2>7. r.reading = Judged[c] BY <2>3, <2>4 DEF Reading
  <2> HIDE DEF c
  <2>8. r.reading.sql = Validated(c) /\ r.reading.verdict = Verdict(c) BY <2>6, <2>7 DEF Judged
  <2>9. Verdict(c) = "valid" BY <2>3, <2>8
  <2>10. Verdict(Validated(c)) = "valid" /\ ~Has(Validated(c), {"semi", "parted", "dashes"})
    BY <2>6, <2>9, ValidRuns
  <2>11. output'.sql = Validated(c) BY <2>2, <2>8
  <2>12. QED BY <2>10, <2>11 DEF ExecutedIsValid
<1>2. CASE \/ PromptRefused \/ AskClaude \/ CallFails \/ Execute \/ QueryFails \/ NotWanted
           \/ NoRows \/ FromTemplate \/ AskForCommentary \/ CommentaryComes \/ CommentaryFails
  <2>1. step' # "accepted"
    BY <1>2 DEF PromptRefused, AskClaude, CallFails, Execute, QueryFails, NotWanted, NoRows,
                FromTemplate, AskForCommentary, CommentaryComes, CommentaryFails
  <2>2. QED BY <2>1 DEF ExecutedIsValid
<1>3. CASE Waiting
  <2>1. phase # "idle" /\ step' = step
    BY <1>3 DEF Waiting, Works, Returns, AttemptFails, WakesUp
  <2>2. step' # "accepted" BY <2>1 DEF ClientSound, TypeOK
  <2>3. QED BY <2>2 DEF ExecutedIsValid
<1>4. CASE UNCHANGED callVars BY <1>4 DEF callVars, ExecutedIsValid
<1>5. QED BY <1>1, <1>2, <1>3, <1>4 DEF Next

\* Whatever Claude answers, what is executed passes the validator's checks, without a
\* semicolon and without dashes: nothing that trimming does to the text undoes what the
\* validator has seen (sql_validator.py:59-93).
THEOREM ExecutedIsValidHolds == Spec => []ExecutedIsValid
<1>1. Init => ExecutedIsValid BY DEF Init, ExecutedIsValid
<1>2. ExecutedIsValid /\ ClientSound /\ [Next]_callVars => ExecutedIsValid' BY ExecutedStep
<1>3. QED BY <1>1, <1>2, ClientSoundHolds, PTL DEF Spec

-----------------------------------------------------------------------------
(***************************************************************************)
(* What survives of an answer.  Every pass of the clean-up and of the      *)
(* validator picks elements of the text before it, in their order; there   *)
(* is only one way to pick those at given positions, and picking from what *)
(* was picked is picking from the whole.                                   *)
(***************************************************************************)

LEMMA PicksNotBefore ==
  ASSUME NEW v, NEW w, NEW s, NEW P \in SUBSET Nat, NEW p, NEW q,
         Len(v) \in Nat, Len(w) \in Nat, Picks(v, s, P, p), Picks(w, s, P, q),
         NEW k \in 1 .. Len(v), \A j \in 1 .. k - 1 : j <= Len(w) /\ p[j] = q[j]
  PROVE  k <= Len(w) => ~(p[k] < q[k])
<1> SUFFICES ASSUME k <= Len(w), p[k] < q[k] PROVE FALSE OBVIOUS
<1>1. p[k] \in P /\ p[k] \in Nat BY DEF Picks
<1>2. PICK j \in 1 .. Len(w) : q[j] = p[k] BY <1>1 DEF Picks
<1>3. CASE j < k
  <2>1. j \in 1 .. k - 1 /\ j \in 1 .. Len(v) BY <1>3
  <2>2. p[j] = p[k] BY <1>2, <2>1
  <2>3. p[j] < p[k] BY <1>3, <2>1 DEF Picks
  <2>4. QED BY <1>1, <2>2, <2>3
<1>4. CASE ~(j < k)
  <2>1. k \in 1 .. Len(w) OBVIOUS
  <2>2. j = k \/ q[k] < q[j] BY <1>4, <2>1 DEF Picks
  <2>3. q[k] \in P /\ q[k] \in Nat BY <2>1 DEF Picks
  <2>4. QED BY <1>1, <1>2, <2>2, <2>3
<1>5. QED BY <1>3, <1>4

LEMMA SamePicks ==
  ASSUME NEW v, NEW w, NEW s, NEW P \in SUBSET Nat, NEW p, NEW q,
         Len(v) \in Nat, Len(w) \in Nat, Picks(v, s, P, p), Picks(w, s, P, q)
  PROVE  Len(v) = Len(w) /\ \A k \in 1 .. Len(v) : v[k] = w[k]
<1> DEFINE Agree(k) == k <= Len(v) /\ k <= Len(w) /\ p[k] = q[k]
<1> DEFINE D == {k \in Nat : k > 0 /\ (k <= Len(v) \/ k <= Len(w)) /\ ~Agree(k)}
<1>1. D = {}
  <2>1. SUFFICES ASSUME D # {} PROVE FALSE OBVIOUS
  <2>2. PICK k \in D : \A j \in D : k <= j
    <3>1. D \subseteq Nat OBVIOUS
    <3> HIDE DEF D
    <3>2. QED BY <2>1, <3>1, LeastNumber
  <2>3. \A j \in 1 .. k - 1 : Agree(j)
    <3>1. ASSUME NEW j \in 1 .. k - 1, ~Agree(j) PROVE FALSE
      <4>1. j \in Nat /\ j > 0 /\ j < k /\ (j <= Len(v) \/ j <= Len(w)) BY <2>2
      <4> HIDE DEF Agree
      <4>2. j \in D BY <3>1, <4>1
      <4>3. QED BY <2>2, <4>1, <4>2
    <3>2. QED BY <3>1
  <2>4. k \in Nat /\ k > 0 /\ (k <= Len(v) \/ k <= Len(w)) /\ ~Agree(k) BY <2>2
  <2> HIDE DEF D
  <2>5. CASE k <= Len(v) /\ k <= Len(w)
    <3>1. k \in 1 .. Len(v) /\ k \in 1 .. Len(w) BY <2>4, <2>5
    <3>2. ~(p[k] < q[k]) BY <2>3, <2>5, <3>1, PicksNotBefore
    <3>3. ~(q[k] < p[k])
      <4>1. \A j \in 1 .. k - 1 : j <= Len(v) /\ q[j] = p[j] BY <2>3
      <4>2. QED BY <2>5, <3>1, <4>1, PicksNotBefore
    <3>4. p[k] \in Nat /\ q[k] \in Nat BY <3>1 DEF Picks
    <3>5. QED BY <2>4, <2>5, <3>2, <3>3, <3>4
  <2>6. CASE ~(k <= Len(w))
    <3>1. k \in 1 .. Len(v) BY <2>4, <2>6
    <3>2. p[k] \in P /\ p[k] \in Nat BY <3>1 DEF Picks
    <3>3. PICK j \in 1 .. Len(w) : q[j] = p[k] BY <3>2 DEF Picks
    <3>4. j \in 1 .. k - 1 /\ j \in 1 .. Len(v) /\ j < k BY <2>4, <2>6, <3>1
    <3>5. p[j] = p[k] BY <2>3, <3>3, <3>4
    <3>6. p[j] < p[k] BY <3>1, <3>4 DEF Picks
    <3>7. QED BY <3>2, <3>5, <3>6
  <2>7. CASE ~(k <= Len(v))
    <3>1. k \in 1 .. Len(w) BY <2>4, <2>7
    <3>2. q[k] \in P /\ q[k] \in Nat BY <3>1 DEF Picks
    <3>3. PICK j \in 1 .. Len(v) : p[j] = q[k] BY <3>2 DEF Picks
    <3>4. j \in 1 .. k - 1 /\ j \in 1 .. Len(w) /\ j < k BY <2>4, <2>7, <3>1
    <3>5. q[j] = q[k] BY <2>3, <3>3, <3>4
    <3>6. q[j] < q[k] BY <3>1, <3>4 DEF Picks
    <3>7. QED BY <3>2, <3>5, <3>6
  <2>8. QED BY <2>5, <2>6, <2>7
<1>2. \A k \in Nat : k > 0 /\ (k <= Len(v) \/ k <= Len(w)) => Agree(k) BY <1>1
<1> HIDE DEF D
<1>3. Len(v) = Len(w)
  <2>1. Len(v) > 0 => Len(v) <= Len(w) BY <1>2
  <2>2. Len(w) > 0 => Len(w) <= Len(v) BY <1>2
  <2>3. QED BY <2>1, <2>2
<1>4. ASSUME NEW k \in 1 .. Len(v) PROVE v[k] = w[k]
  <2>1. p[k] = q[k] /\ k \in 1 .. Len(w) BY <1>2, <1>3
  <2>2. QED BY <2>1 DEF Picks
<1>5. QED BY <1>3, <1>4

LEMMA StretchPicks ==
  ASSUME NEW T, NEW s \in Seq(T), NEW a \in 1 .. Len(s) + 1, NEW b \in a - 1 .. Len(s)
  PROVE  Picks(SubSeq(s, a, b), s, a .. b, [k \in 1 .. b - a + 1 |-> a + k - 1])
<1> DEFINE v == SubSeq(s, a, b)
<1> DEFINE p == [k \in 1 .. b - a + 1 |-> a + k - 1]
<1>1. Len(v) = b - a + 1 /\ \A k \in 1 .. b - a + 1 : v[k] = s[a + k - 1] BY Stretch
<1>2. \A k \in 1 .. b - a + 1 : p[k] \in a .. b /\ p[k] = a + k - 1 OBVIOUS
<1>3. ASSUME NEW i \in a .. b PROVE \E k \in 1 .. b - a + 1 : p[k] = i
  <2>1. i - a + 1 \in 1 .. b - a + 1 /\ a + (i - a + 1) - 1 = i OBVIOUS
  <2>2. QED BY <2>1
<1> HIDE DEF v, p
<1>4. \A k, l \in 1 .. b - a + 1 : k < l => p[k] < p[l] BY <1>2
<1>5. Picks(v, s, a .. b, p) BY <1>1, <1>2, <1>3, <1>4 DEF Picks
<1>6. QED BY <1>5 DEF v, p

\* Choosing from what was picked is choosing from the whole.
LEMMA ChosenAgain ==
  ASSUME NEW T, NEW s \in Seq(T), NEW v \in Seq(T), NEW P \in SUBSET (1 .. Len(s)), NEW p,
         Picks(v, s, P, p), NEW Q \in SUBSET (1 .. Len(v)), NEW R \in SUBSET P,
         \A k \in 1 .. Len(v) : k \in Q <=> p[k] \in R
  PROVE  Chosen(v, Q) = Chosen(s, R)
<1> DEFINE x == Chosen(v, Q)
<1> DEFINE y == Chosen(s, R)
<1>1. /\ Len(v) \in Nat /\ \A k \in 1 .. Len(v) : v[k] \in T
      /\ Len(s) \in Nat /\ \A k \in 1 .. Len(s) : s[k] \in T
  BY ElementOfSeq, LenProperties
<1>2. x \in Seq(T) /\ \E q : Picks(x, v, Q, q) BY <1>1, ChosenInOrder
<1>3. y \in Seq(T) /\ \E r : Picks(y, s, R, r)
  <2>1. R \in SUBSET (1 .. Len(s)) /\ \A i \in R : s[i] \in T BY <1>1
  <2>2. QED BY <1>1, <2>1, ChosenInOrder
<1> HIDE DEF x, y
<1>4. PICK q : Picks(x, v, Q, q) BY <1>2
<1>5. PICK r : Picks(y, s, R, r) BY <1>3
<1>6. Len(x) \in Nat /\ Len(y) \in Nat BY <1>2, <1>3
<1> DEFINE t == [k \in 1 .. Len(x) |-> p[q[k]]]
<1>7. ASSUME NEW k \in 1 .. Len(x)
      PROVE  /\ q[k] \in Q /\ q[k] \in 1 .. Len(v)
             /\ t[k] = p[q[k]] /\ t[k] \in R /\ x[k] = s[t[k]]
  <2>1. q[k] \in Q /\ x[k] = v[q[k]] BY <1>4 DEF Picks
  <2>2. q[k] \in 1 .. Len(v) BY <2>1
  <2>3. p[q[k]] \in R /\ v[q[k]] = s[p[q[k]]] BY <2>1, <2>2 DEF Picks
  <2>4. QED BY <2>1, <2>2, <2>3
<1> HIDE DEF t
<1>8. Picks(x, s, R, t)
  <2>1. ASSUME NEW i \in R PROVE \E k \in 1 .. Len(x) : t[k] = i
    <3>1. PICK j \in 1 .. Len(v) : p[j] = i BY DEF Picks
    <3>2. PICK k \in 1 .. Len(x) : q[k] = j BY <1>4, <3>1 DEF Picks
    <3>3. QED BY <1>7, <3>1, <3>2
  <2>2. ASSUME NEW k \in 1 .. Len(x), NEW l \in 1 .. Len(x), k < l PROVE t[k] < t[l]
    <3>1. q[k] < q[l] BY <1>4, <2>2 DEF Picks
    <3>2. p[q[k]] < p[q[l]] BY <1>7, <3>1 DEF Picks
    <3>3. QED BY <1>7, <3>2
  <2>3. QED BY <1>7, <2>1, <2>2 DEF Picks
<1>9. R \in SUBSET Nat OBVIOUS
<1>10. Len(x) = Len(y) /\ \A k \in 1 .. Len(x) : x[k] = y[k]
  BY <1>5, <1>6, <1>8, <1>9, SamePicks
<1>11. x = y BY <1>2, <1>3, <1>10, SeqEqual
<1>12. QED BY <1>11 DEF x, y

\* t is the stretch of s from a to b, around which there is nothing of what s says.
CutAt(t, s, a, b) ==
  /\ t = SubSeq(s, a, b)
  /\ \A k \in 1 .. Len(s) : k < a \/ b < k => s[k] \in Around

\* What makes an answer ordinary, and is left so by every pass.
Plain(s) ==
  /\ \A i \in Spoken(s) : s[i] \in Around \cup PlainWords
  /\ \A i, j \in Spoken(s) : i < j /\ s[i] = "semi" => s[j] \in {"newline", "fence"}
  /\ Cardinality(Spoken(s)) <= MaxQueryLength

Fence == {"fence", "fence_sql"}

Keeps(t, s) ==
  /\ t \in Seq(Token) /\ Meaning(t) = Meaning(s)
  /\ Plain(s) => Plain(t)
  /\ ~Has(s, Fence) => ~Has(t, Fence)

LEMMA RemarkWithin ==
  ASSUME NEW s \in Seq(Token), NEW a \in 1 .. Len(s) + 1, NEW b \in a - 1 .. Len(s),
         NEW t, CutAt(t, s, a, b), NEW k \in 1 .. b - a + 1
  PROVE  Remark(t, k) <=> Remark(s, a + k - 1)
<1>1. \A i \in 1 .. b - a + 1 : t[i] = s[a + i - 1] BY Stretch DEF CutAt
<1>2. ASSUME Remark(t, k) PROVE Remark(s, a + k - 1)
  <2>1. PICK j \in 1 .. k : t[j] = "dashes" /\ \A i \in j .. k : t[i] # "newline"
    BY <1>2 DEF Remark
  <2>2. a + j - 1 \in 1 .. a + k - 1 /\ s[a + j - 1] = "dashes" BY <1>1, <2>1
  <2>3. ASSUME NEW i \in a + j - 1 .. a + k - 1 PROVE s[i] # "newline"
    <3>1. i - a + 1 \in j .. k /\ i - a + 1 \in 1 .. b - a + 1 /\ a + (i - a + 1) - 1 = i
      BY <2>1
    <3>2. t[i - a + 1] = s[i] BY <1>1, <3>1
    <3>3. QED BY <2>1, <3>1, <3>2
  <2>4. QED BY <2>2, <2>3 DEF Remark
<1>3. ASSUME Remark(s, a + k - 1) PROVE Remark(t, k)
  <2>1. PICK j \in 1 .. a + k - 1 :
          s[j] = "dashes" /\ \A i \in j .. a + k - 1 : s[i] # "newline"
    BY <1>3 DEF Remark
  <2>2. j \in 1 .. Len(s) /\ s[j] \notin Around BY <2>1 DEF Around
  <2>3. ~(j < a) BY <2>2 DEF CutAt
  <2>4. j - a + 1 \in 1 .. k /\ j - a + 1 \in 1 .. b - a + 1 /\ a + (j - a + 1) - 1 = j
    BY <2>1, <2>3
  <2>5. t[j - a + 1] = "dashes" BY <1>1, <2>1, <2>4
  <2>6. ASSUME NEW i \in j - a + 1 .. k PROVE t[i] # "newline"
    <3>1. i \in 1 .. b - a + 1 /\ a + i - 1 \in j .. a + k - 1 BY <2>4
    <3>2. QED BY <1>1, <2>1, <3>1
  <2>7. QED BY <2>4, <2>5, <2>6 DEF Remark
<1>4. QED BY <1>2, <1>3

LEMMA CutKeeps ==
  ASSUME NEW s \in Seq(Token), NEW a \in 1 .. Len(s) + 1, NEW b \in a - 1 .. Len(s),
         NEW t, CutAt(t, s, a, b)
  PROVE  Keeps(t, s)
<1> DEFINE n == b - a + 1
<1> DEFINE p == [k \in 1 .. n |-> a + k - 1]
<1>1. /\ t \in Seq(Token) /\ Len(t) = n /\ DOMAIN t = 1 .. n /\ n \in Nat
      /\ \A k \in 1 .. n : t[k] = s[a + k - 1]
  BY Stretch DEF CutAt
<1>2. \A k \in 1 .. n : a + k - 1 \in 1 .. Len(s) OBVIOUS
<1>3. DOMAIN s = 1 .. Len(s) OBVIOUS
<1>4. \A k \in 1 .. n : p[k] = a + k - 1 OBVIOUS
<1>5. Picks(t, s, a .. b, p) BY StretchPicks DEF CutAt
<1>6. \A k \in 1 .. n : k \in Spoken(t) <=> a + k - 1 \in Spoken(s)
  BY <1>1, <1>2, <1>3, RemarkWithin DEF Spoken
<1>7. Spoken(t) \subseteq 1 .. n BY <1>1 DEF Spoken
<1> HIDE DEF p, n
<1>8. Meaning(t) = Meaning(s)
  <2> DEFINE Q == {i \in Spoken(t) : t[i] \notin Around}
  <2> DEFINE R == {i \in Spoken(s) : s[i] \notin Around}
  <2>1. Q \in SUBSET (1 .. Len(t)) BY <1>1, <1>7
  <2>2. R \in SUBSET (a .. b)
    <3>1. ASSUME NEW i \in R PROVE i \in a .. b
      <4>1. i \in 1 .. Len(s) /\ s[i] \notin Around BY <1>3 DEF Spoken
      <4>2. ~(i < a \/ b < i) BY <4>1 DEF CutAt
      <4>3. QED BY <4>1, <4>2
    <3>2. QED BY <3>1
  <2>3. a .. b \in SUBSET (1 .. Len(s)) OBVIOUS
  <2>4. \A k \in 1 .. Len(t) : k \in Q <=> p[k] \in R BY <1>1, <1>4, <1>6
  <2> HIDE DEF Q, R
  <2>5. Chosen(t, Q) = Chosen(s, R) BY <1>1, <1>5, <2>1, <2>2, <2>3, <2>4, ChosenAgain
  <2>6. QED BY <2>5 DEF Meaning, Q, R
<1>9. ASSUME Plain(s) PROVE Plain(t)
  <2>1. ASSUME NEW i \in Spoken(t)
        PROVE  /\ a + i - 1 \in Spoken(s) /\ t[i] = s[a + i - 1] /\ i \in Int
    BY <1>1, <1>6, <1>7
  <2>2. \A i \in Spoken(t) : t[i] \in Around \cup PlainWords
    BY <1>9, <2>1 DEF Plain
  <2>3. \A i, j \in Spoken(t) : i < j /\ t[i] = "semi" => t[j] \in {"newline", "fence"}
    BY <1>9, <2>1 DEF Plain
  <2>4. Cardinality(Spoken(t)) <= Cardinality(Spoken(s))
    <3> DEFINE f == [i \in Spoken(t) |-> a + i - 1]
    <3>1. IsFiniteSet(Spoken(s))
      <4>1. Len(s) \in Int /\ Spoken(s) \subseteq 1 .. Len(s) BY <1>3 DEF Spoken
      <4>2. IsFiniteSet(1 .. Len(s)) BY <4>1, FS_Interval
      <4>3. QED BY <4>1, <4>2, FS_Subset
    <3>2. f \in [Spoken(t) -> Spoken(s)] BY <2>1
    <3>3. \A i, j \in Spoken(t) : f[i] = f[j] => i = j BY <2>1
    <3> HIDE DEF f
    <3>4. f \in Injection(Spoken(t), Spoken(s)) BY <3>2, <3>3 DEF Injection, IsInjective
    <3>5. QED BY <3>1, <3>4, FS_Injection
  <2>5. Cardinality(Spoken(t)) \in Nat /\ Cardinality(Spoken(s)) \in Nat
    <3>1. IsFiniteSet(Spoken(t)) /\ IsFiniteSet(Spoken(s))
      <4>1. Len(s) \in Int /\ Spoken(s) \subseteq 1 .. Len(s) BY <1>3 DEF Spoken
      <4>2. n \in Int /\ Spoken(t) \subseteq 1 .. n BY <1>1, <1>7
      <4>3. IsFiniteSet(1 .. Len(s)) /\ IsFiniteSet(1 .. n) BY <4>1, <4>2, FS_Interval
      <4>4. QED BY <4>1, <4>2, <4>3, FS_Subset
    <3>2. QED BY <3>1, FS_CardinalityType
  <2>6. Cardinality(Spoken(t)) <= MaxQueryLength
    BY <1>9, <2>4, <2>5, LengthAssumption DEF Plain
  <2>7. QED BY <2>2, <2>3, <2>6 DEF Plain
<1>10. Has(t, Fence) => Has(s, Fence) BY StretchHas DEF CutAt
<1>11. QED BY <1>1, <1>8, <1>9, <1>10 DEF Keeps

LEMMA Restretch ==
  ASSUME NEW T, NEW s \in Seq(T), NEW a \in 1 .. Len(s) + 1, NEW b \in a - 1 .. Len(s),
         NEW c \in 1 .. b - a + 2, NEW d \in c - 1 .. b - a + 1
  PROVE  SubSeq(SubSeq(s, a, b), c, d) = SubSeq(s, a + c - 1, a + d - 1)
<1> DEFINE t == SubSeq(s, a, b)
<1> DEFINE x == SubSeq(t, c, d)
<1> DEFINE y == SubSeq(s, a + c - 1, a + d - 1)
<1>1. Len(s) \in Nat OBVIOUS
<1>2. t \in Seq(T) /\ Len(t) = b - a + 1 /\ \A i \in 1 .. b - a + 1 : t[i] = s[a + i - 1]
  BY Stretch
<1> HIDE DEF t
<1>3. c \in 1 .. Len(t) + 1 /\ d \in c - 1 .. Len(t) BY <1>1, <1>2
<1>4. x \in Seq(T) /\ Len(x) = d - c + 1 /\ \A i \in 1 .. d - c + 1 : x[i] = t[c + i - 1]
  BY <1>2, <1>3, Stretch
<1> DEFINE m == a + c - 1
<1> DEFINE n == a + d - 1
<1>5. m \in 1 .. Len(s) + 1 /\ n \in m - 1 .. Len(s) /\ n - m + 1 = d - c + 1 BY <1>1
<1>6. y \in Seq(T) /\ Len(y) = n - m + 1 /\ \A i \in 1 .. n - m + 1 : y[i] = s[m + i - 1]
  <2> HIDE DEF m, n
  <2>1. /\ SubSeq(s, m, n) \in Seq(T) /\ Len(SubSeq(s, m, n)) = n - m + 1
        /\ \A i \in 1 .. n - m + 1 : SubSeq(s, m, n)[i] = s[m + i - 1]
    BY <1>5, Stretch
  <2>2. QED BY <2>1 DEF m, n
<1> HIDE DEF x, y
<1>7. ASSUME NEW i \in 1 .. d - c + 1 PROVE x[i] = y[i]
  <2>1. c + i - 1 \in 1 .. b - a + 1 /\ a + (c + i - 1) - 1 = m + i - 1 BY <1>1
  <2>2. x[i] = s[a + (c + i - 1) - 1] BY <1>2, <1>4, <2>1
  <2>3. QED BY <1>5, <1>6, <2>1, <2>2
<1>8. x = y BY <1>4, <1>5, <1>6, <1>7, SeqEqual
<1>9. QED BY <1>8 DEF x, y, t

LEMMA StripCuts ==
  ASSUME NEW s \in Seq(Token)
  PROVE  \E a \in 1 .. Len(s) + 1 : \E b \in a - 1 .. Len(s) :
           /\ CutAt(Strip(s), s, a, b)
           /\ a <= b => s[a] # "newline" /\ s[b] # "newline"
           /\ \A k \in 1 .. Len(s) : k < a \/ b < k => s[k] = "newline"
BY Stripped DEF CutAt, Around

LEMMA SemicolonsCut ==
  ASSUME NEW s \in Seq(Token)
  PROVE  \E b \in 0 .. Len(s) : CutAt(DropSemicolons[s], s, 1, b)
<1>1. PICK n \in 0 .. Len(s) :
        /\ DropRight(s, "semi") = SubSeq(s, 1, n)
        /\ \A k \in n + 1 .. Len(s) : s[k] = "semi"
  BY RightDropped
<1>2. Len(s) \in Nat OBVIOUS
<1>3. \A k \in 1 .. Len(s) : k < 1 \/ n < k => s[k] \in Around BY <1>1, <1>2 DEF Around
<1>4. QED BY <1>1, <1>3, Trims DEF CutAt

LEMMA OpenCuts ==
  ASSUME NEW s \in Seq(Token)
  PROVE  \E a \in 1 .. Len(s) + 1 :
           /\ CutAt(OpenFence[s], s, a, Len(s))
           /\ s # <<>> /\ s[1] \in Fence => a > 1
<1>1. OpenFence[s] = IF s # <<>> /\ Head(s) \in {"fence", "fence_sql"}
                     THEN TrimStart[Tail(s)] ELSE s
  BY DEF OpenFence
<1>2. Len(s) \in Nat OBVIOUS
<1>3. CASE s # <<>> /\ s[1] \in Fence
  <2>1. Len(s) > 0 /\ Head(s) = s[1] BY <1>3, HeadTailProperties
  <2>2. OpenFence[s] = TrimStart[Tail(s)] BY <1>1, <1>3, <2>1 DEF Fence
  <2> DEFINE t == Tail(s)
  <2>3. t = SubSeq(s, 2, Len(s)) BY <1>3, HeadTailProperties
  <2>4. 2 \in 1 .. Len(s) + 1 /\ Len(s) \in 2 - 1 .. Len(s) BY <1>2, <2>1
  <2>5. /\ t \in Seq(Token) /\ Len(t) = Len(s) - 2 + 1
        /\ \A i \in 1 .. Len(s) - 2 + 1 : t[i] = s[2 + i - 1]
    BY <2>3, <2>4, Stretch
  <2> HIDE DEF t
  <2>6. PICK m \in 1 .. Len(t) + 1 :
          /\ DropLeft(t, "newline") = SubSeq(t, m, Len(t))
          /\ m <= Len(t) => t[m] # "newline"
          /\ \A k \in 1 .. m - 1 : t[k] = "newline"
    <3>1. t \in Seq(Token) BY <2>5
    <3>2. QED BY <3>1, LeftDropped
  <2>7. TrimStart[t] = SubSeq(t, m, Len(t)) BY <2>5, <2>6, Trims
  <2>8. m \in 1 .. Len(s) - 2 + 2 /\ Len(t) \in m - 1 .. Len(s) - 2 + 1 BY <1>2, <2>5
  <2>9. SubSeq(t, m, Len(t)) = SubSeq(s, 2 + m - 1, 2 + Len(t) - 1)
    BY <2>3, <2>4, <2>8, Restretch
  <2>10. 2 + m - 1 = m + 1 /\ 2 + Len(t) - 1 = Len(s) BY <1>2, <2>5
  <2>11. OpenFence[s] = SubSeq(s, m + 1, Len(s)) BY <2>2, <2>7, <2>9, <2>10 DEF t
  <2>12. ASSUME NEW k \in 1 .. Len(s), k < m + 1 PROVE s[k] \in Around
    <3>1. CASE k = 1 BY <1>3, <3>1 DEF Fence, Around
    <3>2. CASE k # 1
      <4>1. k - 1 \in 1 .. m - 1 /\ k - 1 \in 1 .. Len(s) - 2 + 1 /\ 2 + (k - 1) - 1 = k
        BY <1>2, <2>12, <3>2
      <4>2. t[k - 1] = "newline" /\ t[k - 1] = s[k] BY <2>5, <2>6, <4>1
      <4>3. QED BY <4>2 DEF Around
    <3>3. QED BY <3>1, <3>2
  <2>13. m + 1 \in 1 .. Len(s) + 1 /\ m + 1 > 1 BY <1>2, <2>5
  <2>14. \A k \in 1 .. Len(s) : ~(Len(s) < k) BY <1>2
  <2>15. CutAt(OpenFence[s], s, m + 1, Len(s)) BY <2>11, <2>12, <2>14 DEF CutAt
  <2>16. QED BY <2>13, <2>15
<1>4. CASE ~(s # <<>> /\ s[1] \in Fence)
  <2>1. s # <<>> => Head(s) = s[1] BY HeadTailProperties
  <2>2. OpenFence[s] = s BY <1>1, <1>4, <2>1 DEF Fence
  <2>3. s = SubSeq(s, 1, Len(s)) BY SubSeqFull
  <2>4. 1 \in 1 .. Len(s) + 1 /\ \A k \in 1 .. Len(s) : ~(k < 1 \/ Len(s) < k) BY <1>2
  <2>5. CutAt(OpenFence[s], s, 1, Len(s)) BY <2>2, <2>3, <2>4 DEF CutAt
  <2>6. QED BY <1>4, <2>4, <2>5
<1>5. QED BY <1>3, <1>4

LEMMA CloseCuts ==
  ASSUME NEW s \in Seq(Token)
  PROVE  \E b \in 0 .. Len(s) :
           /\ CutAt(CloseFence[s], s, 1, b)
           /\ s # <<>> /\ s[Len(s)] = "fence" => b < Len(s)
<1>1. CloseFence[s] = IF s # <<>> /\ Last(s) = "fence" THEN TrimEnd[Front(s)] ELSE s
  BY DEF CloseFence
<1>2. Len(s) \in Nat /\ Last(s) = s[Len(s)] BY DEF Last
<1>3. CASE s # <<>> /\ s[Len(s)] = "fence"
  <2>1. Len(s) > 0 BY <1>3
  <2>2. CloseFence[s] = TrimEnd[Front(s)] BY <1>1, <1>2, <1>3
  <2> DEFINE t == Front(s)
  <2>3. t = SubSeq(s, 1, Len(s) - 1) BY DEF Front
  <2>4. 1 \in 1 .. Len(s) + 1 /\ Len(s) - 1 \in 1 - 1 .. Len(s) BY <1>2, <2>1
  <2> HIDE DEF t
  <2>5. /\ t \in Seq(Token) /\ Len(t) = (Len(s) - 1) - 1 + 1
        /\ \A i \in 1 .. (Len(s) - 1) - 1 + 1 : t[i] = s[1 + i - 1]
    <3> DEFINE n == Len(s) - 1
    <3>1. n \in 1 - 1 .. Len(s) BY <2>4
    <3> HIDE DEF n
    <3>2. /\ SubSeq(s, 1, n) \in Seq(Token) /\ Len(SubSeq(s, 1, n)) = n - 1 + 1
          /\ \A i \in 1 .. n - 1 + 1 : SubSeq(s, 1, n)[i] = s[1 + i - 1]
      BY <2>4, <3>1, Stretch
    <3>3. QED BY <2>3, <3>2 DEF n
  <2>6. PICK n \in 0 .. Len(t) :
          /\ DropRight(t, "newline") = SubSeq(t, 1, n)
          /\ \A k \in n + 1 .. Len(t) : t[k] = "newline"
    BY <2>5, RightDropped
  <2>7. TrimEnd[t] = SubSeq(t, 1, n) BY <2>5, <2>6, Trims
  <2>8. 1 \in 1 .. (Len(s) - 1) - 1 + 2 /\ n \in 1 - 1 .. (Len(s) - 1) - 1 + 1
    BY <1>2, <2>1, <2>5
  <2>9. SubSeq(t, 1, n) = SubSeq(s, 1 + 1 - 1, 1 + n - 1) BY <2>3, <2>4, <2>8, Restretch
  <2>10. 1 + 1 - 1 = 1 /\ 1 + n - 1 = n BY <2>5
  <2>11. CloseFence[s] = SubSeq(s, 1, n) BY <2>2, <2>7, <2>9, <2>10 DEF t
  <2>12. ASSUME NEW k \in 1 .. Len(s), n < k PROVE s[k] \in Around
    <3>1. CASE k = Len(s) BY <1>3, <3>1 DEF Around
    <3>2. CASE k # Len(s)
      <4>1. k \in n + 1 .. Len(t) /\ k \in 1 .. (Len(s) - 1) - 1 + 1 /\ 1 + k - 1 = k
        BY <1>2, <2>5, <2>12, <3>2
      <4>2. t[k] = "newline" /\ t[k] = s[k] BY <2>5, <2>6, <4>1
      <4>3. QED BY <4>2 DEF Around
    <3>3. QED BY <3>1, <3>2
  <2>13. n \in 0 .. Len(s) /\ n < Len(s) BY <1>2, <2>1, <2>5
  <2>14. CutAt(CloseFence[s], s, 1, n) BY <2>11, <2>12 DEF CutAt
  <2>15. QED BY <2>13, <2>14
<1>4. CASE ~(s # <<>> /\ s[Len(s)] = "fence")
  <2>1. CloseFence[s] = s BY <1>1, <1>2, <1>4
  <2>2. s = SubSeq(s, 1, Len(s)) BY SubSeqFull
  <2>3. Len(s) \in 0 .. Len(s) /\ \A k \in 1 .. Len(s) : ~(k < 1 \/ Len(s) < k) BY <1>2
  <2>4. CutAt(CloseFence[s], s, 1, Len(s)) BY <2>1, <2>2, <2>3 DEF CutAt
  <2>5. QED BY <1>4, <2>3, <2>4
<1>5. QED BY <1>3, <1>4

LEMMA StripKeeps == ASSUME NEW s \in Seq(Token) PROVE Keeps(Strip(s), s)
<1>1. PICK a \in 1 .. Len(s) + 1 : \E b \in a - 1 .. Len(s) : CutAt(Strip(s), s, a, b)
  BY StripCuts
<1>2. PICK b \in a - 1 .. Len(s) : CutAt(Strip(s), s, a, b) BY <1>1
<1>3. QED BY <1>2, CutKeeps

LEMMA SemicolonsKeep == ASSUME NEW s \in Seq(Token) PROVE Keeps(DropSemicolons[s], s)
<1>1. PICK b \in 0 .. Len(s) : CutAt(DropSemicolons[s], s, 1, b) BY SemicolonsCut
<1>2. 1 \in 1 .. Len(s) + 1 /\ b \in 1 - 1 .. Len(s) OBVIOUS
<1>3. QED BY <1>1, <1>2, CutKeeps

\* A fence at the start, and one at the end, are opened and closed.
LEMMA FencesGo ==
  ASSUME NEW raw \in Seq(Token),
         \A i \in DOMAIN raw : raw[i] \in {"fence", "fence_sql"} =>
           \/ \A j \in 1 .. i - 1 : raw[j] = "newline"
           \/ raw[i] = "fence" /\ \A j \in i + 1 .. Len(raw) : raw[j] = "newline"
  PROVE  ~Has(CloseFence[OpenFence[Strip(raw)]], Fence)
<1> DEFINE u == Strip(raw)
<1> DEFINE v == OpenFence[u]
<1> DEFINE w == CloseFence[v]
<1>1. Len(raw) \in Nat /\ DOMAIN raw = 1 .. Len(raw) OBVIOUS
<1>2. PICK a \in 1 .. Len(raw) + 1 : \E b \in a - 1 .. Len(raw) :
        CutAt(u, raw, a, b) /\ (a <= b => raw[a] # "newline" /\ raw[b] # "newline")
  BY StripCuts
<1>3. PICK b \in a - 1 .. Len(raw) :
        CutAt(u, raw, a, b) /\ (a <= b => raw[a] # "newline" /\ raw[b] # "newline")
  BY <1>2
<1>4. u \in Seq(Token) /\ Len(u) = b - a + 1 /\ \A i \in 1 .. b - a + 1 : u[i] = raw[a + i - 1]
  BY <1>3, Stretch DEF CutAt
<1> HIDE DEF u
<1>5. ASSUME NEW i \in 1 .. Len(u), u[i] \in Fence
      PROVE  i = 1 \/ (u[i] = "fence" /\ i = Len(u))
  <2> DEFINE k == a + i - 1
  <2>1. k \in 1 .. Len(raw) /\ a \in 1 .. Len(raw) /\ b \in 1 .. Len(raw) /\ a <= b /\ a <= k /\ k <= b
    BY <1>1, <1>4
  <2>2. raw[k] = u[i] BY <1>4
  <2>3. raw[a] # "newline" /\ raw[b] # "newline" BY <1>3, <2>1
  <2>4. k = b => i = Len(u) BY <1>1, <1>4
  <2> HIDE DEF k
  <2>5. \/ \A j \in 1 .. k - 1 : raw[j] = "newline"
        \/ raw[k] = "fence" /\ \A j \in k + 1 .. Len(raw) : raw[j] = "newline"
    BY <1>1, <1>5, <2>1, <2>2 DEF Fence
  <2>6. CASE \A j \in 1 .. k - 1 : raw[j] = "newline"
    <3>1. ~(a < k) BY <2>1, <2>3, <2>6
    <3>2. k = a BY <1>1, <2>1, <3>1
    <3>3. QED BY <1>1, <3>2 DEF k
  <2>7. CASE raw[k] = "fence" /\ \A j \in k + 1 .. Len(raw) : raw[j] = "newline"
    <3>1. ~(k < b) BY <2>1, <2>3, <2>7
    <3>2. QED BY <2>1, <2>2, <2>4, <2>7, <3>1
  <2>8. QED BY <2>5, <2>6, <2>7
<1>6. PICK c \in 1 .. Len(u) + 1 :
        CutAt(v, u, c, Len(u)) /\ (u # <<>> /\ u[1] \in Fence => c > 1)
  BY <1>4, OpenCuts
<1>7. Len(u) \in Nat /\ Len(u) \in c - 1 .. Len(u) BY <1>4
<1>8. /\ v \in Seq(Token) /\ Len(v) = Len(u) - c + 1
      /\ \A i \in 1 .. Len(u) - c + 1 : v[i] = u[c + i - 1]
  BY <1>4, <1>6, <1>7, Stretch DEF CutAt
<1> HIDE DEF v
<1>9. ASSUME NEW i \in 1 .. Len(v), v[i] \in Fence PROVE v[i] = "fence" /\ i = Len(v)
  <2> DEFINE k == c + i - 1
  <2>1. k \in 1 .. Len(u) /\ Len(u) > 0 BY <1>7, <1>8
  <2>2. u[k] = v[i] BY <1>8
  <2>3. k = Len(u) => i = Len(v) BY <1>7, <1>8
  <2>4. c > 1 => k # 1 BY <1>7
  <2> HIDE DEF k
  <2>5. k = 1 \/ (u[k] = "fence" /\ k = Len(u)) BY <1>5, <1>9, <2>1, <2>2
  <2>6. k # 1
    <3>1. SUFFICES ASSUME k = 1 PROVE FALSE OBVIOUS
    <3>2. u # <<>> /\ u[1] \in Fence BY <1>9, <2>1, <2>2, <3>1
    <3>3. QED BY <1>6, <2>4, <3>1, <3>2
  <2>7. QED BY <2>2, <2>3, <2>5, <2>6
<1>10. PICK d \in 0 .. Len(v) :
         CutAt(w, v, 1, d) /\ (v # <<>> /\ v[Len(v)] = "fence" => d < Len(v))
  BY <1>8, CloseCuts
<1>11. Len(v) \in Nat /\ 1 \in 1 .. Len(v) + 1 /\ d \in 1 - 1 .. Len(v) BY <1>8
<1>12. DOMAIN w = 1 .. d - 1 + 1 /\ \A i \in 1 .. d - 1 + 1 : w[i] = v[1 + i - 1]
  BY <1>8, <1>10, <1>11, Stretch DEF CutAt
<1> HIDE DEF w
<1>13. ASSUME NEW i \in DOMAIN w, w[i] \in Fence PROVE FALSE
  <2>1. i \in 1 .. d - 1 + 1 /\ i \in 1 .. Len(v) /\ 1 + i - 1 = i /\ i <= d /\ Len(v) > 0
    BY <1>11, <1>12
  <2>2. v[i] = w[i] BY <1>12, <2>1
  <2>3. v[i] = "fence" /\ i = Len(v) BY <1>9, <1>13, <2>1, <2>2
  <2>4. v # <<>> BY <2>1
  <2>5. d < Len(v) BY <1>10, <2>3, <2>4
  <2>6. QED BY <1>11, <2>1, <2>3, <2>5
<1>14. ~Has(w, Fence) BY <1>13 DEF Has
<1>15. QED BY <1>14 DEF w, v, u

\* Without dashes there is no remark.
LEMMA AllSpoken ==
  ASSUME NEW s \in Seq(Token), ~Has(s, {"dashes"})
  PROVE  Spoken(s) = 1 .. Len(s) /\ Cardinality(Spoken(s)) = Len(s)
<1>1. Len(s) \in Nat /\ DOMAIN s = 1 .. Len(s) OBVIOUS
<1>2. ASSUME NEW i \in 1 .. Len(s) PROVE ~Remark(s, i)
  <2>1. SUFFICES ASSUME NEW j \in 1 .. i, s[j] = "dashes" PROVE FALSE BY DEF Remark
  <2>2. j \in DOMAIN s BY <1>1
  <2>3. QED BY <2>1, <2>2 DEF Has
<1>3. Spoken(s) = 1 .. Len(s) BY <1>1, <1>2 DEF Spoken
<1>4. Cardinality(1 .. Len(s)) = Len(s) BY <1>1, FS_Interval
<1>5. QED BY <1>3, <1>4

\* In a plain answer the pattern for comments matches comments only.
LEMMA CommentIsRemark ==
  ASSUME NEW s \in Seq(Token), Plain(s), NEW i \in DOMAIN s
  PROVE  InComment(s, i) <=> Remark(s, i)
<1>1. DOMAIN s = 1 .. Len(s) /\ Len(s) \in Nat OBVIOUS
<1>2. Remark(s, i) => InComment(s, i) BY DEF Remark, InComment
<1>3. ASSUME InComment(s, i) PROVE Remark(s, i)
  <2>1. PICK j \in 1 .. i : /\ s[j] = "dashes" \/ (s[j] = "dashed" /\ j < i)
                            /\ \A k \in j .. i : s[k] # "newline"
    BY <1>3 DEF InComment
  <2>2. CASE s[j] = "dashes" BY <2>1, <2>2 DEF Remark
  <2>3. CASE s[j] = "dashed"
    <3>1. j \in DOMAIN s BY <1>1
    <3>2. s[j] \notin Around \cup PlainWords BY <2>3 DEF Around, PlainWords
    <3>3. Remark(s, j) BY <3>1, <3>2 DEF Plain, Spoken
    <3>4. PICK l \in 1 .. j : s[l] = "dashes" /\ \A k \in l .. j : s[k] # "newline"
      BY <3>3 DEF Remark
    <3>5. l \in 1 .. i /\ \A k \in l .. i : k \in l .. j \/ k \in j .. i BY <1>1
    <3>6. QED BY <2>1, <3>4, <3>5 DEF Remark
  <2>4. QED BY <2>1, <2>2, <2>3
<1>4. QED BY <1>2, <1>3

LEMMA CommentsGo ==
  ASSUME NEW s \in Seq(Token), Plain(s), ~Has(s, Fence)
  PROVE  /\ WithoutComments[s] \in Seq(Token) /\ ~Has(WithoutComments[s], Fence \cup {"dashes"})
         /\ Meaning(WithoutComments[s]) = Meaning(s) /\ Plain(WithoutComments[s])
<1> DEFINE cut == [i \in DOMAIN s |-> IF s[i] = "dashed" THEN "cut" ELSE s[i]]
<1> DEFINE w == WithoutComments[s]
<1> DEFINE P == Spoken(s)
<1>1. Len(s) \in Nat /\ DOMAIN s = 1 .. Len(s) OBVIOUS
<1>2. {i \in DOMAIN s : ~InComment(s, i)} = P BY CommentIsRemark DEF Spoken
<1>3. w = Chosen(cut, P) BY <1>2 DEF WithoutComments
<1>4. P \in SUBSET (1 .. Len(s)) BY <1>1 DEF Spoken
<1>5. ASSUME NEW i \in P PROVE cut[i] = s[i] /\ cut[i] \in Token
  <2>1. i \in 1 .. Len(s) /\ s[i] \in Token BY <1>1, <1>4
  <2>2. s[i] \in Around \cup PlainWords BY DEF Plain
  <2>3. s[i] # "dashed" BY <2>2 DEF Around, PlainWords
  <2>4. QED BY <1>1, <2>1, <2>3
<1>6. w \in Seq(Token) /\ ~Has(w, {"dashes"}) BY NoDashesLeft
<1> HIDE DEF w, cut, P
<1>7. \E p : Picks(w, cut, P, p) BY <1>1, <1>3, <1>4, <1>5, ChosenInOrder
<1>8. PICK p : Picks(w, cut, P, p) BY <1>7
<1>9. Len(w) \in Nat /\ DOMAIN w = 1 .. Len(w) BY <1>6
<1>10. \A k \in 1 .. Len(w) : p[k] \in P /\ w[k] = s[p[k]] BY <1>5, <1>8 DEF Picks
<1>11. Picks(w, s, P, p) BY <1>8, <1>10 DEF Picks
<1>12. Spoken(w) = 1 .. Len(w) /\ Cardinality(Spoken(w)) = Len(w) BY <1>6, AllSpoken
<1>13. Meaning(w) = Meaning(s)
  <2> DEFINE Q == {i \in Spoken(w) : w[i] \notin Around}
  <2> DEFINE R == {i \in Spoken(s) : s[i] \notin Around}
  <2>1. Q \in SUBSET (1 .. Len(w)) /\ R \in SUBSET P BY <1>12 DEF P
  <2>2. \A k \in 1 .. Len(w) : k \in Q <=> p[k] \in R BY <1>10, <1>12 DEF P
  <2> HIDE DEF Q, R
  <2>3. Chosen(w, Q) = Chosen(s, R) BY <1>4, <1>6, <1>11, <2>1, <2>2, ChosenAgain
  <2>4. QED BY <2>3 DEF Meaning, Q, R
<1>14. Plain(w)
  <2>1. \A i \in Spoken(w) : w[i] \in Around \cup PlainWords
    BY <1>10, <1>12 DEF Plain, P
  <2>2. ASSUME NEW i \in Spoken(w), NEW j \in Spoken(w), i < j, w[i] = "semi"
        PROVE  w[j] \in {"newline", "fence"}
    <3>1. p[i] < p[j] BY <1>12, <1>11, <2>2 DEF Picks
    <3>2. p[i] \in P /\ p[j] \in P /\ w[i] = s[p[i]] /\ w[j] = s[p[j]] BY <1>10, <1>12
    <3>3. QED BY <2>2, <3>1, <3>2 DEF Plain, P
  <2>3. Len(w) = Cardinality(P) BY <1>1, <1>3, <1>4, ChosenLength
  <2>4. Cardinality(Spoken(w)) <= MaxQueryLength BY <1>12, <2>3 DEF Plain, P
  <2>5. QED BY <2>1, <2>2, <2>4 DEF Plain
<1>15. ASSUME NEW k \in DOMAIN w PROVE w[k] \notin Fence
  <2>1. p[k] \in DOMAIN s /\ w[k] = s[p[k]] BY <1>1, <1>4, <1>9, <1>10
  <2>2. QED BY <2>1 DEF Has
<1>16. ~Has(w, Fence \cup {"dashes"}) BY <1>6, <1>15 DEF Has
<1>17. QED BY <1>6, <1>13, <1>14, <1>16 DEF w

\* A plain text without fences and dashes that begins like a statement is valid, and
\* what the validator returns says the same.
LEMMA PlainRuns ==
  ASSUME NEW c \in Seq(Token), Plain(c), ~Has(c, Fence \cup {"dashes"}), ValidStart(Meaning(c))
  PROVE  /\ Verdict(c) = "valid"
         /\ Chosen(Validated(c), {i \in DOMAIN Validated(c) : Validated(c)[i] # "newline"}) =
              Meaning(c)
<1> DEFINE R == {i \in Spoken(c) : c[i] \notin Around}
<1> DEFINE m == Meaning(c)
<1>1. Len(c) \in Nat /\ DOMAIN c = 1 .. Len(c) OBVIOUS
<1>2. ~Has(c, {"dashes"}) /\ ~Has(c, Fence) BY DEF Has
<1>3. Spoken(c) = 1 .. Len(c) /\ Cardinality(Spoken(c)) = Len(c) BY <1>2, AllSpoken
<1>4. ASSUME NEW k \in 1 .. Len(c)
      PROVE  c[k] \in {"newline", "semi"} \cup PlainWords
  <2>1. c[k] \in Around \cup PlainWords BY <1>3 DEF Plain
  <2>2. c[k] \notin Fence BY <1>1, <1>2 DEF Has
  <2>3. QED BY <2>1, <2>2 DEF Around, Fence, PlainWords
<1>5. ASSUME NEW k \in 1 .. Len(c), NEW l \in 1 .. Len(c), k < l, c[k] = "semi"
      PROVE  c[l] = "newline"
  <2>1. c[l] \in {"newline", "fence"} BY <1>3, <1>5 DEF Plain
  <2>2. QED BY <1>4, <2>1 DEF PlainWords
<1>6. R \in SUBSET (1 .. Len(c)) /\ m = Chosen(c, R) BY <1>3 DEF Meaning
<1> HIDE DEF R, m
<1>7. m \in Seq(Token) /\ \E q : Picks(m, c, R, q)
  <2>1. \A i \in R : c[i] \in Token BY <1>1, <1>6
  <2>2. QED BY <1>1, <1>6, <2>1, ChosenInOrder
<1>8. PICK q : Picks(m, c, R, q) BY <1>7
<1>9. ValidStart(c)
  <2>1. ASSUME NEW k \in 1 .. Len(c), NEW r \in R, k < r, k \notin R PROVE c[k] = "newline"
    <3>1. r \in 1 .. Len(c) /\ c[r] \notin Around BY <1>6 DEF R
    <3>2. c[k] # "semi" BY <1>5, <2>1, <3>1 DEF Around
    <3>3. c[k] \in Around BY <1>3, <2>1 DEF R
    <3>4. QED BY <1>4, <3>2, <3>3 DEF Around, PlainWords
  <2>2. R \subseteq 1 .. Len(c) /\ ValidStart(m) BY <1>6 DEF m
  <2>3. QED BY <1>7, <1>8, <2>1, <2>2, StartWhole
<1>10. Verdict(c) = "valid"
  <2>1. ~Space(c, 1, Len(c)) BY <1>1, <1>9 DEF ValidStart, Space
  <2>2. ~(Len(c) > MaxQueryLength) BY <1>1, <1>3, LengthAssumption DEF Plain
  <2>3. ~Has(c, {"forbidden"}) /\ ~Has(c, {"tautology"}) /\ ~Has(c, {"parted"})
    BY <1>1, <1>4 DEF Has, PlainWords
  <2>4. ~SeveralStatements(c) BY <1>1, <1>5, <2>3 DEF SeveralStatements
  <2>5. QED BY <1>9, <2>1, <2>2, <2>3, <2>4 DEF Verdict
<1> DEFINE v == Validated(c)
<1>11. Keeps(Strip(c), c) BY StripKeeps
<1>12. Keeps(v, Strip(c)) BY StripType, SemicolonsKeep DEF Validated
<1> HIDE DEF v
<1>13. v \in Seq(Token) /\ Meaning(v) = m /\ ~Has(v, Fence)
  BY <1>2, <1>11, <1>12 DEF Keeps, m
<1>14. ~Has(v, {"semi"}) /\ ~Has(v, {"dashes"}) BY <1>2, <1>10, ValidRuns DEF Has, v
<1>15. {i \in DOMAIN v : v[i] # "newline"} = {i \in Spoken(v) : v[i] \notin Around}
  <2>1. DOMAIN v = Spoken(v) BY <1>13, <1>14, AllSpoken
  <2>2. \A i \in DOMAIN v : v[i] \notin {"semi", "fence", "fence_sql"}
    BY <1>13, <1>14 DEF Has, Fence
  <2>3. QED BY <2>1, <2>2 DEF Around
<1>16. Chosen(v, {i \in DOMAIN v : v[i] # "newline"}) = m BY <1>13, <1>15 DEF Meaning
<1>17. QED BY <1>10, <1>16 DEF v, m

LEMMA OrdinaryInScope ==
  ASSUME NEW raw \in Seq(Token), Ordinary(raw)
  PROVE  ~OutOfScope(raw)
<1> DEFINE u == Strip(raw)
<1>1. SUFFICES ASSUME u # <<>>, Head(u) = "scope" PROVE FALSE BY DEF OutOfScope
<1>2. Len(raw) \in Nat /\ DOMAIN raw = 1 .. Len(raw) OBVIOUS
<1>3. PICK a \in 1 .. Len(raw) + 1 : \E b \in a - 1 .. Len(raw) :
        /\ CutAt(u, raw, a, b)
        /\ \A k \in 1 .. Len(raw) : k < a \/ b < k => raw[k] = "newline"
  BY StripCuts
<1>4. PICK b \in a - 1 .. Len(raw) :
        /\ CutAt(u, raw, a, b)
        /\ \A k \in 1 .. Len(raw) : k < a \/ b < k => raw[k] = "newline"
  BY <1>3
<1>5. u \in Seq(Token) /\ Len(u) = b - a + 1 /\ \A i \in 1 .. b - a + 1 : u[i] = raw[a + i - 1]
  BY <1>4, Stretch DEF CutAt
<1> HIDE DEF u
<1>6. Len(u) > 0 /\ u[1] = "scope" BY <1>1, <1>5
<1>7. a \in DOMAIN raw /\ raw[a] = "scope" BY <1>2, <1>5, <1>6
<1>8. ~Remark(raw, a)
  <2>1. SUFFICES ASSUME NEW j \in 1 .. a, raw[j] = "dashes" PROVE FALSE BY DEF Remark
  <2>2. j # a BY <1>7, <2>1
  <2>3. j \in 1 .. Len(raw) /\ j < a BY <1>2, <1>7, <2>2
  <2>4. QED BY <1>4, <2>1, <2>3
<1>9. a \in Spoken(raw) BY <1>7, <1>8 DEF Spoken
<1>10. raw[a] \in Around \cup PlainWords BY <1>9 DEF Ordinary
<1>11. QED BY <1>7, <1>10 DEF Around, PlainWords

LEMMA OrdinaryRuns ==
  ASSUME NEW raw \in Seq(Token), Ordinary(raw)
  PROVE  LET sql == CleanSql(raw)
         IN /\ sql \in Seq(Token) /\ Verdict(sql) = "valid"
            /\ Chosen(Validated(sql), {i \in DOMAIN Validated(sql) : Validated(sql)[i] # "newline"}) =
                 Meaning(raw)
<1> DEFINE u == Strip(raw)
<1> DEFINE v == OpenFence[u]
<1> DEFINE w == CloseFence[v]
<1> DEFINE x == DropSemicolons[w]
<1> DEFINE y == Strip(x)
<1> DEFINE z == WithoutComments[y]
<1> DEFINE c == Strip(z)
<1>1. Plain(raw) BY DEF Ordinary, Plain
<1>2. c = CleanSql(raw) BY DEF CleanSql
<1>3. ~Has(w, Fence) BY FencesGo DEF Ordinary
<1>4. Keeps(u, raw) BY StripKeeps
<1> HIDE DEF u
<1>5. u \in Seq(Token) BY <1>4 DEF Keeps
<1>6. Keeps(v, u)
  <2>1. PICK a \in 1 .. Len(u) + 1 : CutAt(v, u, a, Len(u)) BY <1>5, OpenCuts
  <2>2. Len(u) \in a - 1 .. Len(u) BY <1>5
  <2> HIDE DEF v
  <2>3. QED BY <1>5, <2>1, <2>2, CutKeeps
<1> HIDE DEF v
<1>7. v \in Seq(Token) BY <1>6 DEF Keeps
<1>8. Keeps(w, v)
  <2>1. PICK b \in 0 .. Len(v) : CutAt(w, v, 1, b) BY <1>7, CloseCuts
  <2>2. 1 \in 1 .. Len(v) + 1 /\ b \in 1 - 1 .. Len(v) BY <1>7
  <2> HIDE DEF w
  <2>3. QED BY <1>7, <2>1, <2>2, CutKeeps
<1> HIDE DEF w
<1>9. w \in Seq(Token) BY <1>8 DEF Keeps
<1>10. Keeps(x, w) BY <1>9, SemicolonsKeep
<1> HIDE DEF x
<1>11. x \in Seq(Token) BY <1>10 DEF Keeps
<1>12. Keeps(y, x) BY <1>11, StripKeeps
<1> HIDE DEF y
<1>13. y \in Seq(Token) /\ Plain(y) /\ ~Has(y, Fence) /\ Meaning(y) = Meaning(raw)
  BY <1>1, <1>3, <1>4, <1>6, <1>8, <1>10, <1>12 DEF Keeps
<1>14. /\ z \in Seq(Token) /\ ~Has(z, Fence \cup {"dashes"})
       /\ Meaning(z) = Meaning(y) /\ Plain(z)
  BY <1>13, CommentsGo
<1> HIDE DEF z
<1>15. Keeps(c, z) BY <1>14, StripKeeps
<1>16. ~Has(c, {"dashes"}) BY <1>2, Cleaned
<1> HIDE DEF c
<1>17. /\ c \in Seq(Token) /\ Plain(c) /\ ~Has(c, Fence \cup {"dashes"})
       /\ Meaning(c) = Meaning(raw)
  BY <1>13, <1>14, <1>15, <1>16 DEF Keeps, Has
<1>18. ValidStart(Meaning(c)) BY <1>17 DEF Ordinary
<1>19. /\ Verdict(c) = "valid"
       /\ Chosen(Validated(c), {i \in DOMAIN Validated(c) : Validated(c)[i] # "newline"}) =
            Meaning(c)
  BY <1>17, <1>18, PlainRuns
<1>20. QED BY <1>2, <1>17, <1>19

LEMMA OrdinaryStep ==
  ASSUME OrdinaryAnswerRuns, [Next]_callVars PROVE OrdinaryAnswerRuns'
<1>1. CASE AnswerComes
  <2>1. PICK r \in Readings : input' = r.answer /\ output' = r.reading
    BY <1>1 DEF AnswerComes
  <2>2. PICK raw \in Answers : r = [answer |-> [raw |-> raw], reading |-> Reading(raw)]
    BY DEF Readings
  <2>3. input'.raw = raw /\ output' = Reading(raw) /\ raw \in Seq(Token)
    BY <2>1, <2>2, AnswersAssumption
  <2>4. SUFFICES ASSUME Ordinary(raw)
                 PROVE  /\ output'.verdict = "valid"
                        /\ Chosen(output'.sql, {i \in DOMAIN output'.sql : output'.sql[i] # "newline"})
                             = Meaning(raw)
    BY <2>3 DEF OrdinaryAnswerRuns
  <2> DEFINE c == CleanSql(raw)
  <2>5. ~OutOfScope(raw) BY <2>3, <2>4, OrdinaryInScope
  <2>6. output' = Judged[c] BY <2>3, <2>5 DEF Reading
  <2>7. /\ c \in Seq(Token) /\ Verdict(c) = "valid"
        /\ Chosen(Validated(c), {i \in DOMAIN Validated(c) : Validated(c)[i] # "newline"}) =
             Meaning(raw)
    BY <2>3, <2>4, OrdinaryRuns
  <2> HIDE DEF c
  <2>8. output'.verdict = Verdict(c) /\ output'.sql = Validated(c) BY <2>6, <2>7 DEF Judged
  <2>9. QED BY <2>7, <2>8
<1>2. CASE PromptRefused \/ CallFails \/ QueryFails
  <2>1. UNCHANGED <<input, output>> BY <1>2 DEF PromptRefused, CallFails, QueryFails
  <2>2. QED BY <2>1 DEF OrdinaryAnswerRuns, Read
<1>3. CASE \/ Waiting \/ Execute \/ AskClaude \/ NotWanted \/ NoRows \/ FromTemplate
           \/ AskForCommentary \/ CommentaryComes \/ CommentaryFails
  <2>1. CASE Waiting \/ Execute
    <3>1. output' = Nothing BY <2>1 DEF Waiting, Execute
    <3>2. "verdict" \notin DOMAIN output' BY <3>1 DEF Nothing
    <3>3. QED BY <3>2 DEF OrdinaryAnswerRuns, Read
  <2>2. CASE AskClaude
    <3>1. output' = Prompt(input.question, input.tables, input.history)
      BY <2>2 DEF AskClaude
    <3>2. "verdict" \notin DOMAIN output' BY <3>1 DEF Prompt
    <3>3. QED BY <3>2 DEF OrdinaryAnswerRuns, Read
  <2>3. CASE NotWanted \/ NoRows \/ CommentaryComes \/ CommentaryFails
    <3>1. \E kind : output' = [kind |-> kind]
      BY <2>3 DEF NotWanted, NoRows, CommentaryComes, CommentaryFails
    <3>2. "verdict" \notin DOMAIN output' BY <3>1
    <3>3. QED BY <3>2 DEF OrdinaryAnswerRuns, Read
  <2>4. CASE FromTemplate
    <3>1. PICK t \in Templated :
            output' = [kind |-> t.says.kind, says |-> t.says,
                       followups |-> Followups(t.case.ask, t.case.query, t.case.result, t.says.kind)]
      BY <2>4 DEF FromTemplate
    <3>2. "verdict" \notin DOMAIN output' BY <3>1
    <3>3. QED BY <3>2 DEF OrdinaryAnswerRuns, Read
  <2>5. CASE AskForCommentary
    <3>1. PICK t \in Untemplated : output' = PromptTable(t.case.result)
      BY <2>5 DEF AskForCommentary
    <3>2. "verdict" \notin DOMAIN output' BY <3>1 DEF PromptTable
    <3>3. QED BY <3>2 DEF OrdinaryAnswerRuns, Read
  <2>6. QED BY <1>3, <2>1, <2>2, <2>3, <2>4, <2>5
<1>4. CASE UNCHANGED callVars BY <1>4 DEF callVars, OrdinaryAnswerRuns, Read
<1>5. QED BY <1>1, <1>2, <1>3, <1>4 DEF Next

\* An ordinary answer of any words and any length that is allowed passes the validator
\* and is executed as it was meant: no pass of the clean-up takes a word of the
\* statement with what it removes (nl_to_sql.py:324-332, sql_validator.py:59-93).
THEOREM OrdinaryAnswerRunsHolds == Spec => []OrdinaryAnswerRuns
<1>1. Init => OrdinaryAnswerRuns
  <2>1. "verdict" \notin DOMAIN Nothing BY DEF Nothing
  <2>2. QED BY <2>1 DEF Init, OrdinaryAnswerRuns, Read
<1>2. OrdinaryAnswerRuns /\ [Next]_callVars => OrdinaryAnswerRuns' BY OrdinaryStep
<1>3. QED BY <1>1, <1>2, PTL DEF Spec

-----------------------------------------------------------------------------
(***************************************************************************)
(* Totals.  The sums of the first values exist by induction, they are the  *)
(* only ones, and the last of them does not depend on the values' order.   *)
(***************************************************************************)
Running(g, values) ==
  /\ g[0] = 0
  /\ \A m \in 0 .. Len(values) - 1 : g[m + 1] = g[m] + values[m + 1]

LEMMA RunningTotals ==
  ASSUME NEW values \in Seq(Int)
  PROVE  \E g \in [0 .. Len(values) -> Int] : Running(g, values) /\ Total(values) = g[Len(values)]
<1> DEFINE n == Len(values)
<1> DEFINE Sums(g) == g = [m \in 0 .. n |-> IF m = 0 THEN 0 ELSE g[m - 1] + values[m]]
<1> DEFINE Summed(m, g) ==
             g[0] = 0 /\ \A k \in 1 .. m : g[k] = g[k - 1] + values[k]
<1> DEFINE S == {m \in Nat : m <= n => \E g \in [0 .. m -> Int] : Summed(m, g)}
<1>1. n \in Nat /\ \A m \in 1 .. n : values[m] \in Int OBVIOUS
<1> HIDE DEF n
<1>2. 0 \in S
  <2>1. [k \in 0 .. 0 |-> 0] \in [0 .. 0 -> Int] /\ Summed(0, [k \in 0 .. 0 |-> 0]) OBVIOUS
  <2>2. QED BY <2>1
<1>3. ASSUME NEW m \in Nat, m \in S PROVE m + 1 \in S
  <2>1. SUFFICES ASSUME m + 1 <= n
                 PROVE  \E g \in [0 .. m + 1 -> Int] : Summed(m + 1, g)
    OBVIOUS
  <2>2. PICK f \in [0 .. m -> Int] : Summed(m, f)
    <3>1. m <= n BY <1>1, <2>1
    <3>2. \E f \in [0 .. m -> Int] : Summed(m, f) BY <1>3, <3>1
    <3>3. QED BY <3>2
  <2> DEFINE g == [k \in 0 .. m + 1 |-> IF k <= m THEN f[k] ELSE f[m] + values[m + 1]]
  <2>3. m + 1 \in 1 .. n BY <1>1, <2>1
  <2>4. g \in [0 .. m + 1 -> Int] BY <1>1, <2>3
  <2>5. g[0] = 0 BY <2>2
  <2>6. ASSUME NEW k \in 1 .. m + 1 PROVE g[k] = g[k - 1] + values[k]
    <3>1. CASE k <= m
      <4>1. k \in 1 .. m /\ k - 1 \in 0 .. m BY <3>1
      <4>2. g[k] = f[k] /\ g[k - 1] = f[k - 1] BY <4>1
      <4>3. QED BY <2>2, <4>1, <4>2
    <3>2. CASE k = m + 1
      <4>1. k - 1 = m /\ m \in 0 .. m + 1 /\ ~(m + 1 <= m) BY <3>2
      <4>2. g[k] = f[m] + values[m + 1] /\ g[m] = f[m] BY <3>2, <4>1
      <4>3. QED BY <3>2, <4>1, <4>2
    <3>3. QED BY <3>1, <3>2
  <2> HIDE DEF g
  <2>7. Summed(m + 1, g) BY <2>5, <2>6
  <2>8. QED BY <2>4, <2>7
<1> HIDE DEF S
<1>4. n \in S BY <1>1, <1>2, <1>3, InductionOnSet
<1>5. PICK g \in [0 .. n -> Int] : Summed(n, g)
  <2>1. n <= n BY <1>1
  <2> HIDE DEF Summed
  <2>2. \E g \in [0 .. n -> Int] : Summed(n, g) BY <1>4, <2>1 DEF S
  <2>3. QED BY <2>2
<1>6. Sums(g)
  <2> DEFINE h == [m \in 0 .. n |-> IF m = 0 THEN 0 ELSE g[m - 1] + values[m]]
  <2>1. ASSUME NEW m \in 0 .. n PROVE g[m] = h[m]
    <3>1. m # 0 => m \in 1 .. n BY <1>1
    <3>2. QED BY <1>5, <3>1
  <2> HIDE DEF h
  <2>2. g = [m \in 0 .. n |-> g[m]] BY <1>5
  <2>3. h = [m \in 0 .. n |-> h[m]] BY DEF h
  <2>4. g = h BY <2>1, <2>2, <2>3
  <2>5. QED BY <2>4 DEF h
<1> DEFINE sum == CHOOSE f : Sums(f)
<1>7. Sums(sum) BY <1>6
<1>8. Total(values) = sum[n] BY DEF Total, n
<1> HIDE DEF sum
<1>9. sum = [m \in 0 .. n |-> IF m = 0 THEN 0 ELSE sum[m - 1] + values[m]] BY <1>7
<1> DEFINE R == {m \in Nat : m <= n => sum[m] = g[m]}
<1>10. 0 \in R
  <2>1. 0 \in 0 .. n BY <1>1
  <2>2. sum[0] = 0 BY <1>9, <2>1
  <2>3. QED BY <1>5, <2>2
<1>11. ASSUME NEW m \in Nat, m \in R PROVE m + 1 \in R
  <2>1. SUFFICES ASSUME m + 1 <= n PROVE sum[m + 1] = g[m + 1] OBVIOUS
  <2>2. m + 1 \in 0 .. n /\ m + 1 \in 1 .. n /\ m + 1 # 0 /\ (m + 1) - 1 = m BY <1>1, <2>1
  <2>3. sum[m + 1] = sum[m] + values[m + 1] BY <1>9, <2>2
  <2>4. g[m + 1] = g[m] + values[m + 1] BY <1>5, <2>2
  <2>5. sum[m] = g[m] BY <1>1, <1>11, <2>1
  <2>6. QED BY <2>3, <2>4, <2>5
<1> HIDE DEF R
<1>12. n \in R BY <1>1, <1>10, <1>11, InductionOnSet
<1>13. Total(values) = g[n] BY <1>1, <1>8, <1>12 DEF R
<1>14. Running(g, values)
  <2>1. ASSUME NEW m \in 0 .. n - 1 PROVE g[m + 1] = g[m] + values[m + 1]
    <3>1. m + 1 \in 1 .. n /\ (m + 1) - 1 = m BY <1>1
    <3>2. QED BY <1>5, <3>1
  <2>2. QED BY <1>5, <2>1 DEF Running, n
<1>15. QED BY <1>5, <1>13, <1>14 DEF n

LEMMA TotalIs ==
  ASSUME NEW values \in Seq(Int), NEW g, Running(g, values)
  PROVE  Total(values) = g[Len(values)] /\ Total(values) \in Int
<1> DEFINE n == Len(values)
<1>1. PICK f \in [0 .. n -> Int] : Running(f, values) /\ Total(values) = f[n]
  BY RunningTotals
<1>2. n \in Nat OBVIOUS
<1> DEFINE S == {m \in Nat : m <= n => f[m] = g[m]}
<1>3. 0 \in S BY <1>1 DEF Running
<1>4. ASSUME NEW m \in Nat, m \in S PROVE m + 1 \in S
  <2>1. SUFFICES ASSUME m + 1 <= n PROVE f[m + 1] = g[m + 1] OBVIOUS
  <2>2. m \in 0 .. n - 1 BY <1>2, <2>1
  <2>3. f[m + 1] = f[m] + values[m + 1] /\ g[m + 1] = g[m] + values[m + 1]
    BY <1>1, <2>2 DEF Running
  <2>4. f[m] = g[m] BY <1>2, <1>4, <2>1
  <2>5. QED BY <2>3, <2>4
<1> HIDE DEF S
<1>5. n \in S BY <1>2, <1>3, <1>4, InductionOnSet
<1>6. QED BY <1>1, <1>2, <1>5 DEF S

\* A value that changes changes the total by as much.
LEMMA TotalChanged ==
  ASSUME NEW n \in Nat, NEW f \in [1 .. n -> Int], NEW h \in [1 .. n -> Int], NEW q \in 1 .. n,
         \A k \in 1 .. n : k # q => f[k] = h[k]
  PROVE  Total(h) = Total(f) - f[q] + h[q]
<1>1. f \in Seq(Int) /\ Len(f) = n /\ h \in Seq(Int) /\ Len(h) = n OBVIOUS
<1>2. PICK g \in [0 .. n -> Int] : Running(g, f) /\ Total(f) = g[n] BY <1>1, RunningTotals
<1> DEFINE moved == [m \in 0 .. n |-> IF m < q THEN g[m] ELSE g[m] - f[q] + h[q]]
<1>3. Running(moved, h)
  <2>1. moved[0] = 0 BY <1>2 DEF Running
  <2>2. ASSUME NEW m \in 0 .. n - 1 PROVE moved[m + 1] = moved[m] + h[m + 1]
    <3>1. /\ m \in 0 .. n /\ m + 1 \in 0 .. n /\ m + 1 \in 1 .. n
          /\ g[m] \in Int /\ f[q] \in Int /\ h[q] \in Int /\ f[m + 1] \in Int
      OBVIOUS
    <3>2. g[m + 1] = g[m] + f[m + 1] BY <1>1, <1>2 DEF Running
    <3>3. CASE m + 1 < q
      <4>1. moved[m + 1] = g[m + 1] /\ moved[m] = g[m] /\ f[m + 1] = h[m + 1] BY <3>1, <3>3
      <4>2. QED BY <3>2, <4>1
    <3>4. CASE m + 1 = q
      <4>1. moved[m + 1] = g[m + 1] - f[q] + h[q] /\ moved[m] = g[m] BY <3>1, <3>4
      <4>2. f[m + 1] = f[q] /\ h[m + 1] = h[q] BY <3>4
      <4> HIDE DEF moved
      <4>3. QED BY <3>1, <3>2, <4>1, <4>2
    <3>5. CASE m + 1 > q
      <4>1. /\ moved[m + 1] = g[m + 1] - f[q] + h[q] /\ moved[m] = g[m] - f[q] + h[q]
            /\ f[m + 1] = h[m + 1]
        BY <3>1, <3>5
      <4>2. QED BY <3>1, <3>2, <4>1
    <3>6. QED BY <3>3, <3>4, <3>5
  <2> HIDE DEF moved
  <2>3. QED BY <1>1, <2>1, <2>2 DEF Running
<1>4. moved[n] = g[n] - f[q] + h[q] OBVIOUS
<1> HIDE DEF moved
<1>5. Total(h) = moved[n] BY <1>1, <1>3, TotalIs
<1>6. QED BY <1>2, <1>4, <1>5

LEMMA TotalWithLast ==
  ASSUME NEW n \in Nat, NEW f \in [1 .. n + 1 -> Int]
  PROVE  Total(f) = Total([k \in 1 .. n |-> f[k]]) + f[n + 1]
<1> DEFINE front == [k \in 1 .. n |-> f[k]]
<1>1. f \in Seq(Int) /\ Len(f) = n + 1 OBVIOUS
<1>2. front \in [1 .. n -> Int] OBVIOUS
<1>3. front \in Seq(Int) /\ Len(front) = n BY <1>2
<1>4. PICK g \in [0 .. n + 1 -> Int] : Running(g, f) /\ Total(f) = g[n + 1]
  BY <1>1, RunningTotals
<1>5. Running(g, front)
  <2>1. ASSUME NEW m \in 0 .. n - 1 PROVE g[m + 1] = g[m] + front[m + 1]
    <3>1. m \in 0 .. (n + 1) - 1 /\ front[m + 1] = f[m + 1] OBVIOUS
    <3>2. QED BY <1>1, <1>4, <3>1 DEF Running
  <2> HIDE DEF front
  <2>2. QED BY <1>3, <1>4, <2>1 DEF Running
<1> HIDE DEF front
<1>6. Total(front) = g[n] BY <1>3, <1>5, TotalIs
<1>7. n \in 0 .. (n + 1) - 1 OBVIOUS
<1>8. g[n + 1] = g[n] + f[n + 1] BY <1>1, <1>4, <1>7 DEF Running
<1>9. QED BY <1>4, <1>6, <1>8 DEF front

LEMMA TotalOfNothing == ASSUME NEW f \in [1 .. 0 -> Int] PROVE Total(f) = 0
<1>1. f \in Seq(Int) /\ Len(f) = 0 OBVIOUS
<1>2. QED BY <1>1, RunningTotals DEF Running

\* The last of the places that p leads from is filled by what stood last.
LEMMA WithoutLast ==
  ASSUME NEW n \in Nat, NEW p \in Bijection(1 .. n + 1, 1 .. n + 1)
  PROVE  \E q \in 1 .. n + 1 :
           /\ p[q] = n + 1
           /\ [k \in 1 .. n |-> IF k = q THEN p[n + 1] ELSE p[k]] \in Bijection(1 .. n, 1 .. n)
<1>1. /\ p \in [1 .. n + 1 -> 1 .. n + 1]
      /\ \A k, l \in 1 .. n + 1 : p[k] = p[l] => k = l
      /\ \A t \in 1 .. n + 1 : \E k \in 1 .. n + 1 : p[k] = t
  BY DEF Bijection, Injection, Surjection, IsInjective
<1>2. n + 1 \in 1 .. n + 1 OBVIOUS
<1>3. PICK q \in 1 .. n + 1 : p[q] = n + 1 BY <1>1, <1>2
<1> DEFINE r == [k \in 1 .. n |-> IF k = q THEN p[n + 1] ELSE p[k]]
<1>4. ASSUME NEW k \in 1 .. n PROVE r[k] \in 1 .. n
  <2>1. k \in 1 .. n + 1 /\ k # n + 1 OBVIOUS
  <2>2. CASE k = q
    <3>1. r[k] = p[n + 1] /\ n + 1 # q BY <2>1, <2>2
    <3>2. p[n + 1] \in 1 .. n + 1 /\ p[n + 1] # n + 1 BY <1>1, <1>2, <1>3, <3>1
    <3>3. QED BY <3>1, <3>2
  <2>3. CASE k # q
    <3>1. r[k] = p[k] BY <2>3
    <3>2. p[k] \in 1 .. n + 1 /\ p[k] # n + 1 BY <1>1, <1>3, <2>1, <2>3
    <3>3. QED BY <3>1, <3>2
  <2>4. QED BY <2>2, <2>3
<1>5. ASSUME NEW k \in 1 .. n, NEW l \in 1 .. n, r[k] = r[l] PROVE k = l
  <2>1. k \in 1 .. n + 1 /\ l \in 1 .. n + 1 /\ k # n + 1 /\ l # n + 1 OBVIOUS
  <2>2. CASE k = q /\ l # q
    <3>1. p[n + 1] = p[l] BY <1>5, <2>2
    <3>2. QED BY <1>1, <1>2, <2>1, <3>1
  <2>3. CASE k # q /\ l = q
    <3>1. p[k] = p[n + 1] BY <1>5, <2>3
    <3>2. QED BY <1>1, <1>2, <2>1, <3>1
  <2>4. CASE k # q /\ l # q
    <3>1. p[k] = p[l] BY <1>5, <2>4
    <3>2. QED BY <1>1, <2>1, <3>1
  <2>5. QED BY <2>2, <2>3, <2>4
<1>6. ASSUME NEW t \in 1 .. n PROVE \E k \in 1 .. n : r[k] = t
  <2>1. PICK k \in 1 .. n + 1 : p[k] = t
    <3>1. t \in 1 .. n + 1 OBVIOUS
    <3>2. QED BY <1>1, <3>1
  <2>2. k # q BY <1>3, <2>1
  <2>3. CASE k = n + 1
    <3>1. q \in 1 .. n BY <2>2, <2>3
    <3>2. r[q] = t BY <2>1, <2>3, <3>1
    <3>3. QED BY <3>1, <3>2
  <2>4. CASE k # n + 1
    <3>1. k \in 1 .. n /\ r[k] = t BY <2>1, <2>2, <2>4
    <3>2. QED BY <3>1
  <2>5. QED BY <2>3, <2>4
<1>7. r = [k \in 1 .. n |-> r[k]] OBVIOUS
<1> HIDE DEF r
<1>8. r \in [1 .. n -> 1 .. n] BY <1>4, <1>7
<1>9. r \in Bijection(1 .. n, 1 .. n)
  BY <1>5, <1>6, <1>8 DEF Bijection, Injection, Surjection, IsInjective
<1>10. QED BY <1>3, <1>9 DEF r

LEMMA TotalRearranged ==
  ASSUME NEW n \in Nat, NEW f \in [1 .. n -> Int], NEW p \in Bijection(1 .. n, 1 .. n)
  PROVE  Total([k \in 1 .. n |-> f[p[k]]]) = Total(f)
<1> DEFINE Same(m) == \A g \in [1 .. m -> Int], r \in Bijection(1 .. m, 1 .. m) :
                        Total([k \in 1 .. m |-> g[r[k]]]) = Total(g)
<1> DEFINE S == {m \in Nat : Same(m)}
<1>1. 0 \in S
  <2>1. ASSUME NEW g \in [1 .. 0 -> Int], NEW r \in Bijection(1 .. 0, 1 .. 0)
        PROVE  Total([k \in 1 .. 0 |-> g[r[k]]]) = Total(g)
    <3>1. [k \in 1 .. 0 |-> g[r[k]]] \in [1 .. 0 -> Int] OBVIOUS
    <3>2. QED BY <3>1, TotalOfNothing
  <2>2. QED BY <2>1
<1>2. ASSUME NEW m \in Nat, m \in S PROVE m + 1 \in S
  <2>1. SUFFICES ASSUME NEW g \in [1 .. m + 1 -> Int],
                        NEW r \in Bijection(1 .. m + 1, 1 .. m + 1)
                 PROVE  Total([k \in 1 .. m + 1 |-> g[r[k]]]) = Total(g)
    OBVIOUS
  <2> DEFINE a == [k \in 1 .. m + 1 |-> g[r[k]]]
  <2> DEFINE front == [k \in 1 .. m |-> a[k]]
  <2> DEFINE rest == [k \in 1 .. m |-> g[k]]
  <2>2. PICK q \in 1 .. m + 1 :
          /\ r[q] = m + 1
          /\ [k \in 1 .. m |-> IF k = q THEN r[m + 1] ELSE r[k]] \in Bijection(1 .. m, 1 .. m)
    BY WithoutLast
  <2> DEFINE s == [k \in 1 .. m |-> IF k = q THEN r[m + 1] ELSE r[k]]
  <2> DEFINE b == [k \in 1 .. m |-> rest[s[k]]]
  <2>3. r \in [1 .. m + 1 -> 1 .. m + 1] BY DEF Bijection, Injection
  <2>4. s \in [1 .. m -> 1 .. m] BY <2>2 DEF Bijection, Injection
  <2>5. a \in [1 .. m + 1 -> Int] /\ front \in [1 .. m -> Int] /\ rest \in [1 .. m -> Int]
    BY <2>3
  <2>6. Total(a) = Total(front) + a[m + 1] BY <2>5, TotalWithLast
  <2>7. Total(g) = Total(rest) + g[m + 1] BY TotalWithLast
  <2>8. Total(b) = Total(rest) BY <1>2, <2>2, <2>5
  <2>9. ASSUME NEW k \in 1 .. m PROVE b[k] = IF k = q THEN a[m + 1] ELSE front[k]
    <3>1. s[k] \in 1 .. m BY <2>4
    <3>2. b[k] = g[s[k]] BY <3>1
    <3>3. s[k] = IF k = q THEN r[m + 1] ELSE r[k] OBVIOUS
    <3>4. a[m + 1] = g[r[m + 1]] /\ front[k] = g[r[k]] OBVIOUS
    <3>5. QED BY <3>2, <3>3, <3>4
  <2>10. b \in [1 .. m -> Int] BY <2>4, <2>5
  <2>11. a[q] = g[m + 1] BY <2>2
  <2>12. q \in 1 .. m => front[q] = a[q] OBVIOUS
  <2>13. a[m + 1] \in Int /\ g[m + 1] \in Int BY <2>5
  <2>14. front \in Seq(Int) /\ rest \in Seq(Int) BY <2>5
  <2> HIDE DEF a, front, rest, s, b
  <2>15. Total(front) \in Int /\ Total(rest) \in Int
    BY <2>14, RunningTotals, TotalIs
  <2>16. CASE q = m + 1
    <3>1. b = front
      <4>1. ASSUME NEW k \in 1 .. m PROVE b[k] = front[k] BY <2>9, <2>16
      <4>2. QED BY <2>5, <2>10, <4>1
    <3>2. QED BY <2>6, <2>7, <2>8, <2>11, <2>16, <3>1 DEF a
  <2>17. CASE q # m + 1
    <3>1. q \in 1 .. m BY <2>17
    <3>2. \A k \in 1 .. m : k # q => front[k] = b[k] BY <2>9
    <3>3. Total(b) = Total(front) - front[q] + b[q] BY <2>5, <2>10, <3>1, <3>2, TotalChanged
    <3>4. b[q] = a[m + 1] /\ front[q] = g[m + 1] BY <2>9, <2>11, <2>12, <3>1
    <3>5. Total(a) = Total(g) BY <2>6, <2>7, <2>8, <2>13, <2>15, <3>3, <3>4
    <3>6. QED BY <3>5 DEF a
  <2>18. QED BY <2>16, <2>17
<1> HIDE DEF S
<1>3. n \in S BY <1>1, <1>2, InductionOnSet
<1>4. QED BY <1>3 DEF S
-----------------------------------------------------------------------------
(* What a template says of the rows. *)

Pair == [label : Cell, value : Int]

LEMMA FirstOf ==
  ASSUME NEW I, I \subseteq Nat, I # {}
  PROVE  First(I) \in I /\ \A i \in I : First(I) <= i
BY LeastNumber DEF First

LEMMA ColumnsThere ==
  ASSUME NEW c \in Results, NumericColumns(c.result) # {}
  PROVE  /\ ValueColumn(c.result) \in 1 .. c.result.columns
         /\ c.result.rows[1][ValueColumn(c.result)] \in Number
         /\ LabelColumn(c.result) \in 1 .. c.result.columns
<1> DEFINE r == c.result
<1>1. r.columns \in Nat \ {0} BY ResultsAssumption
<1>2. NumericColumns(r) \subseteq 1 .. r.columns BY DEF NumericColumns
<1>3. ValueColumn(r) \in NumericColumns(r)
  <2>1. NumericColumns(r) \subseteq Nat BY <1>1, <1>2
  <2>2. QED BY <2>1, FirstOf DEF ValueColumn
<1>4. LabelColumn(r) \in 1 .. r.columns
  <2> DEFINE others == 1 .. r.columns \ NumericColumns(r)
  <2>1. LabelColumn(r) = IF others = {} THEN 1 ELSE First(others) BY DEF LabelColumn
  <2>2. others \subseteq Nat /\ others \subseteq 1 .. r.columns BY <1>1
  <2> HIDE DEF others
  <2>3. CASE others = {} BY <1>1, <2>1, <2>3
  <2>4. CASE others # {}
    <3>1. First(others) \in others BY <2>2, <2>4, FirstOf
    <3>2. QED BY <2>1, <2>2, <2>4, <3>1
  <2>5. QED BY <2>3, <2>4
<1>5. QED BY <1>2, <1>3, <1>4 DEF NumericColumns

\* The groups of a result; the first row is one of them.
LEMMA PairsAre ==
  ASSUME NEW c \in Results, c.result.rows # <<>>, NumericColumns(c.result) # {}
  PROVE  Pairs(c.result) \in Seq(Pair) /\ Len(Pairs(c.result)) \in Nat \ {0}
<1> DEFINE r == c.result
<1> DEFINE all == [i \in DOMAIN r.rows |->
                     [label |-> r.rows[i][LabelColumn(r)], value |-> r.rows[i][ValueColumn(r)]]]
<1> DEFINE valued == {i \in DOMAIN all : all[i].value \in Number}
<1>1. r.rows \in Seq([1 .. r.columns -> Cell]) BY ResultsAssumption
<1>2. Pairs(r) = Chosen(all, valued) BY DEF Pairs
<1>3. Len(r.rows) \in Nat \ {0} /\ DOMAIN r.rows = 1 .. Len(r.rows) BY <1>1
<1>4. valued \in SUBSET (1 .. Len(r.rows)) BY <1>3
<1>5. \A i \in valued : all[i] \in Pair
  <2>1. ASSUME NEW i \in valued PROVE all[i] \in Pair
    <3>1. i \in 1 .. Len(r.rows) /\ all[i].value \in Number BY <1>4
    <3>2. r.rows[i] \in [1 .. r.columns -> Cell] BY <1>1, <3>1
    <3>3. r.rows[i][LabelColumn(r)] \in Cell BY <3>2, ColumnsThere
    <3>4. all[i] = [label |-> r.rows[i][LabelColumn(r)], value |-> r.rows[i][ValueColumn(r)]]
      BY <1>3, <3>1
    <3>5. r.rows[i][ValueColumn(r)] \in Int BY <3>1, <3>4, TemplateAssumption
    <3> HIDE DEF all
    <3>6. QED BY <3>3, <3>4, <3>5 DEF Pair
  <2>2. QED BY <2>1
<1>6. 1 \in valued
  <2>1. 1 \in DOMAIN all BY <1>3
  <2>2. all[1].value = r.rows[1][ValueColumn(r)] BY <2>1
  <2>3. QED BY <2>1, <2>2, ColumnsThere
<1> DEFINE n == Len(r.rows)
<1>7. n \in Nat /\ valued \in SUBSET (1 .. n) BY <1>3, <1>4
<1> DEFINE a == Chosen(all, valued)
<1> HIDE DEF all, valued, n
<1>8. Cardinality(valued) \in Nat /\ a \in Seq(Pair) /\ Len(a) = Cardinality(valued)
  <2>1. n \in Nat /\ valued \in SUBSET (1 .. n) /\ \A i \in valued : all[i] \in Pair
    BY <1>5, <1>7
  <2>2. Chosen(all, valued) \in Seq(Pair) BY <2>1, ChosenInOrder
  <2>3. Cardinality(valued) \in Nat /\ Len(Chosen(all, valued)) = Cardinality(valued)
    BY <2>1, ChosenLength
  <2>4. QED BY <2>2, <2>3
<1>9. Cardinality(valued) # 0
  <2>1. 1 \in Int /\ n \in Int BY <1>7
  <2>2. IsFiniteSet(1 .. n) BY ONLY <2>1, FS_Interval
  <2>3. IsFiniteSet(valued) BY <1>7, <2>2, FS_Subset
  <2>4. QED BY <1>6, <2>3, FS_EmptySet
<1> HIDE DEF a
<1>10. Pairs(c.result) = a BY <1>2 DEF a
<1>11. QED BY <1>8, <1>9, <1>10

\* What sorting makes of a list: all of it, in order.
Sorted(a, s, before, p) ==
  /\ p \in Bijection(1 .. Len(s), 1 .. Len(s))
  /\ a = [k \in 1 .. Len(s) |-> s[p[k]]]
  /\ \A k, l \in 1 .. Len(s) : k < l => <<p[k], p[l]>> \in before

LEMMA SortedBy ==
  ASSUME NEW s \in Seq(Pair), NEW before, Orders(before, 1 .. Len(s))
  PROVE  \E p : Sorted(Arranged(s, DOMAIN s, before), s, before, p)
<1> DEFINE a == Arranged(s, DOMAIN s, before)
<1> DEFINE n == Len(s)
<1>1. n \in Nat /\ DOMAIN s = 1 .. n OBVIOUS
<1>2. IsFiniteSet(1 .. n) /\ Cardinality(1 .. n) = n BY <1>1, FS_Interval
<1>3. \E p : Arranges(Arranged(s, 1 .. n, before), s, 1 .. n, before, p) BY <1>2, Arrangement
<1>4. PICK p : Arranges(a, s, 1 .. n, before, p) BY <1>1, <1>3
<1> HIDE DEF a
<1>5. Sorted(a, s, before, p) BY <1>2, <1>4 DEF Arranges, Sorted
<1>6. QED BY <1>5 DEF a

LEMMA RankedIs ==
  ASSUME NEW pairs \in Seq(Pair)
  PROVE  \E p : Sorted(Ranked(pairs), pairs, Outranks(pairs), p)
<1> DEFINE n == Len(pairs)
<1> DEFINE before == Outranks(pairs)
<1>1. n \in Nat /\ DOMAIN pairs = 1 .. n OBVIOUS
<1>2. \A i \in 1 .. n : pairs[i].value \in Int
  <2>1. \A i \in 1 .. n : pairs[i] \in Pair BY <1>1
  <2>2. QED BY <2>1 DEF Pair
<1>3. \A i, j \in 1 .. n :
        <<i, j>> \in before <=> \/ pairs[i].value > pairs[j].value
                                \/ pairs[i].value = pairs[j].value /\ i < j
  BY <1>1 DEF Outranks
<1> HIDE DEF before, n
<1>4. Orders(before, 1 .. n)
  <2>1. \A i \in 1 .. n : <<i, i>> \notin before BY <1>1, <1>2, <1>3
  <2>2. ASSUME NEW i \in 1 .. n, NEW j \in 1 .. n, NEW k \in 1 .. n,
               <<i, j>> \in before, <<j, k>> \in before
        PROVE  <<i, k>> \in before
    <3>1. /\ pairs[i].value > pairs[j].value \/ (pairs[i].value = pairs[j].value /\ i < j)
          /\ pairs[j].value > pairs[k].value \/ (pairs[j].value = pairs[k].value /\ j < k)
      BY <1>3, <2>2
    <3>2. pairs[i].value \in Int /\ pairs[j].value \in Int /\ pairs[k].value \in Int BY <1>2
    <3>3. pairs[i].value > pairs[k].value \/ (pairs[i].value = pairs[k].value /\ i < k)
      BY <1>1, <3>1, <3>2
    <3>4. QED BY <1>3, <3>3
  <2>3. ASSUME NEW i \in 1 .. n, NEW j \in 1 .. n
        PROVE  i = j \/ <<i, j>> \in before \/ <<j, i>> \in before
    <3>1. pairs[i].value \in Int /\ pairs[j].value \in Int BY <1>2
    <3>2. \/ pairs[i].value > pairs[j].value \/ pairs[j].value > pairs[i].value
          \/ pairs[i].value = pairs[j].value
      BY <3>1
    <3>3. i = j \/ i < j \/ j < i BY <1>1
    <3>4. QED BY <1>3, <3>2, <3>3
  <2>4. QED BY <2>1, <2>2, <2>3 DEF Orders
<1>5. QED BY <1>4, SortedBy DEF Ranked, before, n

LEMMA ByLabelIs ==
  ASSUME NEW pairs \in Seq(Pair)
  PROVE  \E p : Sorted(ByLabel(pairs), pairs, Precedes(pairs), p)
<1> DEFINE n == Len(pairs)
<1> DEFINE before == Precedes(pairs)
<1> DEFINE rank == [i \in 1 .. n |-> TextRank[pairs[i].label]]
<1>1. n \in Nat /\ DOMAIN pairs = 1 .. n OBVIOUS
<1>2. \A i \in 1 .. n : rank[i] \in Nat
  <2>1. \A i \in 1 .. n : pairs[i] \in Pair BY <1>1
  <2>2. \A i \in 1 .. n : pairs[i].label \in Cell BY <2>1 DEF Pair
  <2>3. QED BY <2>2, TemplateAssumption
<1>3. \A i, j \in 1 .. n :
        <<i, j>> \in before <=> rank[i] < rank[j] \/ (rank[i] = rank[j] /\ i < j)
  BY <1>1 DEF Precedes
<1> HIDE DEF before, n, rank
<1>4. Orders(before, 1 .. n)
  <2>1. \A i \in 1 .. n : <<i, i>> \notin before BY <1>1, <1>2, <1>3
  <2>2. ASSUME NEW i \in 1 .. n, NEW j \in 1 .. n, NEW k \in 1 .. n,
               <<i, j>> \in before, <<j, k>> \in before
        PROVE  <<i, k>> \in before
    <3>1. /\ rank[i] < rank[j] \/ (rank[i] = rank[j] /\ i < j)
          /\ rank[j] < rank[k] \/ (rank[j] = rank[k] /\ j < k)
      BY <1>3, <2>2
    <3>2. rank[i] \in Nat /\ rank[j] \in Nat /\ rank[k] \in Nat BY <1>2
    <3>3. rank[i] < rank[k] \/ (rank[i] = rank[k] /\ i < k) BY <1>1, <3>1, <3>2
    <3>4. QED BY <1>3, <3>3
  <2>3. ASSUME NEW i \in 1 .. n, NEW j \in 1 .. n
        PROVE  i = j \/ <<i, j>> \in before \/ <<j, i>> \in before
    <3>1. rank[i] \in Nat /\ rank[j] \in Nat BY <1>2
    <3>2. rank[i] < rank[j] \/ rank[j] < rank[i] \/ rank[i] = rank[j] BY <3>1
    <3>3. i = j \/ i < j \/ j < i BY <1>1
    <3>4. QED BY <1>3, <3>2, <3>3
  <2>4. QED BY <2>1, <2>2, <2>3 DEF Orders
<1>5. QED BY <1>4, SortedBy DEF ByLabel, before, n

PlacesOf(x, s) == {i \in DOMAIN s : s[i] = x}

LEMMA SameElements ==
  ASSUME NEW s \in Seq(Pair), NEW a, NEW before, NEW p, Sorted(a, s, before, p), NEW x
  PROVE  Cardinality(PlacesOf(x, s)) = Cardinality(PlacesOf(x, a))
<1> DEFINE n == Len(s)
<1> DEFINE A == {k \in 1 .. n : a[k] = x}
<1> DEFINE B == {i \in 1 .. n : s[i] = x}
<1> DEFINE f == [k \in A |-> p[k]]
<1>1. n \in Nat /\ DOMAIN s = 1 .. n /\ DOMAIN a = 1 .. n BY DEF Sorted
<1>2. /\ p \in [1 .. n -> 1 .. n]
      /\ \A k, l \in 1 .. n : p[k] = p[l] => k = l
      /\ \A t \in 1 .. n : \E k \in 1 .. n : p[k] = t
  BY DEF Sorted, Bijection, Injection, Surjection, IsInjective
<1>3. \A k \in 1 .. n : a[k] = s[p[k]] BY DEF Sorted
<1>4. f \in [A -> B] BY <1>2, <1>3
<1>5. \A k, l \in A : f[k] = f[l] => k = l BY <1>2
<1>6. ASSUME NEW t \in B PROVE \E k \in A : f[k] = t
  <2>1. PICK k \in 1 .. n : p[k] = t BY <1>2
  <2>2. k \in A BY <1>3, <2>1
  <2>3. QED BY <2>1, <2>2
<1>7. IsFiniteSet(A)
  <2>1. IsFiniteSet(1 .. n) BY <1>1, FS_Interval
  <2>2. A \subseteq 1 .. n OBVIOUS
  <2>3. QED BY <2>1, <2>2, FS_Subset
<1> HIDE DEF f, A, B, n
<1>8. f \in Bijection(A, B)
  BY <1>4, <1>5, <1>6 DEF Bijection, Injection, Surjection, IsInjective
<1>9. Cardinality(B) = Cardinality(A)
  <2>1. ExistsBijection(A, B) BY <1>8 DEF ExistsBijection
  <2>2. QED BY <1>7, <2>1, FS_Bijection
<1>10. A = PlacesOf(x, a) /\ B = PlacesOf(x, s) BY <1>1 DEF A, B, PlacesOf
<1>11. QED BY <1>9, <1>10

\* Of groups in falling order the first and the last bound all others.
LEMMA RankedBounds ==
  ASSUME NEW pairs \in Seq(Pair), Len(pairs) # 0
  PROVE  LET n == Len(pairs)
             ranked == Ranked(pairs)
         IN /\ DOMAIN ranked = 1 .. n /\ \A k \in 1 .. n : ranked[k] \in Pair
            /\ \A k, l \in 1 .. n : k < l => ranked[l].value <= ranked[k].value
            /\ \A i \in 1 .. n : /\ ranked[n].value <= pairs[i].value
                                 /\ pairs[i].value <= ranked[1].value
            /\ \A k \in 1 .. n : \E i \in 1 .. n : ranked[k] = pairs[i]
            /\ \A i \in 1 .. n : \E k \in 1 .. n : ranked[k] = pairs[i]
<1> DEFINE n == Len(pairs)
<1> DEFINE ranked == Ranked(pairs)
<1>1. n \in Nat \ {0} /\ DOMAIN pairs = 1 .. n /\ \A i \in 1 .. n : pairs[i] \in Pair OBVIOUS
<1>2. PICK p : Sorted(ranked, pairs, Outranks(pairs), p) BY RankedIs
<1> HIDE DEF n, ranked
<1>3. /\ p \in [1 .. n -> 1 .. n]
      /\ \A t \in 1 .. n : \E k \in 1 .. n : p[k] = t
      /\ ranked = [k \in 1 .. n |-> pairs[p[k]]]
      /\ \A k, l \in 1 .. n : k < l => <<p[k], p[l]>> \in Outranks(pairs)
  BY <1>2 DEF Sorted, Bijection, Injection, Surjection, n
<1>4. \A k \in 1 .. n : ranked[k] = pairs[p[k]] /\ ranked[k] \in Pair BY <1>1, <1>3
<1>5. \A k \in 1 .. n : ranked[k].value \in Int BY <1>4 DEF Pair
<1>6. ASSUME NEW k \in 1 .. n, NEW l \in 1 .. n, k < l PROVE ranked[l].value <= ranked[k].value
  <2>1. <<p[k], p[l]>> \in Outranks(pairs) BY <1>3, <1>6
  <2>2. pairs[p[k]].value > pairs[p[l]].value \/ pairs[p[k]].value = pairs[p[l]].value
    BY <2>1 DEF Outranks
  <2>3. ranked[k].value > ranked[l].value \/ ranked[k].value = ranked[l].value
    BY <1>4, <2>2
  <2>4. QED BY <1>5, <2>3
<1>7. ASSUME NEW i \in 1 .. n
      PROVE  ranked[n].value <= pairs[i].value /\ pairs[i].value <= ranked[1].value
  <2>1. PICK k \in 1 .. n : p[k] = i BY <1>3
  <2>2. pairs[i] = ranked[k] BY <1>4, <2>1
  <2>3. 1 \in 1 .. n /\ n \in 1 .. n /\ (k = 1 \/ 1 < k) /\ (k = n \/ k < n) BY <1>1
  <2>4. k = 1 \/ ranked[k].value <= ranked[1].value BY <1>6, <2>3
  <2>5. k = n \/ ranked[n].value <= ranked[k].value BY <1>6, <2>3
  <2>6. QED BY <1>5, <2>2, <2>3, <2>4, <2>5
<1>8. /\ \A k \in 1 .. n : \E i \in 1 .. n : ranked[k] = pairs[i]
      /\ \A i \in 1 .. n : \E k \in 1 .. n : ranked[k] = pairs[i]
  BY <1>3, <1>4
<1>9. DOMAIN ranked = 1 .. n BY <1>3
<1>10. QED BY <1>4, <1>6, <1>7, <1>8, <1>9 DEF n, ranked

\* The distance of the two that are contrasted, also where all values are negative and
\* the nearest to zero is ahead.
LEMMA ContrastIs ==
  ASSUME NEW pairs \in Seq(Pair), Len(pairs) # 0
  PROVE  LET c == Contrast(pairs)
         IN /\ \A i \in DOMAIN pairs : /\ c.behind.value <= pairs[i].value
                                       /\ pairs[i].value <= c.ahead.value
            /\ c.gap = c.ahead.value - c.behind.value /\ c.gap >= 0
<1> DEFINE n == Len(pairs)
<1> DEFINE ranked == Ranked(pairs)
<1> DEFINE c == Contrast(pairs)
<1> DEFINE v == [i \in 1 .. n |-> pairs[i].value]
<1>1. n \in Nat \ {0} /\ DOMAIN pairs = 1 .. n /\ 1 \in 1 .. n /\ n \in 1 .. n OBVIOUS
<1>2. \A i \in 1 .. n : v[i] = pairs[i].value /\ v[i] \in Int
  <2>1. \A i \in 1 .. n : pairs[i] \in Pair OBVIOUS
  <2>2. QED BY <2>1 DEF Pair
<1>3. /\ \A i \in 1 .. n : ranked[n].value <= pairs[i].value /\ pairs[i].value <= ranked[1].value
      /\ \A k \in 1 .. n : \E i \in 1 .. n : ranked[k] = pairs[i]
  BY RankedBounds
<1> HIDE DEF n, ranked, v
<1>4. PICK top \in 1 .. n : ranked[1] = pairs[top] BY <1>1, <1>3
<1>5. PICK bottom \in 1 .. n : ranked[n] = pairs[bottom] BY <1>1, <1>3
<1>6. \A i \in 1 .. n : v[bottom] <= v[i] /\ v[i] <= v[top] BY <1>2, <1>3, <1>4, <1>5
<1>7. ASSUME NEW a \in 1 .. n, NEW b \in 1 .. n, c.ahead = pairs[a], c.behind = pairs[b],
             c.gap = v[a] - v[b], \A i \in 1 .. n : v[b] <= v[i] /\ v[i] <= v[a]
      PROVE  /\ \A i \in DOMAIN pairs : /\ c.behind.value <= pairs[i].value
                                        /\ pairs[i].value <= c.ahead.value
             /\ c.gap = c.ahead.value - c.behind.value /\ c.gap >= 0
  <2> HIDE DEF c
  <2>1. c.ahead.value = v[a] /\ c.behind.value = v[b] BY <1>2, <1>7
  <2>2. v[a] \in Int /\ v[b] \in Int /\ v[b] <= v[a] BY <1>2, <1>7
  <2>3. QED BY <1>1, <1>2, <1>7, <2>1, <2>2
<1>8. CASE ~AllNegative(pairs)
  <2>1. /\ c.ahead = ranked[1] /\ c.behind = ranked[n]
        /\ c.gap = ranked[1].value - ranked[n].value
    BY <1>8 DEF Contrast, ranked, n
  <2> HIDE DEF c
  <2>2. c.ahead = pairs[top] /\ c.behind = pairs[bottom] /\ c.gap = v[top] - v[bottom]
    BY <1>2, <1>4, <1>5, <2>1
  <2>3. QED BY <1>6, <1>7, <2>2 DEF c
<1>9. CASE AllNegative(pairs)
  <2>1. \A i \in 1 .. n : v[i] < 0 BY <1>1, <1>2, <1>9 DEF AllNegative
  <2>2. \A i \in 1 .. n : Absolute(v[i]) = -v[i] BY <2>1 DEF Absolute
  <2>3. \A i, j \in 1 .. n : /\ Absolute(v[i]) <= Absolute(v[j]) <=> v[j] <= v[i]
                             /\ Absolute(v[i]) >= Absolute(v[j]) <=> v[i] <= v[j]
    <3>1. ASSUME NEW i \in 1 .. n, NEW j \in 1 .. n
          PROVE  /\ -v[i] <= -v[j] <=> v[j] <= v[i]
                 /\ -v[i] >= -v[j] <=> v[i] <= v[j]
      <4>1. v[i] \in Int /\ v[j] \in Int BY <1>2
      <4>2. QED BY <4>1
    <3>2. QED BY <2>2, <3>1
  <2> DEFINE near == {i \in 1 .. n : \A j \in 1 .. n : v[j] <= v[i]}
  <2> DEFINE far == {i \in 1 .. n : \A j \in 1 .. n : v[i] <= v[j]}
  <2>4. Nearest(pairs) = pairs[First(near)]
    <3>1. near = {i \in DOMAIN pairs : \A j \in DOMAIN pairs :
                    Absolute(pairs[i].value) <= Absolute(pairs[j].value)}
      BY <1>1, <1>2, <2>3
    <3> HIDE DEF near
    <3>2. QED BY <3>1 DEF Nearest
  <2>5. Farthest(pairs) = pairs[First(far)]
    <3>1. far = {i \in DOMAIN pairs : \A j \in DOMAIN pairs :
                   Absolute(pairs[i].value) >= Absolute(pairs[j].value)}
      BY <1>1, <1>2, <2>3
    <3> HIDE DEF far
    <3>2. QED BY <3>1 DEF Farthest
  <2> DEFINE a == First(near)
  <2> DEFINE b == First(far)
  <2>6. a \in near /\ b \in far
    <3>1. top \in near /\ bottom \in far BY <1>6
    <3>2. near \subseteq Nat /\ far \subseteq Nat BY <1>1
    <3> HIDE DEF near, far
    <3>3. QED BY <3>1, <3>2, FirstOf
  <2>7. /\ c.ahead = pairs[a] /\ c.behind = pairs[b]
        /\ c.gap = Absolute(pairs[b].value) - Absolute(pairs[a].value)
    <3> HIDE DEF near, far
    <3>1. QED BY <1>9, <2>4, <2>5 DEF Contrast
  <2> HIDE DEF c, a, b
  <2>8. a \in 1 .. n /\ b \in 1 .. n /\ \A i \in 1 .. n : v[b] <= v[i] /\ v[i] <= v[a]
    BY <2>6
  <2>9. c.gap = v[a] - v[b]
    <3>1. c.gap = Absolute(v[b]) - Absolute(v[a]) BY <1>2, <2>7, <2>8
    <3>2. Absolute(v[b]) = -v[b] /\ Absolute(v[a]) = -v[a] BY <2>2, <2>8
    <3>3. v[a] \in Int /\ v[b] \in Int BY <1>2, <2>8
    <3> HIDE DEF near, far
    <3>4. QED BY <3>1, <3>2, <3>3
  <2>10. QED BY <1>7, <2>7, <2>8, <2>9 DEF c
<1>10. QED BY <1>8, <1>9

LEMMA SameTotal ==
  ASSUME NEW pairs \in Seq(Pair)
  PROVE  LET ranked == Ranked(pairs)
         IN Total([i \in DOMAIN ranked |-> ranked[i].value])
              = Total([i \in DOMAIN pairs |-> pairs[i].value])
<1> DEFINE n == Len(pairs)
<1> DEFINE ranked == Ranked(pairs)
<1> DEFINE f == [i \in 1 .. n |-> pairs[i].value]
<1>1. n \in Nat /\ DOMAIN pairs = 1 .. n /\ \A i \in 1 .. n : pairs[i] \in Pair OBVIOUS
<1>2. f \in [1 .. n -> Int] BY <1>1 DEF Pair
<1>3. PICK p : Sorted(ranked, pairs, Outranks(pairs), p) BY RankedIs
<1> HIDE DEF ranked
<1>4. /\ p \in Bijection(1 .. n, 1 .. n)
      /\ ranked = [k \in 1 .. n |-> pairs[p[k]]]
  BY <1>3 DEF Sorted
<1>5. p \in [1 .. n -> 1 .. n] BY <1>4 DEF Bijection, Injection
<1>6. [i \in DOMAIN ranked |-> ranked[i].value] = [k \in 1 .. n |-> f[p[k]]]
  <2>1. DOMAIN ranked = 1 .. n BY <1>4
  <2>2. ASSUME NEW k \in 1 .. n PROVE ranked[k].value = f[p[k]] BY <1>4, <1>5
  <2> HIDE DEF f
  <2>3. QED BY <2>1, <2>2
<1>7. [i \in DOMAIN pairs |-> pairs[i].value] = f BY <1>1
<1> HIDE DEF f, n
<1>8. Total([k \in 1 .. n |-> f[p[k]]]) = Total(f) BY <1>1, <1>2, <1>4, TotalRearranged
<1>9. QED BY <1>6, <1>7, <1>8 DEF ranked

\* Direction and amount are the difference with its sign.
LEMMA MoveIs ==
  ASSUME NEW before \in Pair, NEW after \in Pair
  PROVE  /\ Move(before, after).from = before.label /\ Move(before, after).to = after.label
         /\ Change(Move(before, after)) = after.value - before.value
<1>1. before.value \in Int /\ after.value \in Int BY DEF Pair
<1>2. CASE after.value > before.value
  <2>1. Move(before, after).direction = "increased" BY <1>2 DEF Move
  <2>2. Move(before, after).by = after.value - before.value BY <1>1, <1>2 DEF Move, Absolute
  <2>3. QED BY <2>1, <2>2 DEF Change, Move
<1>3. CASE ~(after.value > before.value)
  <2>1. Move(before, after).direction # "increased" BY <1>3 DEF Move
  <2>2. Move(before, after).by = before.value - after.value BY <1>1, <1>3 DEF Move, Absolute
  <2>3. -(before.value - after.value) = after.value - before.value BY <1>1
  <2>4. Change(Move(before, after)) = -(before.value - after.value) BY <2>1, <2>2 DEF Change
  <2>5. QED BY <2>3, <2>4 DEF Move
<1>4. QED BY <1>2, <1>3

\* From each label to the next in alphabetical order, each change being one of values that
\* have these labels; the changes add up to the change from the first to the last.
LEMMA TrendIs ==
  ASSUME NEW pairs \in Seq(Pair), Len(pairs) # 0
  PROVE  LET n == Len(pairs)
             trend == Trend(pairs)
         IN /\ Len(trend) = n - 1 /\ DOMAIN trend = 1 .. n - 1
            /\ \A i \in 2 .. n - 1 : trend[i].from = trend[i - 1].to
            /\ \A i \in 1 .. n - 1 : TextRank[trend[i].from] <= TextRank[trend[i].to]
            /\ \A i \in 1 .. n - 1 : \E k, l \in 1 .. n :
                 /\ pairs[k].label = trend[i].to /\ pairs[l].label = trend[i].from
                 /\ Change(trend[i]) = pairs[k].value - pairs[l].value
            /\ n > 1 => \E i, j \in 1 .. n :
                 /\ pairs[i].label = trend[n - 1].to /\ pairs[j].label = trend[1].from
                 /\ Total([k \in DOMAIN trend |-> Change(trend[k])])
                      = pairs[i].value - pairs[j].value
<1> DEFINE n == Len(pairs)
<1> DEFINE years == ByLabel(pairs)
<1> DEFINE trend == Trend(pairs)
<1>1. n \in Nat \ {0} /\ DOMAIN pairs = 1 .. n /\ \A i \in 1 .. n : pairs[i] \in Pair OBVIOUS
<1>2. PICK p : Sorted(years, pairs, Precedes(pairs), p) BY ByLabelIs
<1> HIDE DEF years, n
<1>3. /\ p \in [1 .. n -> 1 .. n]
      /\ years = [k \in 1 .. n |-> pairs[p[k]]]
      /\ \A k, l \in 1 .. n : k < l => <<p[k], p[l]>> \in Precedes(pairs)
  BY <1>2 DEF Sorted, Bijection, Injection, n
<1>4. \A k \in 1 .. n : p[k] \in 1 .. n /\ years[k] = pairs[p[k]] /\ years[k] \in Pair
  BY <1>1, <1>3
<1>5. \A k \in 1 .. n : years[k].value \in Int /\ TextRank[years[k].label] \in Nat
  <2>1. \A k \in 1 .. n : years[k].value \in Int /\ years[k].label \in Cell BY <1>4 DEF Pair
  <2>2. QED BY <2>1, TemplateAssumption
<1>6. Len(years) = n
  <2>1. years \in [1 .. n -> Pair]
    <3>1. years = [k \in 1 .. n |-> years[k]] BY <1>3
    <3>2. QED BY <1>4, <3>1
  <2>2. QED BY <1>1, <2>1
<1>7. trend = [i \in 1 .. n - 1 |-> Move(years[i], years[i + 1])] BY <1>6 DEF Trend, years
<1> HIDE DEF trend
<1>8. \A i \in 1 .. n - 1 : /\ trend[i].from = years[i].label
                            /\ trend[i].to = years[i + 1].label
                            /\ Change(trend[i]) = years[i + 1].value - years[i].value
  <2>1. ASSUME NEW i \in 1 .. n - 1
        PROVE  /\ trend[i].from = years[i].label
               /\ trend[i].to = years[i + 1].label
               /\ Change(trend[i]) = years[i + 1].value - years[i].value
    <3>1. i \in 1 .. n /\ i + 1 \in 1 .. n BY <1>1
    <3>2. years[i] \in Pair /\ years[i + 1] \in Pair BY <1>4, <3>1
    <3>3. trend[i] = Move(years[i], years[i + 1]) BY <1>7
    <3>4. QED BY <3>2, <3>3, MoveIs
  <2>2. QED BY <2>1
<1>9. DOMAIN trend = 1 .. n - 1 /\ Len(trend) = n - 1
  <2>1. DOMAIN trend = 1 .. n - 1 BY <1>7
  <2>2. trend = [i \in 1 .. n - 1 |-> trend[i]] BY <1>7
  <2>3. n - 1 \in Nat BY <1>1
  <2>4. QED BY <2>1, <2>2, <2>3
<1>10. ASSUME NEW i \in 2 .. n - 1 PROVE trend[i].from = trend[i - 1].to
  <2>1. i \in 1 .. n - 1 /\ i - 1 \in 1 .. n - 1 /\ (i - 1) + 1 = i BY <1>1
  <2>2. trend[i].from = years[i].label /\ trend[i - 1].to = years[(i - 1) + 1].label
    BY <1>8, <2>1
  <2>3. QED BY <2>1, <2>2
<1>11. ASSUME NEW i \in 1 .. n - 1 PROVE TextRank[trend[i].from] <= TextRank[trend[i].to]
  <2>1. i \in 1 .. n /\ i + 1 \in 1 .. n /\ i < i + 1 BY <1>1
  <2>2. <<p[i], p[i + 1]>> \in Precedes(pairs) BY <1>3, <2>1
  <2>3. \/ TextRank[pairs[p[i]].label] < TextRank[pairs[p[i + 1]].label]
        \/ TextRank[pairs[p[i]].label] = TextRank[pairs[p[i + 1]].label]
    BY <2>2 DEF Precedes
  <2>4. \/ TextRank[years[i].label] < TextRank[years[i + 1].label]
        \/ TextRank[years[i].label] = TextRank[years[i + 1].label]
    BY <1>4, <2>1, <2>3
  <2>5. TextRank[years[i].label] <= TextRank[years[i + 1].label] BY <1>5, <2>1, <2>4
  <2>6. QED BY <1>8, <2>5
<1>12. ASSUME NEW i \in 1 .. n - 1
       PROVE  \E k, l \in 1 .. n :
                /\ pairs[k].label = trend[i].to /\ pairs[l].label = trend[i].from
                /\ Change(trend[i]) = pairs[k].value - pairs[l].value
  <2>1. i \in 1 .. n /\ i + 1 \in 1 .. n BY <1>1
  <2>2. /\ p[i] \in 1 .. n /\ p[i + 1] \in 1 .. n
        /\ years[i] = pairs[p[i]] /\ years[i + 1] = pairs[p[i + 1]]
    BY <1>4, <2>1
  <2>3. /\ pairs[p[i + 1]].label = trend[i].to /\ pairs[p[i]].label = trend[i].from
        /\ Change(trend[i]) = pairs[p[i + 1]].value - pairs[p[i]].value
    BY <1>8, <2>2
  <2>4. QED BY <2>2, <2>3
<1>13. n > 1 => \E i, j \in 1 .. n :
         /\ pairs[i].label = trend[n - 1].to /\ pairs[j].label = trend[1].from
         /\ Total([k \in DOMAIN trend |-> Change(trend[k])]) = pairs[i].value - pairs[j].value
  <2>1. SUFFICES ASSUME n > 1
                 PROVE  \E i, j \in 1 .. n :
                          /\ pairs[i].label = trend[n - 1].to
                          /\ pairs[j].label = trend[1].from
                          /\ Total([k \in DOMAIN trend |-> Change(trend[k])])
                               = pairs[i].value - pairs[j].value
    OBVIOUS
  <2> DEFINE changes == [k \in 1 .. n - 1 |-> Change(trend[k])]
  <2> DEFINE g == [m \in 0 .. n - 1 |-> years[m + 1].value - years[1].value]
  <2>2. 1 \in 1 .. n /\ n \in 1 .. n /\ n - 1 \in Nat /\ n - 1 \in 1 .. n - 1 /\ 1 \in 1 .. n - 1
    BY <1>1, <2>1
  <2>3. changes \in Seq(Int) /\ Len(changes) = n - 1
    <3>1. ASSUME NEW k \in 1 .. n - 1 PROVE Change(trend[k]) \in Int
      <4>1. k \in 1 .. n /\ k + 1 \in 1 .. n BY <1>1
      <4>2. QED BY <1>5, <1>8, <4>1
    <3>2. changes \in [1 .. n - 1 -> Int] BY <3>1
    <3> HIDE DEF changes
    <3>3. QED BY <2>2, <3>2
  <2>4. Running(g, changes)
    <3>1. g[0] = 0
      <4>1. 0 \in 0 .. n - 1 /\ 0 + 1 = 1 BY <1>1
      <4>2. g[0] = years[1].value - years[1].value BY <4>1
      <4>3. QED BY <1>5, <2>2, <4>2
    <3>2. ASSUME NEW m \in 0 .. n - 1 - 1 PROVE g[m + 1] = g[m] + changes[m + 1]
      <4>1. /\ m \in 0 .. n - 1 /\ m + 1 \in 0 .. n - 1 /\ m + 1 \in 1 .. n - 1
            /\ m + 1 \in 1 .. n /\ (m + 1) + 1 \in 1 .. n
        BY <1>1
      <4>2. g[m + 1] = years[(m + 1) + 1].value - years[1].value BY <4>1
      <4>3. g[m] = years[m + 1].value - years[1].value BY <4>1
      <4>4. changes[m + 1] = years[(m + 1) + 1].value - years[m + 1].value BY <1>8, <4>1
      <4>5. /\ years[(m + 1) + 1].value \in Int /\ years[m + 1].value \in Int
            /\ years[1].value \in Int
        BY <1>5, <2>2, <4>1
      <4> HIDE DEF g, changes
      <4>6. QED BY <4>2, <4>3, <4>4, <4>5
    <3> HIDE DEF g, changes
    <3>3. QED BY <2>3, <3>1, <3>2 DEF Running
  <2>5. g[n - 1] = years[n].value - years[1].value
    <3>1. n - 1 \in 0 .. n - 1 /\ (n - 1) + 1 = n BY <1>1
    <3>2. g[n - 1] = years[(n - 1) + 1].value - years[1].value BY <3>1
    <3>3. QED BY <3>1, <3>2
  <2>6. [k \in DOMAIN trend |-> Change(trend[k])] = changes BY <1>9
  <2> HIDE DEF changes, g
  <2>7. Total(changes) = years[n].value - years[1].value BY <2>3, <2>4, <2>5, TotalIs
  <2>8. trend[n - 1].to = years[n].label
    <3>1. (n - 1) + 1 = n BY <1>1
    <3>2. trend[n - 1].to = years[(n - 1) + 1].label BY <1>8, <2>2
    <3>3. QED BY <3>1, <3>2
  <2>9. trend[1].from = years[1].label BY <1>8, <2>2
  <2>10. p[n] \in 1 .. n /\ p[1] \in 1 .. n /\ years[n] = pairs[p[n]] /\ years[1] = pairs[p[1]]
    BY <1>4, <2>2
  <2>11. QED BY <2>6, <2>7, <2>8, <2>9, <2>10
<1>14. QED BY <1>9, <1>10, <1>11, <1>12, <1>13 DEF n, trend

\* Suggestions out of A, no two alike.
Suggests(s, A) ==
  /\ s \in Seq(A)
  /\ \A i, j \in 1 .. Len(s) : s[i] = s[j] => i = j

LEMMA BothLong ==
  ASSUME NEW A, NEW B, NEW s, Suggests(s, A), NEW t, Suggests(t, B)
  PROVE  Len(s \o t) = Len(s) + Len(t)
<1>1. s \in Seq(A) /\ t \in Seq(B) BY DEF Suggests
<1>2. QED BY <1>1

LEMMA SuggestsBoth ==
  ASSUME NEW A, NEW B, A \cap B = {}, NEW s, Suggests(s, A), NEW t, Suggests(t, B)
  PROVE  Suggests(s \o t, A \cup B)
<1>1. s \in Seq(A) /\ t \in Seq(B) BY DEF Suggests
<1>2. Len(s) \in Nat /\ Len(t) \in Nat BY <1>1
<1>3. s \in Seq(A \cup B) /\ t \in Seq(A \cup B)
  <2>1. \A i \in 1 .. Len(s) : s[i] \in A \cup B BY <1>1
  <2>2. \A i \in 1 .. Len(t) : t[i] \in A \cup B BY <1>1
  <2>3. s = [i \in 1 .. Len(s) |-> s[i]] /\ t = [i \in 1 .. Len(t) |-> t[i]] BY <1>1
  <2>4. s \in [1 .. Len(s) -> A \cup B] /\ t \in [1 .. Len(t) -> A \cup B]
    BY <2>1, <2>2, <2>3
  <2>5. QED BY <1>2, <2>4
<1>4. /\ s \o t \in Seq(A \cup B) /\ Len(s \o t) = Len(s) + Len(t)
      /\ \A i \in 1 .. Len(s) + Len(t) :
           (s \o t)[i] = IF i <= Len(s) THEN s[i] ELSE t[i - Len(s)]
  BY <1>3
<1> DEFINE u == s \o t
<1> HIDE DEF u
<1>5. ASSUME NEW i \in 1 .. Len(u), NEW j \in 1 .. Len(u), u[i] = u[j] PROVE i = j
  <2>1. i \in 1 .. Len(s) + Len(t) /\ j \in 1 .. Len(s) + Len(t) BY <1>4 DEF u
  <2>2. CASE i <= Len(s) /\ j <= Len(s)
    <3>1. i \in 1 .. Len(s) /\ j \in 1 .. Len(s) BY <1>2, <2>1, <2>2
    <3>2. s[i] = s[j] BY <1>4, <1>5, <2>1, <2>2 DEF u
    <3>3. QED BY <3>1, <3>2 DEF Suggests
  <2>3. CASE ~(i <= Len(s)) /\ ~(j <= Len(s))
    <3>1. i - Len(s) \in 1 .. Len(t) /\ j - Len(s) \in 1 .. Len(t) BY <1>2, <2>1, <2>3
    <3>2. t[i - Len(s)] = t[j - Len(s)] BY <1>4, <1>5, <2>1, <2>3 DEF u
    <3>3. i - Len(s) = j - Len(s) BY <3>1, <3>2 DEF Suggests
    <3>4. QED BY <1>2, <3>1, <3>3
  <2>4. CASE i <= Len(s) /\ ~(j <= Len(s))
    <3>1. i \in 1 .. Len(s) /\ j - Len(s) \in 1 .. Len(t) BY <1>2, <2>1, <2>4
    <3>2. u[i] = s[i] /\ u[j] = t[j - Len(s)] BY <1>4, <2>1, <2>4 DEF u
    <3>3. s[i] \in A /\ t[j - Len(s)] \in B BY <1>1, <3>1
    <3>4. QED BY <1>5, <3>2, <3>3
  <2>5. CASE ~(i <= Len(s)) /\ j <= Len(s)
    <3>1. j \in 1 .. Len(s) /\ i - Len(s) \in 1 .. Len(t) BY <1>2, <2>1, <2>5
    <3>2. u[j] = s[j] /\ u[i] = t[i - Len(s)] BY <1>4, <2>1, <2>5 DEF u
    <3>3. s[j] \in A /\ t[i - Len(s)] \in B BY <1>1, <3>1
    <3>4. QED BY <1>5, <3>2, <3>3
  <2>6. QED BY <2>2, <2>3, <2>4, <2>5
<1>6. QED BY <1>4, <1>5 DEF Suggests, u

\* What When can suggest.
Only(condition, suggestion) == {x \in {suggestion} : condition}

LEMMA SuggestsWhen ==
  ASSUME NEW condition, NEW suggestion
  PROVE  /\ Suggests(When(condition, suggestion), Only(condition, suggestion))
         /\ Len(When(condition, suggestion)) \in 0 .. 1
         /\ condition => Len(When(condition, suggestion)) = 1
<1>1. CASE condition
  <2>1. When(condition, suggestion) = <<suggestion>> BY <1>1 DEF When
  <2>2. suggestion \in Only(condition, suggestion) BY <1>1 DEF Only
  <2>3. QED BY <2>1, <2>2 DEF Suggests
<1>2. CASE ~condition
  <2>1. When(condition, suggestion) = <<>> BY <1>2 DEF When
  <2>2. QED BY <1>2, <2>1 DEF Suggests
<1>3. QED BY <1>1, <1>2

LEMMA SuggestsMore ==
  ASSUME NEW A, NEW s, Suggests(s, A), NEW condition, NEW suggestion, suggestion \notin A
  PROVE  /\ Suggests(s \o When(condition, suggestion), A \cup Only(condition, suggestion))
         /\ Len(s \o When(condition, suggestion)) \in Nat
         /\ Len(s \o When(condition, suggestion)) >= Len(s)
         /\ condition => Len(s \o When(condition, suggestion)) >= 1
<1> DEFINE w == When(condition, suggestion)
<1> DEFINE B == Only(condition, suggestion)
<1>1. Suggests(w, B) /\ Len(w) \in 0 .. 1 /\ (condition => Len(w) = 1) BY SuggestsWhen
<1>2. A \cap B = {} BY DEF Only
<1>3. Len(s) \in Nat BY DEF Suggests
<1> HIDE DEF w, B
<1>4. Suggests(s \o w, A \cup B) BY <1>1, <1>2, SuggestsBoth
<1>5. Len(s \o w) = Len(s) + Len(w) BY <1>1, BothLong
<1>6. QED BY <1>1, <1>3, <1>4, <1>5 DEF w, B

\* Suggestions that go with a query: none asks for what the query has, and where the
\* question names a topic there is one.
Suits(s, ask, query) ==
  \E A :
    /\ Suggests(s, A)
    /\ "total per entity" \notin A /\ "total liabilities" \notin A
    /\ query.entity => "split by entity" \notin A
    /\ query.year => "split by year" \notin A
    /\ query.month => "split by month" \notin A
    /\ Len(s) \in Nat /\ (ask.topic => Len(s) >= 1)

LEMMA SuggestsAlone ==
  ASSUME NEW A, NEW x \in A
  PROVE  Suggests(<<x>>, A) /\ Suggests(<<>>, A) /\ Len(<<x>>) = 1
<1>1. <<x>> \in Seq(A) /\ Len(<<x>>) = 1 OBVIOUS
<1>2. \A i, j \in 1 .. 1 : i = j OBVIOUS
<1>3. Suggests(<<x>>, A) BY <1>1, <1>2 DEF Suggests
<1>4. Suggests(<<>>, A) BY DEF Suggests
<1>5. QED BY <1>1, <1>3, <1>4

LEMMA ValueSuits == ASSUME NEW ask, NEW query PROVE Suits(ForValue(ask, query), ask, query)
<1> DEFINE years == IF ~query.year /\ ask.years = 0 THEN <<"compare years">>
                    ELSE When(ask.years = 1, "compare with other year")
<1> DEFINE Y == {"compare years", "compare with other year"}
<1> DEFINE A == Only(~query.entity, "split by entity")
<1> DEFINE B == (A \cup Y) \cup Only(~query.month, "split by month")
<1> DEFINE C == B \cup Only(ask.topic, "total of opposite")
<1> DEFINE s == When(~query.entity, "split by entity") \o years
<1> DEFINE u == s \o When(~query.month, "split by month")
<1> DEFINE v == u \o When(ask.topic, "total of opposite")
<1>1. Suggests(years, Y)
  <2>1. CASE ~query.year /\ ask.years = 0
    <3>1. years = <<"compare years">> BY <2>1
    <3>2. "compare years" \in Y OBVIOUS
    <3> HIDE DEF years, Y
    <3>3. QED BY <3>1, <3>2, SuggestsAlone
  <2>2. CASE ~(~query.year /\ ask.years = 0)
    <3>1. years = When(ask.years = 1, "compare with other year") BY <2>2
    <3>2. years = <<>> \/ years = <<"compare with other year">> BY <3>1 DEF When
    <3>3. "compare with other year" \in Y OBVIOUS
    <3> HIDE DEF years, Y
    <3>4. QED BY <3>2, <3>3, SuggestsAlone
  <2>3. QED BY <2>1, <2>2
<1>2. Suggests(When(~query.entity, "split by entity"), A) BY SuggestsWhen
<1>3. A \cap Y = {} BY DEF Only
<1> HIDE DEF years
<1>4. Suggests(s, A \cup Y) BY <1>1, <1>2, <1>3, SuggestsBoth
<1>5. "split by month" \notin A \cup Y BY DEF Only
<1> HIDE DEF s
<1>6. Suggests(u, B) BY <1>4, <1>5, SuggestsMore
<1>7. "total of opposite" \notin B BY DEF Only
<1> HIDE DEF u, B
<1>8. Suggests(v, C) /\ Len(v) \in Nat /\ (ask.topic => Len(v) >= 1) BY <1>6, <1>7, SuggestsMore
<1>9. /\ "total per entity" \notin C /\ "total liabilities" \notin C
      /\ query.entity => "split by entity" \notin C
      /\ query.year => "split by year" \notin C
      /\ query.month => "split by month" \notin C
  BY DEF Only, B
<1>10. ForValue(ask, query) = v BY DEF ForValue, v, u, s, years
<1> HIDE DEF v, C
<1>11. QED BY <1>8, <1>9, <1>10 DEF Suits

LEMMA RowSuits == ASSUME NEW ask, NEW query PROVE Suits(ForRow(ask, query), ask, query)
<1> DEFINE A == Only(~query.entity, "split by entity")
<1> DEFINE B == A \cup Only(~query.year, "split by year")
<1> DEFINE C == B \cup Only(ask.entity, "accounts of entity")
<1> DEFINE D == C \cup Only(ask.topic, "opposite in same period")
<1> DEFINE s == When(~query.entity, "split by entity")
<1> DEFINE u == s \o When(~query.year, "split by year")
<1> DEFINE v == u \o When(ask.entity, "accounts of entity")
<1> DEFINE w == v \o When(ask.topic, "opposite in same period")
<1>1. Suggests(s, A) BY SuggestsWhen
<1>2. "split by year" \notin A BY DEF Only
<1>3. "accounts of entity" \notin B BY DEF Only
<1>4. "opposite in same period" \notin C BY DEF Only
<1> HIDE DEF s
<1>5. Suggests(u, B) BY <1>1, <1>2, SuggestsMore
<1> HIDE DEF u, B
<1>6. Suggests(v, C) BY <1>3, <1>5, SuggestsMore
<1> HIDE DEF v, C
<1>7. Suggests(w, D) /\ Len(w) \in Nat /\ (ask.topic => Len(w) >= 1)
  BY <1>4, <1>6, SuggestsMore
<1>8. /\ "total per entity" \notin D /\ "total liabilities" \notin D
      /\ query.entity => "split by entity" \notin D
      /\ query.year => "split by year" \notin D
      /\ query.month => "split by month" \notin D
  BY DEF Only, B, C
<1>9. ForRow(ask, query) = w BY DEF ForRow, s, u, v
<1> HIDE DEF w, D
<1>10. QED BY <1>7, <1>8, <1>9 DEF Suits

LEMMA ComparisonSuits ==
  ASSUME NEW ask, NEW query, NEW result PROVE Suits(ForComparison(ask, query, result), ask, query)
<1> DEFINE named == Len(result.rows) >= 2 /\ result.rows[1][1] # Blank
<1> DEFINE entities == IF ask.entity THEN <<"compare all entities">>
                       ELSE When(~query.entity, "split by entity")
<1> DEFINE E == {"compare all entities"} \cup Only(~query.entity, "split by entity")
<1> DEFINE A == Only(named, "accounts of first row") \cup E
<1> DEFINE B == A \cup Only(query.year /\ ~query.month, "split by month")
<1> DEFINE C == B \cup Only(ask.topic, "opposite in same periods")
<1> DEFINE D == C \cup Only(~query.tag /\ ~ask.topic, "split by category")
<1> DEFINE s == When(named, "accounts of first row") \o entities
<1> DEFINE u == s \o When(query.year /\ ~query.month, "split by month")
<1> DEFINE v == u \o When(ask.topic, "opposite in same periods")
<1> DEFINE w == v \o When(~query.tag /\ ~ask.topic, "split by category")
<1>1. Suggests(entities, E)
  <2>1. entities = <<>> \/ entities = <<"compare all entities">>
        \/ (~query.entity /\ entities = <<"split by entity">>)
    BY DEF When
  <2>2. "compare all entities" \in E /\ (~query.entity => "split by entity" \in E) BY DEF Only
  <2> HIDE DEF entities, E
  <2>3. QED BY <2>1, <2>2, SuggestsAlone
<1>2. Suggests(When(named, "accounts of first row"), Only(named, "accounts of first row"))
  BY SuggestsWhen
<1>3. Only(named, "accounts of first row") \cap E = {} BY DEF Only
<1>4. "split by month" \notin A BY DEF Only
<1>5. "opposite in same periods" \notin B BY DEF Only
<1>6. "split by category" \notin C BY DEF Only
<1>7. /\ "total per entity" \notin D /\ "total liabilities" \notin D
      /\ query.entity => "split by entity" \notin D
      /\ query.year => "split by year" \notin D
      /\ query.month => "split by month" \notin D
  BY DEF Only
<1> HIDE DEF entities, E, named
<1>8. Suggests(s, A) BY <1>1, <1>2, <1>3, SuggestsBoth
<1> HIDE DEF s, A
<1>9. Suggests(u, B) BY <1>4, <1>8, SuggestsMore
<1> HIDE DEF u, B
<1>10. Suggests(v, C) /\ Len(v) \in Nat /\ (ask.topic => Len(v) >= 1)
  BY <1>5, <1>9, SuggestsMore
<1> HIDE DEF v, C
<1>11. Suggests(w, D) /\ Len(w) \in Nat /\ Len(w) >= Len(v) BY <1>6, <1>10, SuggestsMore
<1>12. ForComparison(ask, query, result) = w
  BY DEF ForComparison, named, entities, s, u, v
<1> HIDE DEF w, D
<1>13. ask.topic => Len(w) >= 1 BY <1>10, <1>11
<1>14. QED BY <1>7, <1>11, <1>12, <1>13 DEF Suits

LEMMA ListingSuits ==
  ASSUME NEW ask, NEW query, NEW result PROVE Suits(ForListing(ask, query, result), ask, query)
<1> DEFINE named == result.rows[1][1] # Blank
<1> DEFINE first == Only(named, "transactions of first row")
<1> DEFINE bottom == <<"bottom instead">>
<1> DEFINE one == {"bottom instead"}
<1> DEFINE A == first \cup one
<1> DEFINE B == A \cup Only(~query.year /\ ask.years = 0, "one year only")
<1> DEFINE C == B \cup Only(ask.entity, "top accounts of entity")
<1> DEFINE r == When(named, "transactions of first row")
<1> DEFINE s == r \o bottom
<1> DEFINE u == s \o When(~query.year /\ ask.years = 0, "one year only")
<1> DEFINE v == u \o When(ask.entity, "top accounts of entity")
<1>1. Suggests(r, first) /\ Len(r) \in 0 .. 1 BY SuggestsWhen
<1>2. first \cap one = {} BY DEF Only
<1>3. "one year only" \notin A BY DEF Only
<1>4. "top accounts of entity" \notin B BY DEF Only
<1>5. /\ "total per entity" \notin C /\ "total liabilities" \notin C
      /\ "split by entity" \notin C /\ "split by year" \notin C /\ "split by month" \notin C
  BY DEF Only
<1> HIDE DEF first, named, r
<1>6. Suggests(s, A) /\ Len(s) >= 1
  <2>1. Suggests(bottom, one) /\ Len(bottom) = 1
    <3>1. "bottom instead" \in one OBVIOUS
    <3>2. QED BY <3>1, SuggestsAlone
  <2> HIDE DEF bottom, one
  <2>2. Suggests(r, first) /\ Suggests(bottom, one) BY <1>1, <2>1
  <2>3. Suggests(s, A) BY <1>2, <2>2, SuggestsBoth
  <2>4. Len(s) = Len(r) + Len(bottom) BY <2>2, BothLong
  <2> HIDE DEF s
  <2>5. QED BY <1>1, <2>1, <2>3, <2>4
<1> HIDE DEF s, A
<1>7. Suggests(u, B) /\ Len(u) \in Nat /\ Len(u) >= Len(s) BY <1>3, <1>6, SuggestsMore
<1> HIDE DEF u, B
<1>8. Suggests(v, C) /\ Len(v) \in Nat /\ Len(v) >= Len(u) BY <1>4, <1>7, SuggestsMore
<1>9. Len(s) \in Nat BY <1>6 DEF Suggests
<1>10. ForListing(ask, query, result) = v
  BY DEF ForListing, named, bottom, r, s, u
<1> HIDE DEF v, C
<1>11. Len(v) >= 1 BY <1>6, <1>7, <1>8, <1>9
<1>12. QED BY <1>5, <1>8, <1>10, <1>11 DEF Suits

LEMMA GenericSuits == ASSUME NEW ask, NEW query PROVE Suits(ForGeneric(ask, query), ask, query)
<1> DEFINE A == Only(~query.entity, "split by entity")
<1> DEFINE B == A \cup Only(~query.year, "split by year")
<1> DEFINE total == <<"total of these">>
<1> DEFINE one == {"total of these"}
<1> DEFINE C == B \cup one
<1> DEFINE s == When(~query.entity, "split by entity")
<1> DEFINE u == s \o When(~query.year, "split by year")
<1> DEFINE v == u \o total
<1>1. Suggests(s, A) BY SuggestsWhen
<1>2. "split by year" \notin A BY DEF Only
<1>3. B \cap one = {} BY DEF Only
<1>4. /\ "total per entity" \notin C /\ "total liabilities" \notin C
      /\ query.entity => "split by entity" \notin C
      /\ query.year => "split by year" \notin C
      /\ "split by month" \notin C
  BY DEF Only
<1> HIDE DEF s
<1>5. Suggests(u, B) /\ Len(u) \in Nat BY <1>1, <1>2, SuggestsMore
<1> HIDE DEF u, B
<1>6. Suggests(total, one) /\ Len(total) = 1
  <2>1. "total of these" \in one OBVIOUS
  <2>2. QED BY <2>1, SuggestsAlone
<1>7. ForGeneric(ask, query) = v BY DEF ForGeneric, s, u
<1> HIDE DEF total, one
<1>8. Suggests(v, C) /\ Len(v) = Len(u) + Len(total)
  <2>1. Suggests(u, B) /\ Suggests(total, one) BY <1>5, <1>6
  <2>2. Suggests(v, C) BY <1>3, <2>1, SuggestsBoth
  <2>3. Len(v) = Len(u) + Len(total) BY <2>1, BothLong
  <2>4. QED BY <2>2, <2>3
<1> HIDE DEF v, C
<1>9. Len(v) \in Nat /\ Len(v) >= 1 BY <1>5, <1>6, <1>8
<1>10. QED BY <1>4, <1>7, <1>8, <1>9 DEF Suits

TemplateKind == {"single_value", "single_row", "comparison", "top_n", "generic"}

\* f is cut from all, which suggests something, and nothing that the query has.
CutFrom(f, all, A, query) ==
  /\ f = SubSeq(all, 1, IF Len(all) < MostFollowups THEN Len(all) ELSE MostFollowups)
  /\ Suggests(all, A) /\ Len(all) >= 1
  /\ query.entity => "split by entity" \notin A /\ "total per entity" \notin A
  /\ query.year => "split by year" \notin A
  /\ query.month => "split by month" \notin A

LEMMA FollowupsFrom ==
  ASSUME NEW ask, ask.topic \in BOOLEAN, NEW query, NEW result, NEW kind \in TemplateKind
  PROVE  \E all, A : CutFrom(Followups(ask, query, result, kind), all, A, query)
<1> DEFINE special == CASE kind = "single_value" -> ForValue(ask, query)
                        [] kind = "single_row" -> ForRow(ask, query)
                        [] kind = "comparison" -> ForComparison(ask, query, result)
                        [] kind = "top_n" -> ForListing(ask, query, result)
                        [] kind = "generic" -> ForGeneric(ask, query)
<1> DEFINE universal == Universal(ask, query)
<1> DEFINE all == IF Len(special) < 2 THEN special \o universal ELSE special
<1>1. Followups(ask, query, result, kind) =
        SubSeq(all, 1, IF Len(all) < MostFollowups THEN Len(all) ELSE MostFollowups)
  BY DEF Followups
<1>2. Suits(special, ask, query)
  <2>1. \/ kind = "single_value" /\ special = ForValue(ask, query)
        \/ kind = "single_row" /\ special = ForRow(ask, query)
        \/ kind = "comparison" /\ special = ForComparison(ask, query, result)
        \/ kind = "top_n" /\ special = ForListing(ask, query, result)
        \/ kind = "generic" /\ special = ForGeneric(ask, query)
    BY DEF TemplateKind
  <2> HIDE DEF special
  <2>2. QED BY <2>1, ValueSuits, RowSuits, ComparisonSuits, ListingSuits, GenericSuits
<1> HIDE DEF special
<1>3. PICK A : /\ Suggests(special, A)
               /\ "total per entity" \notin A /\ "total liabilities" \notin A
               /\ query.entity => "split by entity" \notin A
               /\ query.year => "split by year" \notin A
               /\ query.month => "split by month" \notin A
               /\ Len(special) \in Nat /\ (ask.topic => Len(special) >= 1)
  BY <1>2 DEF Suits
<1>4. CASE ~(Len(special) < 2)
  <2>1. all = special BY <1>4
  <2> HIDE DEF all
  <2>2. Suggests(special, A) /\ Len(special) \in Nat BY <1>3
  <2>3. Suggests(all, A) /\ Len(all) >= 1 BY <1>4, <2>1, <2>2
  <2>4. query.entity => "split by entity" \notin A /\ "total per entity" \notin A BY <1>3
  <2>5. QED BY <1>1, <1>3, <2>3, <2>4 DEF CutFrom
<1>5. CASE Len(special) < 2
  <2> DEFINE total == When(~query.entity /\ ~ask.saysEntity, "total per entity")
  <2> DEFINE V == Only(~query.entity /\ ~ask.saysEntity, "total per entity")
  <2> DEFINE U == V \cup Only(~ask.topic, "total liabilities")
  <2>1. all = special \o universal BY <1>5
  <2>2. Suggests(total, V) BY SuggestsWhen
  <2>3. "total liabilities" \notin V BY DEF Only
  <2>4. universal = total \o When(~ask.topic, "total liabilities") BY DEF Universal
  <2>5. A \cap U = {} BY <1>3 DEF Only
  <2>6. /\ query.entity => "split by entity" \notin U /\ "total per entity" \notin U
        /\ "split by year" \notin U /\ "split by month" \notin U
    BY DEF Only
  <2> HIDE DEF total, V, universal, all
  <2>7. Suggests(universal, U) /\ Len(universal) \in Nat /\ (~ask.topic => Len(universal) >= 1)
    BY <2>2, <2>3, <2>4, SuggestsMore
  <2> HIDE DEF U
  <2>8. Suggests(special, A) /\ Suggests(universal, U) BY <1>3, <2>7
  <2>9. Suggests(all, A \cup U) BY <2>1, <2>5, <2>8, SuggestsBoth
  <2>10. Len(all) >= 1
    <3>1. Len(all) = Len(special) + Len(universal) BY <2>1, <2>8, BothLong
    <3>2. Len(special) \in Nat /\ (ask.topic => Len(special) >= 1) BY <1>3
    <3>3. Len(special) >= 1 \/ Len(universal) >= 1 BY <2>7, <3>2
    <3>4. QED BY <2>7, <3>1, <3>2, <3>3
  <2>11. /\ query.entity => "split by entity" \notin A \cup U
                            /\ "total per entity" \notin A \cup U
         /\ query.year => "split by year" \notin A \cup U
         /\ query.month => "split by month" \notin A \cup U
    BY <1>3, <2>6
  <2>12. QED BY <1>1, <2>9, <2>10, <2>11 DEF CutFrom
<1>6. QED BY <1>4, <1>5

FollowupsSound(f, query) ==
  /\ Cardinality(ToSet(f)) = Len(f) /\ Len(f) \in 1 .. MostFollowups
  /\ query.entity => {"split by entity", "total per entity"} \cap ToSet(f) = {}
  /\ query.year => "split by year" \notin ToSet(f)
  /\ query.month => "split by month" \notin ToSet(f)

LEMMA FollowupsSuit ==
  ASSUME NEW ask, ask.topic \in BOOLEAN, NEW query, NEW result, NEW kind \in TemplateKind
  PROVE  FollowupsSound(Followups(ask, query, result, kind), query)
<1> DEFINE f == Followups(ask, query, result, kind)
<1>1. PICK all, A : CutFrom(f, all, A, query) BY FollowupsFrom
<1> HIDE DEF f
<1>2. /\ f = SubSeq(all, 1, IF Len(all) < MostFollowups THEN Len(all) ELSE MostFollowups)
      /\ Suggests(all, A) /\ Len(all) >= 1
      /\ query.entity => "split by entity" \notin A /\ "total per entity" \notin A
      /\ query.year => "split by year" \notin A
      /\ query.month => "split by month" \notin A
  BY <1>1 DEF CutFrom
<1> DEFINE n == IF Len(all) < MostFollowups THEN Len(all) ELSE MostFollowups
<1>3. all \in Seq(A) /\ \A i, j \in 1 .. Len(all) : all[i] = all[j] => i = j
  BY <1>2 DEF Suggests
<1>4. n \in 1 .. Len(all) /\ n \in 1 .. MostFollowups
  <2>1. Len(all) \in Nat BY <1>3
  <2>2. MostFollowups \in Nat \ {0} BY TemplateAssumption
  <2>3. Len(all) >= 1 BY <1>2
  <2>4. QED BY <2>1, <2>2, <2>3
<1>5. f = SubSeq(all, 1, n) BY <1>2
<1> HIDE DEF n
<1>6. /\ f \in Seq(A) /\ Len(f) = n /\ DOMAIN f = 1 .. n
      /\ \A i \in 1 .. n : f[i] = all[i] /\ i \in 1 .. Len(all)
  <2>1. /\ 1 \in 1 .. Len(all) + 1 /\ n \in 1 - 1 .. Len(all) /\ n - 1 + 1 = n
        /\ \A i \in 1 .. n : 1 + i - 1 = i /\ i \in 1 .. Len(all)
    BY <1>3, <1>4
  <2>2. /\ f \in Seq(A) /\ Len(f) = n - 1 + 1 /\ DOMAIN f = 1 .. n - 1 + 1
        /\ \A i \in 1 .. n - 1 + 1 : f[i] = all[1 + i - 1]
    BY <1>3, <1>5, <2>1, Stretch
  <2>3. QED BY <2>1, <2>2
<1>7. ToSet(f) = {f[i] : i \in 1 .. n} BY <1>6 DEF ToSet
<1>8. ToSet(f) \subseteq A BY <1>6, <1>7
<1>9. f \in Bijection(1 .. n, ToSet(f))
  <2>1. f \in [1 .. n -> ToSet(f)]
    <3>1. f = [i \in 1 .. n |-> f[i]] BY <1>6
    <3>2. QED BY <1>7, <3>1
  <2>2. \A i, j \in 1 .. n : f[i] = f[j] => i = j BY <1>3, <1>6
  <2>3. \A x \in ToSet(f) : \E i \in 1 .. n : f[i] = x BY <1>7
  <2>4. QED BY <2>1, <2>2, <2>3 DEF Bijection, Injection, Surjection, IsInjective
<1>10. Cardinality(ToSet(f)) = n
  <2>1. n \in Nat BY <1>4
  <2>2. IsFiniteSet(1 .. n) /\ Cardinality(1 .. n) = n BY <2>1, FS_Interval
  <2>3. ExistsBijection(1 .. n, ToSet(f)) BY <1>9 DEF ExistsBijection
  <2>4. QED BY <2>2, <2>3, FS_Bijection
<1>11. QED BY <1>2, <1>4, <1>6, <1>8, <1>10 DEF FollowupsSound, f

LEMMA TemplateIs ==
  ASSUME NEW c \in Results, c.result.rows # <<>>, Template(c) # NoCommentary
  PROVE  /\ Template(c).kind \in TemplateKind
         /\ Template(c).kind = "comparison" =>
              Template(c) = Comparison(c.ask, c.result) /\ NumericColumns(c.result) # {}
         /\ Template(c).kind = "top_n" =>
              Template(c) = TopListing(c.result) /\ HasListing(c.query, c.result)
<1> DEFINE r == c.result
<1> DEFINE said == Commentary(c.ask, c.query, r)
<1>1. Template(c) = said BY DEF Template
<1>2. \/ said = [kind |-> "single_value", value |-> r.rows[1][1]]
      \/ said = KeyFigures(c.ask, c.query, r)
      \/ said = Comparison(c.ask, r) /\ HasGroups(c.query, r)
      \/ said = TopListing(r) /\ HasListing(c.query, r)
      \/ said = [kind |-> "generic", records |-> RowCount(r)]
  BY <1>1 DEF Commentary
<1> HIDE DEF said
<1>3. CASE said = [kind |-> "single_value", value |-> r.rows[1][1]]
  <2>1. said.kind = "single_value" BY <1>3
  <2>2. QED BY <1>1, <2>1 DEF TemplateKind
<1>4. CASE said = KeyFigures(c.ask, c.query, r)
  <2>1. said.kind = "single_row" BY <1>4 DEF KeyFigures
  <2>2. QED BY <1>1, <2>1 DEF TemplateKind
<1>5. CASE said = Comparison(c.ask, r) /\ HasGroups(c.query, r)
  <2>1. said.kind = "comparison" BY <1>5 DEF Comparison, Compared
  <2>2. NumericColumns(r) # {} BY <1>5 DEF HasGroups
  <2>3. QED BY <1>1, <1>5, <2>1, <2>2 DEF TemplateKind
<1>6. CASE said = TopListing(r) /\ HasListing(c.query, r)
  <2>1. said.kind = "top_n" BY <1>6 DEF TopListing
  <2>2. QED BY <1>1, <1>6, <2>1 DEF TemplateKind
<1>7. CASE said = [kind |-> "generic", records |-> RowCount(r)]
  <2>1. said.kind = "generic" BY <1>7
  <2>2. QED BY <1>1, <2>1 DEF TemplateKind
<1>8. QED BY <1>2, <1>3, <1>4, <1>5, <1>6, <1>7

\* Where a text comes from rows, which rows, and what the text is.
Said(c) ==
  /\ input = c /\ c.result.rows # <<>> /\ Template(c) # NoCommentary
  /\ output = [kind |-> Template(c).kind, says |-> Template(c),
               followups |-> Followups(c.ask, c.query, c.result, Template(c).kind)]

Untold == {"not_wanted", "no_rows", "llm", "unavailable"}

SaidInv ==
  step = "commented" =>
    \/ output.kind \in Untold /\ "followups" \notin DOMAIN output
    \/ \E c \in Results : Said(c)

LEMMA SaidStep == ASSUME SaidInv, ClientSound, [Next]_callVars PROVE SaidInv'
<1>1. CASE FromTemplate
  <2>1. PICK t \in Templated :
          /\ input' = t.case
          /\ output' = [kind |-> t.says.kind, says |-> t.says,
                        followups |-> Followups(t.case.ask, t.case.query, t.case.result,
                                                t.says.kind)]
    BY <1>1 DEF FromTemplate
  <2>2. PICK c \in Results \ Unanswered : t = [case |-> c, says |-> Template(c)]
    BY DEF Templated, Treated
  <2>3. t.case = c /\ t.says = Template(c) BY <2>2
  <2>4. c.result.rows # <<>> /\ Template(c) # NoCommentary
    BY <2>2, <2>3 DEF Unanswered, Templated, Untemplated
  <2>5. Said(c)' BY <2>1, <2>3, <2>4 DEF Said
  <2>6. c \in Results BY <2>2
  <2>7. QED BY <2>5, <2>6 DEF SaidInv
<1>2. CASE NotWanted \/ NoRows \/ CommentaryComes \/ CommentaryFails
  <2>1. output' \in {[kind |-> "not_wanted"], [kind |-> "no_rows"], [kind |-> "llm"],
                     [kind |-> "unavailable"]}
    BY <1>2 DEF NotWanted, NoRows, CommentaryComes, CommentaryFails
  <2>2. output'.kind \in Untold /\ "followups" \notin DOMAIN output'
    BY <2>1 DEF Untold
  <2>3. QED BY <2>2 DEF SaidInv
<1>3. CASE \/ PromptRefused \/ AskClaude \/ AnswerComes \/ CallFails \/ Execute \/ QueryFails
           \/ AskForCommentary
  <2>1. step' # "commented"
    BY <1>3 DEF PromptRefused, AskClaude, AnswerComes, CallFails, Execute, QueryFails,
                AskForCommentary
  <2>2. QED BY <2>1 DEF SaidInv
<1>4. CASE Waiting
  <2>1. phase # "idle" /\ step' = step
    BY <1>4 DEF Waiting, Works, Returns, AttemptFails, WakesUp
  <2>2. step' # "commented" BY <2>1 DEF ClientSound, TypeOK
  <2>3. QED BY <2>2 DEF SaidInv
<1>5. CASE UNCHANGED callVars
  <2>1. step' = step /\ input' = input /\ output' = output BY <1>5 DEF callVars
  <2>2. QED BY <2>1 DEF SaidInv, Said
<1>6. QED BY <1>1, <1>2, <1>3, <1>4, <1>5 DEF Next

LEMMA SaidAlways == Spec => []SaidInv
<1>1. Init => SaidInv BY DEF Init, SaidInv
<1>2. SaidInv /\ ClientSound /\ [Next]_callVars => SaidInv' BY SaidStep
<1>3. QED BY <1>1, <1>2, ClientSoundHolds, PTL DEF Spec

LEMMA SaidWith ==
  ASSUME SaidInv, NEW kind \in TemplateKind, Commented(kind)
  PROVE  \E c \in Results : /\ input = c /\ c.result.rows # <<>> /\ Template(c) # NoCommentary
                            /\ output.says = Template(c) /\ Template(c).kind = kind
<1>1. step = "commented" /\ output.kind = kind BY DEF Commented
<1>2. kind \notin Untold BY DEF TemplateKind, Untold
<1>3. PICK c \in Results : Said(c) BY <1>1, <1>2 DEF SaidInv
<1>4. output.kind = Template(c).kind /\ output.says = Template(c) BY <1>3 DEF Said
<1>5. QED BY <1>1, <1>3, <1>4 DEF Said

LEMMA ComparisonIsHonest == ASSUME SaidInv PROVE ComparisonHonest
<1>1. SUFFICES ASSUME Commented("comparison") PROVE ComparisonHonest BY DEF ComparisonHonest
<1>2. PICK c \in Results :
        /\ input = c /\ c.result.rows # <<>> /\ Template(c) # NoCommentary
        /\ output.says = Template(c) /\ Template(c).kind = "comparison"
  <2>1. "comparison" \in TemplateKind BY DEF TemplateKind
  <2>2. QED BY <1>1, <2>1, SaidWith
<1> DEFINE pairs == Pairs(c.result)
<1> DEFINE said == output.says
<1> DEFINE ranked == Ranked(pairs)
<1> DEFINE n == Len(pairs)
<1>3. said = Comparison(c.ask, c.result) /\ NumericColumns(c.result) # {} BY <1>2, TemplateIs
<1>4. /\ said.breakdown = ranked
      /\ said.total = Total([i \in DOMAIN pairs |-> pairs[i].value])
      /\ said.contrast = IF n >= 2 THEN <<Contrast(pairs)>> ELSE <<>>
  BY <1>3 DEF Comparison, Compared
<1>5. pairs \in Seq(Pair) /\ n # 0 /\ n \in Nat /\ DOMAIN pairs = 1 .. n
  BY <1>2, <1>3, PairsAre
<1> HIDE DEF pairs, said
<1>6. \A x : Cardinality({i \in DOMAIN pairs : pairs[i] = x}) =
               Cardinality({i \in DOMAIN said.breakdown : said.breakdown[i] = x})
  <2>1. PICK p : Sorted(ranked, pairs, Outranks(pairs), p) BY <1>5, RankedIs
  <2> HIDE DEF ranked
  <2>2. ASSUME NEW x
        PROVE  Cardinality({i \in DOMAIN pairs : pairs[i] = x}) =
                 Cardinality({i \in DOMAIN ranked : ranked[i] = x})
    <3> DEFINE before == Outranks(pairs)
    <3>1. pairs \in Seq(Pair) /\ Sorted(ranked, pairs, before, p) BY <1>5, <2>1
    <3> HIDE DEF before
    <3>2. Cardinality(PlacesOf(x, pairs)) = Cardinality(PlacesOf(x, ranked))
      BY <3>1, SameElements
    <3>3. QED BY <3>2 DEF PlacesOf
  <2>3. QED BY <1>4, <2>2
<1>7. \A i \in 2 .. Len(said.breakdown) :
        said.breakdown[i].value <= said.breakdown[i - 1].value
  <2>1. /\ DOMAIN ranked = 1 .. n
        /\ \A k, l \in 1 .. n : k < l => ranked[l].value <= ranked[k].value
    BY <1>5, RankedBounds
  <2>2. PICK p : Sorted(ranked, pairs, Outranks(pairs), p) BY <1>5, RankedIs
  <2> HIDE DEF ranked
  <2>3. Len(ranked) = n
    <3>1. ranked = [k \in 1 .. n |-> pairs[p[k]]] BY <2>2 DEF Sorted
    <3>2. ranked \in Seq({pairs[p[k]] : k \in 1 .. n}) BY <1>5, <3>1
    <3>3. QED BY <1>5, <3>1, <3>2
  <2>4. ASSUME NEW i \in 2 .. n PROVE ranked[i].value <= ranked[i - 1].value
    <3>1. i \in 1 .. n /\ i - 1 \in 1 .. n /\ i - 1 < i BY <1>5
    <3>2. QED BY <2>1, <3>1
  <2>5. QED BY <1>4, <2>3, <2>4
<1>8. said.total = Total([i \in DOMAIN said.breakdown |-> said.breakdown[i].value])
  BY <1>4, <1>5, SameTotal
<1>9. ASSUME NEW i \in DOMAIN said.contrast
      PROVE  LET d == said.contrast[i]
             IN /\ \A v \in {pairs[k].value : k \in DOMAIN pairs} :
                     d.behind.value <= v /\ v <= d.ahead.value
                /\ d.gap = d.ahead.value - d.behind.value /\ d.gap >= 0
  <2>1. said.contrast = <<Contrast(pairs)>> /\ i = 1 BY <1>4
  <2>2. said.contrast[i] = Contrast(pairs) BY <2>1
  <2>3. /\ \A k \in DOMAIN pairs : /\ Contrast(pairs).behind.value <= pairs[k].value
                                   /\ pairs[k].value <= Contrast(pairs).ahead.value
        /\ Contrast(pairs).gap = Contrast(pairs).ahead.value - Contrast(pairs).behind.value
        /\ Contrast(pairs).gap >= 0
    BY <1>5, ContrastIs
  <2>4. QED BY <2>2, <2>3
<1> HIDE DEF ranked
<1> DEFINE values == {pairs[k].value : k \in DOMAIN pairs}
<1> DEFINE Clauses ==
             /\ \A p \in {pairs[i] : i \in DOMAIN pairs} \cup
                         {said.breakdown[i] : i \in DOMAIN said.breakdown} :
                  Cardinality({i \in DOMAIN pairs : pairs[i] = p}) =
                    Cardinality({i \in DOMAIN said.breakdown : said.breakdown[i] = p})
             /\ \A i \in 2 .. Len(said.breakdown) :
                  said.breakdown[i].value <= said.breakdown[i - 1].value
             /\ said.total = Total([i \in DOMAIN said.breakdown |-> said.breakdown[i].value])
             /\ \A i \in DOMAIN said.contrast :
                  LET d == said.contrast[i]
                  IN /\ \A v \in values : d.behind.value <= v /\ v <= d.ahead.value
                     /\ d.gap = d.ahead.value - d.behind.value /\ d.gap >= 0
<1>10. Clauses
  <2> HIDE DEF values
  <2>1. \A i \in DOMAIN said.contrast :
          LET d == said.contrast[i]
          IN /\ \A v \in values : d.behind.value <= v /\ v <= d.ahead.value
             /\ d.gap = d.ahead.value - d.behind.value /\ d.gap >= 0
    BY <1>9 DEF values
  <2>2. QED BY <1>6, <1>7, <1>8, <2>1
<1>11. Pairs(input.result) = pairs BY <1>2 DEF pairs
<1>12. ComparisonHonest <=> Clauses
  BY <1>1, <1>11 DEF ComparisonHonest, said
<1>13. QED BY <1>10, <1>12

LEMMA TrendIsHonest == ASSUME SaidInv PROVE TrendHonest
<1> DEFINE groups == output.says.breakdown
<1> DEFINE trend == output.says.trend
<1> DEFINE Of(label) == {groups[i].value : i \in {j \in DOMAIN groups : groups[j].label = label}}
<1> DEFINE Distances(from, to) == {v - w : v \in Of(to), w \in Of(from)}
<1> DEFINE sum == Total([i \in DOMAIN trend |-> Change(trend[i])])
<1> DEFINE overall == Distances(trend[1].from, Last(trend).to)
<1> DEFINE Told == \/ Len(trend) = Len(groups) - 1
                   \/ trend = <<>> /\ \E i \in DOMAIN groups : groups[i].label \notin FourDigits
<1> DEFINE Moves == \A i \in DOMAIN trend :
                      /\ TextRank[trend[i].from] <= TextRank[trend[i].to]
                      /\ Change(trend[i]) \in Distances(trend[i].from, trend[i].to)
<1> DEFINE Clauses == /\ Told
                      /\ \A i \in 2 .. Len(trend) : trend[i].from = trend[i - 1].to
                      /\ Moves
                      /\ trend # <<>> => sum \in overall
<1>0. TrendHonest <=> (Commented("comparison") => Clauses) BY DEF TrendHonest
<1> HIDE DEF groups, trend, sum, overall, Clauses, Told, Moves
<1>1. SUFFICES ASSUME Commented("comparison") PROVE Clauses BY <1>0
<1>2. PICK c \in Results :
        /\ input = c /\ c.result.rows # <<>> /\ Template(c) # NoCommentary
        /\ output.says = Template(c) /\ Template(c).kind = "comparison"
  <2>1. "comparison" \in TemplateKind BY DEF TemplateKind
  <2>2. QED BY <1>1, <2>1, SaidWith
<1> DEFINE pairs == Pairs(c.result)
<1> DEFINE n == Len(pairs)
<1>3. output.says = Comparison(c.ask, c.result) /\ NumericColumns(c.result) # {}
  BY <1>2, TemplateIs
<1>4. /\ groups = Ranked(pairs)
      /\ trend = IF IsYearColumn(c.ask.yearNamed, pairs) THEN Trend(pairs) ELSE <<>>
  BY <1>3 DEF Comparison, Compared, groups, trend
<1>5. pairs \in Seq(Pair) /\ n # 0 /\ n \in Nat /\ DOMAIN pairs = 1 .. n
  BY <1>2, <1>3, PairsAre
<1> HIDE DEF pairs
<1>6. /\ DOMAIN groups = 1 .. n
      /\ \A i \in 1 .. n : \E k \in 1 .. n : groups[k] = pairs[i]
  <2>1. /\ DOMAIN Ranked(pairs) = 1 .. n
        /\ \A i \in 1 .. n : \E k \in 1 .. n : Ranked(pairs)[k] = pairs[i]
    BY <1>5, RankedBounds
  <2>2. QED BY <1>4, <2>1
<1>7. Len(groups) = n
  <2>1. PICK p : Sorted(groups, pairs, Outranks(pairs), p) BY <1>4, <1>5, RankedIs
  <2>2. groups = [k \in 1 .. n |-> pairs[p[k]]] BY <2>1 DEF Sorted
  <2>3. groups \in Seq({pairs[p[k]] : k \in 1 .. n}) BY <1>5, <2>2
  <2>4. QED BY <1>5, <2>2, <2>3
<1>8. CASE ~IsYearColumn(c.ask.yearNamed, pairs)
  <2>1. trend = <<>> BY <1>4, <1>8
  <2>2. PICK g \in 1 .. n : pairs[g].label \notin FourDigits BY <1>5, <1>8 DEF IsYearColumn
  <2>3. PICK k \in 1 .. n : groups[k] = pairs[g] BY <1>6
  <2>4. Told BY <1>6, <2>1, <2>2, <2>3 DEF Told
  <2>5. Len(trend) = 0 /\ DOMAIN trend = {} BY <2>1
  <2>6. Moves BY <2>5 DEF Moves
  <2>7. \A i \in 2 .. Len(trend) : trend[i].from = trend[i - 1].to BY <2>5
  <2>8. QED BY <2>1, <2>4, <2>6, <2>7 DEF Clauses
<1>9. CASE IsYearColumn(c.ask.yearNamed, pairs)
  <2>1. trend = Trend(pairs) BY <1>4, <1>9
  <2>2. /\ Len(trend) = n - 1 /\ DOMAIN trend = 1 .. n - 1
        /\ \A i \in 2 .. n - 1 : trend[i].from = trend[i - 1].to
        /\ \A i \in 1 .. n - 1 : TextRank[trend[i].from] <= TextRank[trend[i].to]
        /\ \A i \in 1 .. n - 1 : \E k, l \in 1 .. n :
             /\ pairs[k].label = trend[i].to /\ pairs[l].label = trend[i].from
             /\ Change(trend[i]) = pairs[k].value - pairs[l].value
        /\ n > 1 => \E i, j \in 1 .. n :
             /\ pairs[i].label = trend[n - 1].to /\ pairs[j].label = trend[1].from
             /\ Total([k \in DOMAIN trend |-> Change(trend[k])]) = pairs[i].value - pairs[j].value
    <3>1. LET t == Trend(pairs)
          IN /\ Len(t) = n - 1 /\ DOMAIN t = 1 .. n - 1
             /\ \A i \in 2 .. n - 1 : t[i].from = t[i - 1].to
             /\ \A i \in 1 .. n - 1 : TextRank[t[i].from] <= TextRank[t[i].to]
             /\ \A i \in 1 .. n - 1 : \E k, l \in 1 .. n :
                  /\ pairs[k].label = t[i].to /\ pairs[l].label = t[i].from
                  /\ Change(t[i]) = pairs[k].value - pairs[l].value
             /\ n > 1 => \E i, j \in 1 .. n :
                  /\ pairs[i].label = t[n - 1].to /\ pairs[j].label = t[1].from
                  /\ Total([k \in DOMAIN t |-> Change(t[k])]) = pairs[i].value - pairs[j].value
      BY <1>5, TrendIs
    <3>2. QED BY <2>1, <3>1
  <2>3. ASSUME NEW i \in 1 .. n, NEW j \in 1 .. n, NEW from, NEW to,
               pairs[i].label = to, pairs[j].label = from
        PROVE  pairs[i].value - pairs[j].value \in Distances(from, to)
    <3>1. PICK k \in 1 .. n : groups[k] = pairs[i] BY <1>6
    <3>2. PICK l \in 1 .. n : groups[l] = pairs[j] BY <1>6
    <3>3. pairs[i].value \in Of(to) BY <1>6, <2>3, <3>1
    <3>4. pairs[j].value \in Of(from) BY <1>6, <2>3, <3>2
    <3> HIDE DEF Of
    <3>5. QED BY <3>3, <3>4
  <2> HIDE DEF Distances
  <2>4. Moves
    <3>1. ASSUME NEW i \in 1 .. n - 1
          PROVE  Change(trend[i]) \in Distances(trend[i].from, trend[i].to)
      <4>1. PICK k \in 1 .. n, l \in 1 .. n :
              /\ pairs[k].label = trend[i].to /\ pairs[l].label = trend[i].from
              /\ Change(trend[i]) = pairs[k].value - pairs[l].value
        BY <2>2
      <4>2. pairs[k].value - pairs[l].value \in Distances(trend[i].from, trend[i].to)
        BY <2>3, <4>1
      <4>3. QED BY <4>1, <4>2
    <3>2. QED BY <2>2, <3>1 DEF Moves
  <2>5. trend # <<>> => sum \in overall
    <3>1. SUFFICES ASSUME trend # <<>> PROVE sum \in overall OBVIOUS
    <3>2. n > 1
      <4>1. SUFFICES ASSUME n = 1 PROVE FALSE BY <1>5
      <4> DEFINE years == ByLabel(pairs)
      <4>2. trend = [i \in 1 .. Len(years) - 1 |-> Move(years[i], years[i + 1])]
        BY <2>1 DEF Trend
      <4>3. DOMAIN trend = 1 .. 0 BY <2>2, <4>1
      <4>4. 1 .. Len(years) - 1 = 1 .. 0 BY <4>2, <4>3
      <4>5. trend = [i \in 1 .. 0 |-> Move(years[i], years[i + 1])] BY <4>2, <4>4
      <4>6. trend = <<>> BY <4>5
      <4>7. QED BY <3>1, <4>6
    <3>3. PICK i \in 1 .. n, j \in 1 .. n :
            /\ pairs[i].label = trend[n - 1].to /\ pairs[j].label = trend[1].from
            /\ sum = pairs[i].value - pairs[j].value
      BY <2>2, <3>2 DEF sum
    <3>4. Last(trend) = trend[n - 1] BY <2>2 DEF Last
    <3>5. pairs[i].value - pairs[j].value \in Distances(trend[1].from, Last(trend).to)
      BY <2>3, <3>3, <3>4
    <3>6. QED BY <3>3, <3>5 DEF overall
  <2>6. Told BY <1>7, <2>2 DEF Told
  <2>7. QED BY <2>2, <2>4, <2>5, <2>6 DEF Clauses
<1>10. QED BY <1>8, <1>9

LEMMA TopRangeIsHonest == ASSUME SaidInv PROVE TopRangeHonest
<1> DEFINE r == input.result
<1> DEFINE n == Len(r.rows)
<1>1. SUFFICES ASSUME Commented("top_n"), NEW i \in DOMAIN output.says.range
               PROVE  LET range == output.says.range[i]
                      IN /\ {range.highest, range.lowest} \subseteq Values(r)
                         /\ Falling(r) =>
                              \A v \in Values(r) : range.lowest <= v /\ v <= range.highest
  BY DEF TopRangeHonest
<1>2. PICK c \in Results :
        /\ input = c /\ c.result.rows # <<>> /\ Template(c) # NoCommentary
        /\ output.says = Template(c) /\ Template(c).kind = "top_n"
  <2>1. "top_n" \in TemplateKind BY DEF TemplateKind
  <2>2. QED BY <1>1, <2>1, SaidWith
<1>3. r.rows \in Seq([1 .. r.columns -> Cell]) /\ r.rows # <<>> BY <1>2, ResultsAssumption
<1>4. n \in Nat /\ n # 0 /\ DOMAIN r.rows = 1 .. n BY <1>3
<1>5. output.says = TopListing(r) /\ HasListing(c.query, r) BY <1>2, TemplateIs
<1>6. output.says.range = ValueRange(r) BY <1>5 DEF TopListing
<1>7. Len(Items(r)) >= 2 /\ output.says.range[i] = [highest |-> Value(r, 1), lowest |-> Value(r, n)]
  <2>1. Last(r.rows) = r.rows[n] BY DEF Last
  <2>2. ~(Len(Items(r)) < 2) /\ ValueRange(r) =
          <<[highest |-> r.rows[1][ValueColumn(r)], lowest |-> Last(r.rows)[ValueColumn(r)]]>>
    BY <1>1, <1>6 DEF ValueRange
  <2>3. i = 1 BY <1>1, <1>6, <2>2
  <2>4. QED BY <1>6, <2>1, <2>2, <2>3 DEF Value
<1>8. Value(r, n) \in Number BY <1>4, <1>5, <1>7 DEF HasListing, RangeRaises, Value
<1>9. Value(r, 1) \in Number
  <2>1. NumericColumns(r) # {} BY <1>5 DEF HasListing
  <2>2. QED BY <1>2, <2>1, ColumnsThere DEF Value
<1>10. Value(r, 1) \in Values(r) /\ Value(r, n) \in Values(r)
  BY <1>4, <1>8, <1>9 DEF Values
<1>11. ASSUME Falling(r), NEW v \in Values(r) PROVE Value(r, n) <= v /\ v <= Value(r, 1)
  <2>1. PICK k \in 1 .. n : v = Value(r, k) BY <1>4 DEF Values
  <2>2. v \in Number /\ v \in Int BY TemplateAssumption DEF Values
  <2>3. 1 \in 1 .. n /\ n \in 1 .. n BY <1>4
  <2>4. 1 < k => Value(r, k) <= Value(r, 1) BY <1>4, <1>9, <1>11, <2>1, <2>2, <2>3 DEF Falling
  <2>5. k < n => Value(r, n) <= Value(r, k) BY <1>4, <1>8, <1>11, <2>1, <2>2, <2>3 DEF Falling
  <2>6. (k = 1 \/ 1 < k) /\ (k = n \/ k < n) BY <1>4
  <2>7. QED BY <2>1, <2>2, <2>4, <2>5, <2>6
<1>12. QED BY <1>7, <1>10, <1>11

LEMMA FollowupsAreSound == ASSUME SaidInv PROVE SuggestsFollowups
<1>1. SUFFICES ASSUME step = "commented", "followups" \in DOMAIN output PROVE SuggestsFollowups
  BY DEF SuggestsFollowups
<1>2. PICK c \in Results : Said(c) BY <1>1 DEF SaidInv
<1> DEFINE kind == Template(c).kind
<1>3. input = c /\ output.followups = Followups(c.ask, c.query, c.result, kind)
  BY <1>2 DEF Said
<1>4. kind \in TemplateKind BY <1>2, TemplateIs DEF Said
<1>5. c.ask.topic \in BOOLEAN BY ResultsAssumption
<1> DEFINE ask == c.ask
<1> DEFINE query == c.query
<1> DEFINE result == c.result
<1>6. ask.topic \in BOOLEAN BY <1>5
<1> HIDE DEF kind, ask, query, result
<1>7. FollowupsSound(Followups(ask, query, result, kind), query) BY <1>4, <1>6, FollowupsSuit
<1>8. FollowupsSound(output.followups, input.query) BY <1>3, <1>7 DEF ask, query, result
<1>9. QED BY <1>8 DEF SuggestsFollowups, FollowupsSound

\* Whatever the rows, a comparison's breakdown is all groups that have a value, in order
\* and with their total, however sorting moves them, and its contrast bounds them all
\* (template_commentary.py:314-392).
THEOREM ComparisonHonestHolds == Spec => []ComparisonHonest
<1>1. QED BY ComparisonIsHonest, SaidAlways, PTL

\* Whatever the rows, labels of years get a trend, in which direction and amount are
\* those of the values and the signed changes telescope (template_commentary.py:394-416).
THEOREM TrendHonestHolds == Spec => []TrendHonest
<1>1. QED BY TrendIsHonest, SaidAlways, PTL

\* The range of a top-N listing of any length is of values of the page, and bounds them all
\* where they fall, with or without rows that have none (template_commentary.py:441-466).
THEOREM TopRangeHonestHolds == Spec => []TopRangeHonest
<1>1. QED BY TopRangeIsHonest, SaidAlways, PTL

\* Whatever is asked, a template suggests something, no suggestion twice and none that
\* the result already follows (template_commentary.py:112-221).
THEOREM SuggestsFollowupsHolds == Spec => []SuggestsFollowups
<1>1. QED BY FollowupsAreSound, SaidAlways, PTL

\* The four together, as the runs check them (template_commentary.py:112-482).
COROLLARY TemplatesHonestHolds == Spec => []TemplatesHonest
<1>1. ComparisonHonest /\ TrendHonest /\ TopRangeHonest /\ SuggestsFollowups => TemplatesHonest
  BY DEF TemplatesHonest
<1>2. QED
  BY <1>1, ComparisonHonestHolds, TrendHonestHolds, TopRangeHonestHolds, SuggestsFollowupsHolds,
     PTL
=============================================================================

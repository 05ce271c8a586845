------------------------ MODULE ConversationMemoryProofs ------------------------
(***************************************************************************)
(* Proofs about ConversationMemory.  The invariants are proved together:   *)
(* a reader's list is bounded because it is the session's own list, which  *)
(* is bounded, until the overflow that detaches it.                        *)
(*                                                                         *)
(* MemoryOK states them of any three dictionaries, so that the state after *)
(* _evict_expired, from which get_history and add_turn go on, can be       *)
(* spoken of like the state before it.                                     *)
(***************************************************************************)
EXTENDS ConversationMemory, SequenceTheorems, TLAPS

MemoryOK(turns, access, lists) ==
  /\ turns \in [Session -> Seq(Turn)]
  /\ access \in [Session -> Nat \cup {Never}]
  /\ lists \in [Reader -> Handle]
  /\ \A s \in Session : turns[s] # <<>> <=> access[s] # Never
  /\ \A r \in Reader : lists[r].of \in Session =>
       lists[r].turns = turns[lists[r].of] /\ lists[r].turns # <<>>
  /\ \A s \in Session : Len(turns[s]) <= MaxTurns
  /\ \A r \in Reader : Len(lists[r].turns) <= MaxTurns + 1

Inv == MemoryOK(sessions, lastAccess, held) /\ now \in Nat

\* Inv is the conjunction of the invariants of the module.
LEMMA InvMeaning == Inv <=> TypeOK /\ Accounted /\ AliasAgrees /\ WindowBound
BY DEF Inv, MemoryOK, TypeOK, Accounted, AliasAgrees, WindowBound

LEMMA InvInit == Init => Inv
<1> SUFFICES ASSUME Init PROVE Inv
  OBVIOUS
<1>1. <<>> \in Seq(Turn) /\ Len(<<>>) = 0 BY EmptySeq
<1>2. NoHistory \in Handle BY <1>1 DEF NoHistory, Handle
<1>3. QED BY <1>1, <1>2, MemoryAssumption
          DEF Init, MemoryInit, Inv, MemoryOK, Never, NoHistory

\* Dropping sessions keeps everything in order: the lists that readers hold are
\* cut loose but stay as they are.
LEMMA DropOK ==
  ASSUME Inv, NEW S \in SUBSET Session
  PROVE  MemoryOK([s \in Session |-> IF s \in S THEN <<>> ELSE sessions[s]],
                  [s \in Session |-> IF s \in S THEN Never ELSE lastAccess[s]],
                  HeldWithout(S))
<1> DEFINE turns == [s \in Session |-> IF s \in S THEN <<>> ELSE sessions[s]]
           access == [s \in Session |-> IF s \in S THEN Never ELSE lastAccess[s]]
<1>1. <<>> \in Seq(Turn) /\ Len(<<>>) = 0 BY EmptySeq
<1>2. turns \in [Session -> Seq(Turn)] /\ access \in [Session -> Nat \cup {Never}]
  BY <1>1 DEF Inv, MemoryOK
<1>3. HeldWithout(S) \in [Reader -> Handle]
  BY DEF Inv, MemoryOK, HeldWithout, Handle
<1>4. \A s \in Session : turns[s] # <<>> <=> access[s] # Never
  BY DEF Inv, MemoryOK
<1>5. \A r \in Reader : HeldWithout(S)[r].turns = held[r].turns
                        /\ (HeldWithout(S)[r].of \in Session =>
                              HeldWithout(S)[r].of = held[r].of /\ held[r].of \notin S)
  BY MemoryAssumption DEF Inv, MemoryOK, HeldWithout, Handle
<1>6. \A r \in Reader : HeldWithout(S)[r].of \in Session =>
        HeldWithout(S)[r].turns = turns[HeldWithout(S)[r].of] /\ HeldWithout(S)[r].turns # <<>>
  BY <1>5 DEF Inv, MemoryOK
<1>7. \A s \in Session : Len(turns[s]) <= MaxTurns
  <2>1. SUFFICES ASSUME NEW s \in Session PROVE Len(turns[s]) <= MaxTurns
    OBVIOUS
  <2>2. CASE s \in S
    <3>1. turns[s] = <<>> BY <2>2
    <3>2. 0 <= MaxTurns BY MemoryAssumption
    <3>3. QED BY <3>1, <3>2, <1>1
  <2>3. CASE s \notin S
    BY <2>3 DEF Inv, MemoryOK
  <2>4. QED BY <2>2, <2>3
<1>8. \A r \in Reader : Len(HeldWithout(S)[r].turns) <= MaxTurns + 1
  BY <1>5 DEF Inv, MemoryOK
<1>9. QED BY <1>2, <1>3, <1>4, <1>6, <1>7, <1>8 DEF MemoryOK

LEMMA KeptOK ==
  ASSUME Inv
  PROVE  MemoryOK(KeptTurns, KeptAccess, KeptHeld)
<1>1. Expired \in SUBSET Session BY DEF Expired
<1>2. QED BY <1>1, DropOK DEF KeptTurns, KeptAccess, KeptHeld

\* What a turn becomes of a session's list, and what the dictionary keeps of it.
LEMMA WindowOK ==
  ASSUME NEW old \in Seq(Turn), Len(old) <= MaxTurns, NEW t \in Turn
  PROVE  LET turns == Append(old, t)
             window == IF Overflows(turns) THEN LastTurns(turns) ELSE turns
         IN /\ turns \in Seq(Turn) /\ turns # <<>> /\ Len(turns) <= MaxTurns + 1
            /\ window \in Seq(Turn) /\ window # <<>> /\ Len(window) <= MaxTurns
<1> DEFINE turns == Append(old, t)
<1>1. turns \in Seq(Turn) /\ turns # <<>> /\ Len(turns) = Len(old) + 1
  BY AppendProperties
<1>2. Len(old) \in Nat BY LenProperties
<1>3. CASE Overflows(turns)
  <2>1. Len(turns) = MaxTurns + 1
    BY <1>1, <1>2, <1>3, MemoryAssumption DEF Overflows
  <2>2. \A i \in Len(turns) - MaxTurns + 1 .. Len(turns) : turns[i] \in Turn
    BY <1>1, <2>1, ElementOfSeq, MemoryAssumption
  <2>3. LastTurns(turns) \in Seq(Turn) /\ Len(LastTurns(turns)) = MaxTurns
    <3> HIDE DEF turns
    <3>1. Len(turns) - MaxTurns + 1 \in Int /\ Len(turns) \in Int
      BY <2>1, MemoryAssumption
    <3>2. QED BY <2>1, <2>2, <3>1, SubSeqProperties, MemoryAssumption DEF LastTurns
  <2>4. LastTurns(turns) # <<>> BY <2>3, EmptySeq, MemoryAssumption
  <2>5. QED BY <1>1, <1>2, <1>3, <2>1, <2>3, <2>4, MemoryAssumption
<1>4. CASE ~Overflows(turns)
  BY <1>1, <1>2, <1>4, MemoryAssumption DEF Overflows
<1>5. QED BY <1>3, <1>4

LEMMA GetHistoryOK ==
  ASSUME Inv, NEW r \in Reader, NEW s \in Session, GetHistory(r, s)
  PROVE  MemoryOK(sessions', lastAccess', held')
<1>1. MemoryOK(KeptTurns, KeptAccess, KeptHeld) BY KeptOK
<1>2. HistoryOf(s) \in Handle /\ Len(HistoryOf(s).turns) <= MaxTurns + 1
  BY <1>1, MemoryAssumption, LenProperties DEF MemoryOK, HistoryOf, Handle
<1>3. HistoryOf(s).of \in Session =>
        HistoryOf(s).of = s /\ HistoryOf(s).turns = KeptTurns[s] /\ HistoryOf(s).turns # <<>>
  BY MemoryAssumption DEF HistoryOf
<1>4. lastAccess' \in [Session -> Nat \cup {Never}]
      /\ \A x \in Session : KeptTurns[x] # <<>> <=> lastAccess'[x] # Never
  BY <1>1 DEF MemoryOK, GetHistory, Touch, Inv, Never
<1>5. held' \in [Reader -> Handle]
  BY <1>1, <1>2 DEF MemoryOK, GetHistory
<1>6. \A x \in Reader : held'[x] = IF x = r THEN HistoryOf(s) ELSE KeptHeld[x]
  BY <1>1 DEF MemoryOK, GetHistory
<1>7. sessions' = KeptTurns BY DEF GetHistory, Touch
<1>8. QED BY <1>1, <1>2, <1>3, <1>4, <1>5, <1>6, <1>7 DEF MemoryOK

LEMMA AddTurnOK ==
  ASSUME Inv, NEW s \in Session, NEW t \in Turn, AddTurn(s, t)
  PROVE  MemoryOK(sessions', lastAccess', held')
<1> DEFINE turns == Append(KeptTurns[s], t)
           window == IF Overflows(turns) THEN LastTurns(turns) ELSE turns
           owner == IF Overflows(turns) THEN Detached ELSE s
<1>1. MemoryOK(KeptTurns, KeptAccess, KeptHeld) BY KeptOK
<1>2. /\ turns \in Seq(Turn) /\ turns # <<>> /\ Len(turns) <= MaxTurns + 1
      /\ window \in Seq(Turn) /\ window # <<>> /\ Len(window) <= MaxTurns
  BY <1>1, WindowOK DEF MemoryOK
<1>3. /\ sessions' = [KeptTurns EXCEPT ![s] = window]
      /\ lastAccess' = [KeptAccess EXCEPT ![s] = now]
      /\ held' = [r \in Reader |-> IF KeptHeld[r].of = s
                                   THEN [of |-> owner, turns |-> turns] ELSE KeptHeld[r]]
  BY DEF AddTurn
<1>4. owner \in Session => owner = s /\ window = turns
  BY MemoryAssumption
<1> HIDE DEF turns, window
<1>5. sessions' \in [Session -> Seq(Turn)] /\ lastAccess' \in [Session -> Nat \cup {Never}]
  BY <1>1, <1>2, <1>3 DEF MemoryOK, Inv
<1>6. held' \in [Reader -> Handle]
  BY <1>1, <1>2, <1>3 DEF MemoryOK, Handle
<1>7. \A x \in Session : sessions'[x] # <<>> <=> lastAccess'[x] # Never
  BY <1>1, <1>2, <1>3 DEF MemoryOK, Inv, Never
<1>8. \A r \in Reader : held'[r].of \in Session =>
        held'[r].turns = sessions'[held'[r].of] /\ held'[r].turns # <<>>
  BY <1>1, <1>2, <1>3, <1>4 DEF MemoryOK
<1>9. \A x \in Session : Len(sessions'[x]) <= MaxTurns
  BY <1>1, <1>2, <1>3 DEF MemoryOK
<1>10. \A r \in Reader : Len(held'[r].turns) <= MaxTurns + 1
  BY <1>1, <1>2, <1>3 DEF MemoryOK
<1>11. QED BY <1>5, <1>6, <1>7, <1>8, <1>9, <1>10 DEF MemoryOK

LEMMA ClearSessionOK ==
  ASSUME Inv, NEW s \in Session, ClearSession(s)
  PROVE  MemoryOK(sessions', lastAccess', held')
<1>1. sessions' = [x \in Session |-> IF x \in {s} THEN <<>> ELSE sessions[x]]
  BY DEF ClearSession, Inv, MemoryOK
<1>2. lastAccess' = [x \in Session |-> IF x \in {s} THEN Never ELSE lastAccess[x]]
  BY DEF ClearSession, Inv, MemoryOK
<1>3. held' = HeldWithout({s}) BY DEF ClearSession
<1>4. QED BY <1>1, <1>2, <1>3, DropOK

LEMMA ForgetOK ==
  ASSUME Inv, NEW r \in Reader, Forget(r)
  PROVE  MemoryOK(sessions', lastAccess', held')
<1>1. <<>> \in Seq(Turn) /\ Len(<<>>) = 0 BY EmptySeq
<1>2. NoHistory \in Handle /\ NoHistory.of \notin Session /\ Len(NoHistory.turns) = 0
  BY <1>1, MemoryAssumption DEF NoHistory, Handle
<1>3. QED BY <1>2, MemoryAssumption DEF Inv, MemoryOK, Forget

LEMMA InvStep == Inv /\ [Next]_memoryVars => Inv'
<1> SUFFICES ASSUME Inv, [Next]_memoryVars PROVE Inv'
  OBVIOUS
<1>1. ASSUME NEW r \in Reader, NEW s \in Session, GetHistory(r, s), UNCHANGED now PROVE Inv'
  BY <1>1, GetHistoryOK DEF Inv
<1>2. ASSUME NEW r \in Reader, Forget(r), UNCHANGED now PROVE Inv'
  BY <1>2, ForgetOK DEF Inv
<1>3. ASSUME NEW s \in Session, NEW t \in Turn, AddTurn(s, t), UNCHANGED now PROVE Inv'
  BY <1>3, AddTurnOK DEF Inv
<1>4. ASSUME NEW s \in Session, ClearSession(s), UNCHANGED now PROVE Inv'
  BY <1>4, ClearSessionOK DEF Inv
<1>5. CASE Tick /\ UNCHANGED <<sessions, lastAccess, held>>
  BY <1>5 DEF Inv, Tick
<1>6. CASE UNCHANGED memoryVars
  BY <1>6 DEF Inv, memoryVars
<1>7. QED BY <1>1, <1>2, <1>3, <1>4, <1>5, <1>6 DEF Next

LEMMA InvHolds == Spec => []Inv
BY InvInit, InvStep, PTL DEF Spec

\* Every reachable state of the memory is well typed.
THEOREM TypeCorrect == Spec => []TypeOK
BY InvHolds, InvMeaning, PTL

\* The two dictionaries always speak of the same sessions.
THEOREM AccountedHolds == Spec => []Accounted
BY InvHolds, InvMeaning, PTL

\* A reader whose list is still the session's own sees exactly its turns.
THEOREM AliasAgreesHolds == Spec => []AliasAgrees
BY InvHolds, InvMeaning, PTL

\* The window and every list that was handed out stay bounded, whatever other
\* handlers append, clear or let expire.
THEOREM WindowBoundHolds == Spec => []WindowBound
BY InvHolds, InvMeaning, PTL

-----------------------------------------------------------------------------
LEMMA DropStep == Inv /\ [Next]_memoryVars => [DropJustified]_memoryVars
<1> SUFFICES ASSUME Inv, Next PROVE DropJustified
  OBVIOUS
<1>1. \A s \in Session : sessions[s] # <<>> /\ KeptTurns[s] = <<>> =>
        now - lastAccess[s] > SessionTtl
  BY DEF KeptTurns, Expired
<1>2. ASSUME NEW r \in Reader, NEW s \in Session, GetHistory(r, s) PROVE DropJustified
  BY <1>1, <1>2 DEF GetHistory, Touch, DropJustified
<1>3. ASSUME NEW s \in Session, NEW t \in Turn, AddTurn(s, t) PROVE DropJustified
  <2>1. MemoryOK(KeptTurns, KeptAccess, KeptHeld) BY KeptOK
  <2>2. KeptTurns[s] \in Seq(Turn) /\ Len(KeptTurns[s]) <= MaxTurns
    BY <2>1 DEF MemoryOK
  <2>3. \A x \in Session : sessions'[x] = <<>> => x # s /\ sessions'[x] = KeptTurns[x]
    BY <1>3, <2>1, <2>2, WindowOK DEF AddTurn, MemoryOK
  <2>4. QED BY <1>1, <2>3 DEF DropJustified
<1>4. ASSUME NEW s \in Session, ClearSession(s) PROVE DropJustified
  <2>1. \A x \in Session : x # s => sessions'[x] = sessions[x]
    BY <1>4 DEF ClearSession, Inv, MemoryOK
  <2>2. QED BY <1>4, <2>1 DEF DropJustified
<1>5. CASE UNCHANGED sessions
  BY <1>5 DEF DropJustified
<1>6. QED BY <1>2, <1>3, <1>4, <1>5 DEF Next, Forget

\* A conversation is dropped only after it was cleared or idle for too long.
THEOREM DroppedOnlyIdleHolds == Spec => DroppedOnlyIdle
BY InvHolds, DropStep, PTL DEF Spec, DroppedOnlyIdle

\* A sequence is a prefix of what an append makes of it.
LEMMA AppendKeeps ==
  ASSUME NEW S, NEW q \in Seq(S), NEW e \in S
  PROVE  /\ Len(Append(q, e)) >= Len(q)
         /\ SubSeq(Append(q, e), 1, Len(q)) = q
<1> DEFINE longer == Append(q, e)
<1>1. Len(q) \in Nat BY LenProperties
<1>2. Len(longer) = Len(q) + 1 /\ \A i \in 1 .. Len(q) : longer[i] = q[i]
  BY AppendProperties
<1> HIDE DEF longer
<1>3. \A i \in 1 .. Len(q) : longer[i] \in S
  BY <1>2, ElementOfSeq
<1>4. /\ SubSeq(longer, 1, Len(q)) \in Seq(S)
      /\ Len(SubSeq(longer, 1, Len(q))) = Len(q)
      /\ \A i \in 1 .. Len(q) : SubSeq(longer, 1, Len(q))[i] = longer[i]
  BY <1>1, <1>3, SubSeqProperties
<1>5. SubSeq(longer, 1, Len(q)) = q
  BY <1>1, <1>2, <1>4, SeqEqual
<1>6. Len(longer) >= Len(q) BY <1>1, <1>2
<1>7. QED BY <1>5, <1>6 DEF longer

LEMMA HeldStep == Inv /\ [Next]_memoryVars => [HeldGrows]_memoryVars
<1> SUFFICES ASSUME Inv, Next, NEW r \in Reader
             PROVE  \/ /\ Len(held'[r].turns) >= Len(held[r].turns)
                       /\ SubSeq(held'[r].turns, 1, Len(held[r].turns)) = held[r].turns
                    \/ Forget(r)
                    \/ \E s \in Session : GetHistory(r, s)
  BY DEF HeldGrows
<1> DEFINE Keeps(list) == /\ Len(list.turns) >= Len(held[r].turns)
                          /\ SubSeq(list.turns, 1, Len(held[r].turns)) = held[r].turns
<1>1. held[r].turns \in Seq(Turn) /\ Len(held[r].turns) \in Nat
  BY LenProperties DEF Inv, MemoryOK, Handle
<1>2. ASSUME NEW list, list.turns = held[r].turns PROVE Keeps(list)
  BY <1>1, <1>2, SubSeqFull
<1>3. \A S \in SUBSET Session : HeldWithout(S)[r].turns = held[r].turns
  BY DEF Inv, MemoryOK, HeldWithout, Handle
<1>4. Expired \in SUBSET Session BY DEF Expired
<1>5. KeptHeld[r].turns = held[r].turns
  BY <1>3, <1>4 DEF KeptHeld
<1>6. ASSUME NEW x \in Reader, NEW s \in Session, GetHistory(x, s), x # r PROVE Keeps(held'[r])
  <2>1. held'[r] = KeptHeld[r] BY <1>6 DEF GetHistory, KeptHeld, HeldWithout
  <2>2. QED BY <1>2, <1>5, <2>1
<1>7. ASSUME NEW x \in Reader, Forget(x), x # r PROVE Keeps(held'[r])
  <2>1. held'[r] = held[r] BY <1>7 DEF Forget, Inv, MemoryOK
  <2>2. QED BY <1>2, <2>1
<1>8. ASSUME NEW s \in Session, NEW t \in Turn, AddTurn(s, t) PROVE Keeps(held'[r])
  <2>1. CASE KeptHeld[r].of = s
    <3>1. KeptHeld[r].turns = KeptTurns[s]
      BY <2>1, KeptOK DEF MemoryOK
    <3>2. held'[r].turns = Append(held[r].turns, t)
      BY <1>8, <2>1, <3>1, <1>5 DEF AddTurn
    <3>3. QED BY <1>1, <3>2, AppendKeeps
  <2>2. CASE KeptHeld[r].of # s
    <3>1. held'[r] = KeptHeld[r] BY <1>8, <2>2 DEF AddTurn
    <3>2. QED BY <1>2, <1>5, <3>1
  <2>3. QED BY <2>1, <2>2
<1>9. ASSUME NEW s \in Session, ClearSession(s) PROVE Keeps(held'[r])
  <2>1. held'[r].turns = held[r].turns
    BY <1>9, <1>3 DEF ClearSession
  <2>2. QED BY <1>2, <2>1
<1>10. CASE UNCHANGED held
  <2>1. Keeps(held'[r]) BY <1>2, <1>10
  <2>2. QED BY <2>1
<1>11. QED BY <1>6, <1>7, <1>8, <1>9, <1>10 DEF Next

\* What a reader holds stays a prefix of itself: nothing it has seen is taken
\* away or reordered by eviction, overflow or another handler.
THEOREM HeldOnlyGrowsHolds == Spec => HeldOnlyGrows
BY InvHolds, HeldStep, PTL DEF Spec, HeldOnlyGrows
-----------------------------------------------------------------------------
\* Cutting the window after the append is appending to the cut window.
LEMMA CutThenAppend ==
  ASSUME NEW old \in Seq(Turn), Len(old) = MaxTurns, NEW t \in Turn
  PROVE  /\ Len(LastTurns(Append(old, t))) = MaxTurns
         /\ LastTurns(Append(old, t)) = Append(SubSeq(old, 2, MaxTurns), t)
<1> DEFINE turns == Append(old, t)
           left == SubSeq(turns, 2, MaxTurns + 1)
           tail == SubSeq(old, 2, MaxTurns)
           right == Append(tail, t)
<1>1. turns \in Seq(Turn) /\ Len(turns) = MaxTurns + 1
      /\ turns[MaxTurns + 1] = t /\ \A i \in 1 .. MaxTurns : turns[i] = old[i]
  BY AppendProperties, MemoryAssumption
<1>2. LastTurns(Append(old, t)) = left
  BY <1>1, MemoryAssumption DEF LastTurns
<1> HIDE DEF turns
<1>3. \A i \in 2 .. MaxTurns + 1 : turns[i] \in Turn
  BY <1>1, ElementOfSeq, MemoryAssumption
<1>4. /\ left \in Seq(Turn) /\ Len(left) = MaxTurns
      /\ \A i \in 1 .. MaxTurns : left[i] = turns[i + 1]
  BY <1>3, SubSeqProperties, MemoryAssumption
<1>5. \A i \in 2 .. MaxTurns : old[i] \in Turn
  BY ElementOfSeq, MemoryAssumption
<1>6. /\ tail \in Seq(Turn) /\ Len(tail) = MaxTurns - 1
      /\ \A i \in 1 .. MaxTurns - 1 : tail[i] = old[i + 1]
  BY <1>5, SubSeqProperties, MemoryAssumption
<1> HIDE DEF left, tail
<1>7. /\ right \in Seq(Turn) /\ Len(right) = MaxTurns /\ right[MaxTurns] = t
      /\ \A i \in 1 .. MaxTurns - 1 : right[i] = tail[i]
  BY <1>6, AppendProperties, MemoryAssumption
<1> HIDE DEF right
<1>8. ASSUME NEW i \in 1 .. MaxTurns PROVE left[i] = right[i]
  <2>1. CASE i = MaxTurns BY <2>1, <1>1, <1>4, <1>7, MemoryAssumption
  <2>2. CASE i # MaxTurns
    <3>1. i \in 1 .. MaxTurns - 1 /\ i + 1 \in 1 .. MaxTurns BY <2>2, MemoryAssumption
    <3>2. QED BY <3>1, <1>1, <1>4, <1>6, <1>7
  <2>3. QED BY <2>1, <2>2
<1>9. left = right BY <1>4, <1>7, <1>8, SeqEqual
<1>10. QED BY <1>2, <1>4, <1>9 DEF right, tail

LEMMA AddTurnSlides ==
  ASSUME Inv, NEW s \in Session, NEW t \in Turn, AddTurn(s, t)
  PROVE  LET kept == Len(sessions'[s]) - 1
             old == IF now - lastAccess[s] > SessionTtl THEN <<>> ELSE sessions[s]
         IN /\ kept \in {Len(old), MaxTurns - 1}
            /\ sessions'[s] = Append(SubSeq(old, Len(old) - kept + 1, Len(old)), t)
<1> DEFINE old == KeptTurns[s]
           turns == Append(old, t)
<1>1. old = IF now - lastAccess[s] > SessionTtl THEN <<>> ELSE sessions[s]
  BY DEF KeptTurns, Expired, Inv, MemoryOK
<1>2. MemoryOK(KeptTurns, KeptAccess, KeptHeld) BY KeptOK
<1>3. old \in Seq(Turn) /\ Len(old) \in Nat /\ Len(old) <= MaxTurns
  BY <1>2, LenProperties DEF MemoryOK
<1>4. sessions'[s] = IF Overflows(turns) THEN LastTurns(turns) ELSE turns
  BY <1>2 DEF AddTurn, MemoryOK
<1> HIDE DEF old
<1>5. Len(turns) = Len(old) + 1 BY <1>3, AppendProperties
<1>6. CASE Overflows(turns)
  <2>1. Len(old) = MaxTurns BY <1>3, <1>5, <1>6, MemoryAssumption DEF Overflows
  <2>2. Len(sessions'[s]) = MaxTurns
        /\ sessions'[s] = Append(SubSeq(old, 2, MaxTurns), t)
    BY <1>3, <1>4, <1>6, <2>1, CutThenAppend
  <2>3. Len(old) - (MaxTurns - 1) + 1 = 2 BY <2>1, MemoryAssumption
  <2>4. QED BY <1>1, <2>1, <2>2, <2>3
<1>7. CASE ~Overflows(turns)
  <2>1. sessions'[s] = turns /\ Len(sessions'[s]) - 1 = Len(old)
    BY <1>3, <1>4, <1>5, <1>7
  <2>2. SubSeq(old, 1, Len(old)) = old BY <1>3, SubSeqFull
  <2>3. Len(old) - Len(old) + 1 = 1 BY <1>3
  <2>4. QED BY <1>1, <2>1, <2>2, <2>3
<1>8. QED BY <1>6, <1>7

LEMMA SlideStep == Inv => WindowSlid
BY AddTurnSlides DEF WindowSlid

\* The window slides without gaps: what is kept is the end of what there was,
\* followed by the new turn.
THEOREM WindowSlidesHolds == Spec => WindowSlides
<1>1. Inv => [WindowSlid]_memoryVars BY SlideStep
<1>2. QED BY <1>1, InvHolds, PTL DEF Spec, WindowSlides
=============================================================================

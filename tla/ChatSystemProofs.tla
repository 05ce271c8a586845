------------------------------ MODULE ChatSystemProofs ------------------------------
(***************************************************************************)
(* Proofs about QueryOrchestrator and about ChatSystem, which puts the     *)
(* page in front of it.  First the pipeline: types, what the answers and   *)
(* the cache hold, what reaches Claude of a conversation, and that it      *)
(* implements AnswerService.  Then the page: the pipeline behind it is the *)
(* same pipeline, and what it remembers of the current session is on the   *)
(* screen, in the order in which it was asked.                             *)
(***************************************************************************)
EXTENDS ChatSystem, SequenceTheorems, TLAPS

\* What the assumptions say of the absent values and the bounds.
LEMMA Bounds ==
  /\ MaxTurns \in Nat /\ MaxTurns >= 1 /\ CacheTtl \in Nat /\ CacheTtl >= 1
  /\ SessionTtl \in Nat /\ MaxClock \in Nat
BY OrchestratorAssumption

LEMMA AskFields ==
  ASSUME NEW a \in Asks
  PROVE  /\ a.question \in Question /\ a.page \in Page
         /\ a.session \in Session \cup {NoSession}
         /\ a # NoAsk
         /\ KeyOf(a) \in Key
<1>1. a \in Ask BY OrchestratorAssumption
<1>2. Normal[a.question] \in Question BY <1>1, OrchestratorAssumption DEF Ask
<1>3. QED BY <1>1, <1>2, OrchestratorAssumption DEF Ask, KeyOf, Key

-----------------------------------------------------------------------------
(* Types. *)

LEMMA EmptyTurns == <<>> \in Seq(Turn) /\ Len(<<>>) = 0
BY EmptySeq

LEMMA NoHistoryType == Memory!NoHistory \in Memory!Handle
BY EmptyTurns DEF Memory!NoHistory, Memory!Handle

LEMMA KeptTypes ==
  ASSUME TypeOK
  PROVE  /\ Memory!KeptTurns \in [Session -> Seq(Turn)]
         /\ Memory!KeptAccess \in [Session -> Nat \cup {Memory!Never}]
         /\ Memory!KeptHeld \in [Request -> Memory!Handle]
<1>1. Memory!KeptTurns \in [Session -> Seq(Turn)]
  BY EmptyTurns DEF TypeOK, Memory!TypeOK, Memory!KeptTurns
<1>2. Memory!KeptAccess \in [Session -> Nat \cup {Memory!Never}]
  BY DEF TypeOK, Memory!TypeOK, Memory!KeptAccess
<1>3. Memory!KeptHeld \in [Request -> Memory!Handle]
  BY DEF TypeOK, Memory!TypeOK, Memory!KeptHeld, Memory!HeldWithout, Memory!Handle
<1>4. QED BY <1>1, <1>2, <1>3

LEMMA HistoryType ==
  ASSUME TypeOK, NEW a \in Asks
  PROVE  History(a) \in Seq(Turn)
BY KeptTypes, EmptyTurns, AskFields DEF History

LEMMA TouchTypes ==
  ASSUME TypeOK, NEW s \in Session, Memory!Touch(s)
  PROVE  /\ sessions' \in [Session -> Seq(Turn)]
         /\ lastAccess' \in [Session -> Nat \cup {Memory!Never}]
BY KeptTypes DEF TypeOK, Memory!TypeOK, Memory!Touch

LEMMA GetHistoryTypes ==
  ASSUME TypeOK, NEW r \in Request, NEW s \in Session, Memory!GetHistory(r, s)
  PROVE  /\ sessions' \in [Session -> Seq(Turn)]
         /\ lastAccess' \in [Session -> Nat \cup {Memory!Never}]
         /\ held' \in [Request -> Memory!Handle]
<1>1. Memory!HistoryOf(s) \in Memory!Handle
  BY KeptTypes DEF Memory!HistoryOf, Memory!Handle
<1>2. QED BY <1>1, KeptTypes, TouchTypes DEF Memory!GetHistory

\* The list an append makes of a session's turns, and the window kept of it.
LEMMA Window ==
  ASSUME NEW old \in Seq(Turn), Len(old) <= MaxTurns, NEW t \in Turn
  PROVE  LET turns == Append(old, t)
             window == IF Memory!Overflows(turns) THEN Memory!LastTurns(turns) ELSE turns
         IN /\ turns \in Seq(Turn) /\ Len(turns) = Len(old) + 1
            /\ \A i \in 1 .. Len(old) : turns[i] = old[i]
            /\ turns[Len(old) + 1] = t
            /\ window \in Seq(Turn) /\ Len(window) <= MaxTurns
            /\ \E off \in Nat : \A i \in 1 .. Len(window) :
                 i + off \in 1 .. Len(turns) /\ window[i] = turns[i + off]
<1> DEFINE turns == Append(old, t)
           window == IF Memory!Overflows(turns) THEN Memory!LastTurns(turns) ELSE turns
<1>1. Len(old) \in Nat BY LenProperties
<1>2. /\ turns \in Seq(Turn) /\ Len(turns) = Len(old) + 1
      /\ \A i \in 1 .. Len(old) : turns[i] = old[i]
      /\ turns[Len(old) + 1] = t
  BY AppendProperties
<1>3. CASE Memory!Overflows(turns)
  <2>1. Len(turns) = MaxTurns + 1
    BY <1>1, <1>2, <1>3, Bounds DEF Memory!Overflows
  <2>2. \A i \in 2 .. Len(turns) : turns[i] \in Turn
    BY <1>2, <2>1, ElementOfSeq, Bounds
  <2>3. /\ SubSeq(turns, 2, Len(turns)) \in Seq(Turn)
        /\ Len(SubSeq(turns, 2, Len(turns))) = MaxTurns
        /\ \A i \in 1 .. MaxTurns : SubSeq(turns, 2, Len(turns))[i] = turns[i + 1]
    <3> HIDE DEF turns
    <3>1. Len(turns) \in Int /\ 2 <= Len(turns) BY <2>1, Bounds
    <3>2. QED BY <2>1, <2>2, <3>1, SubSeqProperties, Bounds
  <2>4. window = SubSeq(turns, 2, Len(turns))
    BY <1>3, <2>1, Bounds DEF Memory!LastTurns
  <2>5. \A i \in 1 .. MaxTurns : i + 1 \in 1 .. Len(turns)
    BY <2>1, Bounds
  <2> HIDE DEF turns, window
  <2>6. 1 \in Nat /\ \A i \in 1 .. Len(window) : i + 1 \in 1 .. Len(turns) /\ window[i] = turns[i + 1]
    BY <2>3, <2>4, <2>5
  <2>7. Len(window) <= MaxTurns /\ window \in Seq(Turn)
    BY <2>3, <2>4, Bounds
  <2>8. QED BY <1>2, <2>6, <2>7 DEF turns, window
<1>4. CASE ~Memory!Overflows(turns)
  <2>1. Len(turns) <= MaxTurns BY <1>1, <1>2, <1>4, Bounds DEF Memory!Overflows
  <2>2. window = turns BY <1>4
  <2> HIDE DEF turns, window
  <2>3. 0 \in Nat /\ \A i \in 1 .. Len(window) : i + 0 \in 1 .. Len(turns) /\ window[i] = turns[i + 0]
    BY <2>2
  <2>4. QED BY <1>2, <2>1, <2>2, <2>3 DEF turns, window
<1>5. QED BY <1>3, <1>4

-----------------------------------------------------------------------------
(***************************************************************************)
(* The inductive invariant.                                                *)
(***************************************************************************)

\* Where a handler is says what it has got so far.
Phases == \A r \in Request :
  /\ pc[r] = "idle" <=> arg[r] = NoAsk
  /\ pc[r] # "done" <=> outcome[r] = "none"
  /\ outcome[r] = "answered" <=> body[r] # NoBody
  /\ pc[r] \in {"executing", "commentary"} => sql[r] \in Sql /\ sql[r].author = r

Bodies == \A r \in Answered :
  /\ <<Normal[body[r].question], body[r].page>> = KeyOf(arg[r])
  /\ body[r].query_id = r

\* An entry is the answer its author was given, dated as it was.
EntryOK(k, e) ==
  LET d == e.value.sql.author
  IN /\ <<Normal[e.value.question], e.value.page>> = k
     /\ d \in Answered
     /\ KeyOf(arg[d]) = k
     /\ sql[d] = e.value.sql /\ body[d].sql = e.value.sql /\ body[d].ready = e.value.ready
     /\ e.expires = e.value.ready + CacheTtl

Stored == \A k \in Key : store[k] # NoEntry => EntryOK(k, store[k])

\* A turn is what its author asked on page 1 of session s and was answered with.
TurnOK(t, s) ==
  LET d == t.sql.author
  IN /\ d \in Answered /\ body[d].sql = t.sql
     /\ arg[d].session = s /\ arg[d].page \in FirstPage /\ arg[d].question = t.question

AllOK(turns, s) == \A i \in 1 .. Len(turns) : TurnOK(turns[i], s)

OnceEach(turns) ==
  \A i, j \in 1 .. Len(turns) : turns[i].sql.author = turns[j].sql.author => i = j

Remembered == \A s \in Session :
  /\ Len(sessions[s]) <= MaxTurns
  /\ AllOK(sessions[s], s)
  /\ OnceEach(sessions[s])

\* What a handler of session s may have read of a conversation.
Reads(turns, s) ==
  /\ Len(turns) <= MaxTurns + 1
  /\ AllOK(turns, s)
  /\ turns # <<>> => s \in Session

\* Only a handler that waits for the schema holds a list, of its own session.
LentOK(r, h) ==
  /\ pc[r] # "schema" => h = Memory!NoHistory
  /\ h.of \in Session => h.of = arg[r].session
  /\ Reads(h.turns, arg[r].session)

Lent == \A r \in Request : LentOK(r, held[r])

PromptOK(r, turns) ==
  /\ pc[r] \in {"idle", "schema"} => turns = <<>>
  /\ Reads(turns, arg[r].session)

Prompted == \A r \in Request : PromptOK(r, prompt[r])

IInv == TypeOK /\ Phases /\ Bodies /\ Stored /\ Remembered /\ Lent /\ Prompted

LEMMA InitIInv == Init => IInv
<1> SUFFICES ASSUME Init PROVE IInv
  OBVIOUS
<1> USE DEF Init, Cache!CacheInit, Memory!MemoryInit
<1>1. TypeOK
  BY EmptyTurns, NoHistoryType
     DEF TypeOK, Cache!TypeOK, Memory!TypeOK, Location, Outcome, Memory!Never
<1>2. Phases /\ Bodies
  BY DEF Phases, Bodies, Answered
<1>3. Stored BY DEF Stored
<1>4. Remembered
  BY EmptyTurns, Bounds DEF Remembered, AllOK, OnceEach
<1>5. Lent
  BY EmptyTurns, Bounds, OrchestratorAssumption
     DEF Lent, LentOK, Reads, AllOK, Memory!NoHistory
<1>6. Prompted
  BY EmptyTurns, Bounds DEF Prompted, PromptOK, Reads, AllOK
<1>7. QED BY <1>1, <1>2, <1>3, <1>4, <1>5, <1>6 DEF IInv

-----------------------------------------------------------------------------
(***************************************************************************)
(* What no step changes: the body of a request that was sent, and the      *)
(* outcome of one that ended.                                              *)
(***************************************************************************)
Settled == \A d \in Request :
  /\ pc[d] # "idle" => arg'[d] = arg[d]
  /\ pc[d] = "done" => /\ pc'[d] = "done" /\ outcome'[d] = outcome[d]
                       /\ body'[d] = body[d] /\ sql'[d] = sql[d]

LEMMA StepSettled == TypeOK /\ Next => Settled
<1> SUFFICES ASSUME TypeOK, Next PROVE Settled
  OBVIOUS
<1> USE DEF Fails, Delivers, Ends, replyVars
<1>1. ASSUME NEW r \in Request, NEW a \in Asks, AskHit(r, a) PROVE Settled
  BY <1>1 DEF AskHit, Settled, TypeOK
<1>2. ASSUME NEW r \in Request, NEW a \in Asks, AskWarm(r, a) PROVE Settled
  BY <1>2 DEF AskWarm, BuildPrompt, Settled, TypeOK
<1>3. ASSUME NEW r \in Request, NEW a \in Asks, AskCold(r, a) PROVE Settled
  BY <1>3 DEF AskCold, Settled, TypeOK
<1>4. ASSUME NEW r \in Request, SchemaReady(r) PROVE Settled
  BY <1>4 DEF SchemaReady, BuildPrompt, Settled, TypeOK
<1>5. ASSUME NEW r \in Request, SchemaFails(r) PROVE Settled
  BY <1>5 DEF SchemaFails, Settled, TypeOK
<1>6. ASSUME NEW r \in Request, SqlAccepted(r) PROVE Settled
  BY <1>6 DEF SqlAccepted, Settled, TypeOK
<1>7. ASSUME NEW r \in Request, SqlRefused(r) \/ QueryFails(r) PROVE Settled
  BY <1>7 DEF SqlRefused, QueryFails, Settled, TypeOK
<1>8. ASSUME NEW r \in Request, QueryCompletes(r) \/ InsightReady(r) PROVE Settled
  <2>1. PICK commentary : Complete(r, commentary) /\ pc[r] \in {"executing", "commentary"}
    BY <1>8 DEF QueryCompletes, InsightReady
  <2>2. QED BY <2>1 DEF Complete, Settled, TypeOK
<1>9. ASSUME NEW r \in Request, QueryNeedsInsight(r) PROVE Settled
  BY <1>9 DEF QueryNeedsInsight, Settled, TypeOK
<1>10. CASE SchemaChanges \/ TimePasses
  BY <1>10 DEF SchemaChanges, TimePasses, Settled
<1>11. QED BY <1>1, <1>2, <1>3, <1>4, <1>5, <1>6, <1>7, <1>8, <1>9, <1>10
           DEF Next, Arrives, Proceeds

\* So what is known of an entry or of a turn stays true.
LEMMA EntryStays ==
  ASSUME TypeOK, Phases, Settled, NEW k \in Key, NEW e \in Cache!Entry, EntryOK(k, e)
  PROVE  EntryOK(k, e)'
<1> DEFINE d == e.value.sql.author
<1>1. d \in Request BY DEF Cache!Entry, Response, Sql
<1>2. pc[d] = "done" BY <1>1 DEF EntryOK, Answered, Phases, TypeOK
<1>3. /\ arg'[d] = arg[d] /\ outcome'[d] = outcome[d]
      /\ body'[d] = body[d] /\ sql'[d] = sql[d]
  BY <1>1, <1>2 DEF Settled
<1>4. QED BY <1>1, <1>3 DEF EntryOK, Answered

LEMMA TurnStays ==
  ASSUME TypeOK, Phases, Settled, NEW s, NEW t \in Turn, TurnOK(t, s)
  PROVE  TurnOK(t, s)'
<1> DEFINE d == t.sql.author
<1>1. d \in Request BY DEF Turn, Sql
<1>2. pc[d] = "done" BY <1>1 DEF TurnOK, Answered, Phases, TypeOK
<1>3. arg'[d] = arg[d] /\ outcome'[d] = outcome[d] /\ body'[d] = body[d]
  BY <1>1, <1>2 DEF Settled
<1>4. QED BY <1>1, <1>3 DEF TurnOK, Answered

LEMMA AllStay ==
  ASSUME TypeOK, Phases, Settled, NEW s, NEW turns \in Seq(Turn), AllOK(turns, s)
  PROVE  AllOK(turns, s)'
BY TurnStays, ElementOfSeq DEF AllOK

-----------------------------------------------------------------------------
(***************************************************************************)
(* The cache: what an entry becomes, and that all entries stay in order.   *)
(***************************************************************************)
LEMMA Sent ==
  ASSUME TypeOK, Phases, NEW r \in Request, pc[r] # "idle"
  PROVE  arg[r] \in Asks
BY DEF TypeOK, Phases

LEMMA RoomEntries ==
  ASSUME TypeOK, NEW room \in Cache!Room
  PROVE  /\ room \in [Key -> Cache!Entry \cup {NoEntry}]
         /\ \A k \in Key : room[k] # NoEntry => room[k] = store[k]
BY DEF TypeOK, Cache!TypeOK, Cache!Room, Cache!EarliestToExpire, Cache!Held

LEMMA SetEntries ==
  ASSUME TypeOK, NEW k \in Key, NEW v \in Response, Cache!Set(k, v)
  PROVE  /\ store' \in [Key -> Cache!Entry \cup {NoEntry}]
         /\ store'[k] = [value |-> v, expires |-> now + CacheTtl]
         /\ \A j \in Key : j # k /\ store'[j] # NoEntry => store'[j] = store[j]
<1>1. PICK room \in Cache!Room :
        store' = [room EXCEPT ![k] = [value |-> v, expires |-> now + CacheTtl]]
  BY DEF Cache!Set
<1>2. [value |-> v, expires |-> now + CacheTtl] \in Cache!Entry
  BY Bounds DEF TypeOK, Cache!TypeOK, Cache!Entry
<1>3. QED BY <1>1, <1>2, RoomEntries

LEMMA MissEntries ==
  ASSUME TypeOK, NEW k \in Key, Cache!GetMiss(k)
  PROVE  /\ store' \in [Key -> Cache!Entry \cup {NoEntry}]
         /\ \A j \in Key : store'[j] # NoEntry => store'[j] = store[j]
BY DEF TypeOK, Cache!TypeOK, Cache!GetMiss

LEMMA HitEntry ==
  ASSUME TypeOK, NEW k \in Key, Cache!Hit(k), NEW r \in Request
  PROVE  /\ store[k] \in Cache!Entry
         /\ Restamp(store[k].value, r) \in Response
         /\ now <= store[k].expires
<1>1. store[k] \in Cache!Entry
  BY DEF TypeOK, Cache!TypeOK, Cache!Hit, Cache!Held
<1>2. store[k].value \in Response /\ store[k].expires \in Nat
  BY <1>1 DEF Cache!Entry
<1>3. Restamp(store[k].value, r) \in Response
  BY <1>2 DEF Restamp, Response
<1>4. now <= store[k].expires
  BY <1>2 DEF Cache!Hit, Cache!Expired, TypeOK, Cache!TypeOK
<1>5. QED BY <1>1, <1>3, <1>4

\* The answer that Complete builds.
AnswerOf(r, commentary) ==
  [query_id |-> r, question |-> arg[r].question, page |-> arg[r].page, sql |-> sql[r],
   commentary |-> commentary, ready |-> now]

LEMMA AnswerType ==
  ASSUME TypeOK, Phases, NEW r \in Request, pc[r] \in {"executing", "commentary"},
         NEW commentary \in Commentary
  PROVE  AnswerOf(r, commentary) \in Response
<1>1. arg[r] \in Asks BY Sent
<1>2. QED BY <1>1, AskFields DEF Phases, AnswerOf, Response, TypeOK, Cache!TypeOK

\* What a completing handler does, in one place.
LEMMA Completes ==
  ASSUME TypeOK, NEW r \in Request, QueryCompletes(r) \/ InsightReady(r)
  PROVE  \E commentary \in Commentary :
           /\ pc[r] \in {"executing", "commentary"}
           /\ Complete(r, commentary)
BY DEF QueryCompletes, InsightReady, Commentary

\* Every step that is not a hit or a completion leaves entries alone or drops them.
Dwindles == /\ store' \in [Key -> Cache!Entry \cup {NoEntry}]
            /\ \A j \in Key : store'[j] # NoEntry => store'[j] = store[j]

LEMMA OtherStepsDwindle ==
  ASSUME TypeOK, Phases, NEW r \in Request,
         \/ \E a \in Asks : AskWarm(r, a) \/ AskCold(r, a)
         \/ SchemaReady(r) \/ SchemaFails(r) \/ SqlAccepted(r) \/ SqlRefused(r)
         \/ QueryFails(r) \/ QueryNeedsInsight(r)
  PROVE  Dwindles
<1>1. ASSUME NEW a \in Asks, AskWarm(r, a) \/ AskCold(r, a) PROVE Dwindles
  <2>1. KeyOf(a) \in Key BY AskFields
  <2>2. QED BY <1>1, <2>1, MissEntries DEF AskWarm, AskCold, Dwindles
<1>2. ASSUME UNCHANGED store PROVE Dwindles
  BY <1>2 DEF Dwindles, TypeOK, Cache!TypeOK
<1>3. QED BY <1>1, <1>2 DEF SchemaReady, SchemaFails, SqlAccepted, SqlRefused, QueryFails,
                            QueryNeedsInsight

\* An entry that a step keeps, but for its query_id and commentary, stays in order.
LEMMA EntryKept ==
  ASSUME TypeOK, Phases, Settled, Stored, NEW k \in Key, store[k] # NoEntry,
         store'[k].expires = store[k].expires,
         store'[k].value.question = store[k].value.question,
         store'[k].value.page = store[k].value.page,
         store'[k].value.sql = store[k].value.sql,
         store'[k].value.ready = store[k].value.ready
  PROVE  EntryOK(k, store[k])'
<1>1. PICK e \in Cache!Entry : e = store[k]
  BY DEF TypeOK, Cache!TypeOK
<1>2. EntryOK(k, e) BY <1>1 DEF Stored
<1>3. EntryOK(k, e)' BY <1>2, EntryStays
<1>4. QED BY <1>1, <1>3 DEF EntryOK

LEMMA StoredStep ==
  ASSUME TypeOK, Phases, Bodies, Stored, Next
  PROVE  Stored' /\ store' \in [Key -> Cache!Entry \cup {NoEntry}]
<1>0. Settled BY StepSettled
<1>1. ASSUME Dwindles PROVE Stored' /\ store' \in [Key -> Cache!Entry \cup {NoEntry}]
  <2>1. ASSUME NEW k \in Key, store'[k] # NoEntry PROVE EntryOK(k, store[k])'
    <3>1. store'[k] = store[k] BY <1>1, <2>1 DEF Dwindles
    <3>2. QED BY <1>0, <2>1, <3>1, EntryKept
  <2>2. QED BY <1>1, <2>1 DEF Stored, Dwindles
<1>2. ASSUME NEW r \in Request, NEW a \in Asks, AskHit(r, a)
      PROVE  Stored' /\ store' \in [Key -> Cache!Entry \cup {NoEntry}]
  <2> DEFINE key == KeyOf(a)
             answer == Restamp(store[key].value, r)
  <2>1. key \in Key BY AskFields
  <2>2. Cache!Hit(key) /\ store' = [store EXCEPT ![key].value = answer]
    BY <1>2 DEF AskHit
  <2>3. store[key] \in Cache!Entry /\ answer \in Response
    BY <2>1, <2>2, HitEntry
  <2>4. store[key] # NoEntry BY <2>3, EntryAssumption
  <2>5. store' \in [Key -> Cache!Entry \cup {NoEntry}]
    BY <2>1, <2>2, <2>3 DEF TypeOK, Cache!TypeOK, Cache!Entry
  <2>6. ASSUME NEW k \in Key, store'[k] # NoEntry PROVE EntryOK(k, store[k])'
    <3>1. store[k] # NoEntry /\ store[k] \in Cache!Entry
      BY <2>1, <2>2, <2>3, <2>4, <2>6 DEF TypeOK, Cache!TypeOK
    <3>2. /\ store'[k].expires = store[k].expires
          /\ store'[k].value.question = store[k].value.question
          /\ store'[k].value.page = store[k].value.page
          /\ store'[k].value.sql = store[k].value.sql
          /\ store'[k].value.ready = store[k].value.ready
      BY <2>1, <2>2, <2>3, <3>1 DEF TypeOK, Cache!TypeOK, Cache!Entry, Response, Restamp
    <3>3. QED BY <1>0, <3>1, <3>2, EntryKept
  <2>7. QED BY <2>5, <2>6 DEF Stored
<1>3. ASSUME NEW r \in Request, QueryCompletes(r) \/ InsightReady(r)
      PROVE  Stored' /\ store' \in [Key -> Cache!Entry \cup {NoEntry}]
  <2>1. PICK commentary \in Commentary :
          pc[r] \in {"executing", "commentary"} /\ Complete(r, commentary)
    BY <1>3, Completes
  <2> DEFINE answer == AnswerOf(r, commentary)
             key == KeyOf(arg[r])
  <2>2. arg[r] \in Asks /\ key \in Key BY <2>1, Sent, AskFields
  <2>3. answer \in Response BY <2>1, AnswerType
  <2>4. Cache!Set(key, answer) BY <2>1 DEF Complete, AnswerOf
  <2>5. /\ store' \in [Key -> Cache!Entry \cup {NoEntry}]
        /\ store'[key] = [value |-> answer, expires |-> now + CacheTtl]
        /\ \A j \in Key : j # key /\ store'[j] # NoEntry => store'[j] = store[j]
    BY <2>2, <2>3, <2>4, SetEntries
  <2>6. /\ body'[r] = answer /\ outcome'[r] = "answered" /\ sql' = sql /\ arg' = arg
    BY <2>1 DEF Complete, Delivers, Ends, TypeOK, AnswerOf
  <2>7. sql[r].author = r BY <2>1 DEF Phases
  <2>8. ASSUME NEW k \in Key, store'[k] # NoEntry PROVE EntryOK(k, store[k])'
    <3>1. CASE k = key
      <4>1. /\ answer.question = arg[r].question /\ answer.page = arg[r].page
            /\ answer.sql = sql[r] /\ answer.ready = now
        BY DEF AnswerOf
      <4>2. store'[k].value = answer /\ store'[k].expires = now + CacheTtl
        BY <2>5, <3>1
      <4>3. /\ store'[k].value.sql.author = r
            /\ store'[k].value.sql = sql'[r] /\ body'[r].sql = sql'[r] /\ body'[r].ready = now
            /\ store'[k].value.ready = now
            /\ store'[k].value.question = arg[r].question /\ store'[k].value.page = arg[r].page
        BY <4>1, <4>2, <2>6, <2>7
      <4>4. KeyOf(arg[r])' = k BY <2>6, <3>1 DEF KeyOf
      <4>5. <<Normal[arg[r].question], arg[r].page>> = k BY <3>1 DEF KeyOf
      <4>6. QED BY <4>2, <4>3, <4>4, <4>5, <2>6 DEF EntryOK, Answered
    <3>2. CASE k # key
      <4>1. store'[k] = store[k] BY <2>5, <2>8, <3>2
      <4>2. QED BY <1>0, <2>8, <4>1, EntryKept
    <3>3. QED BY <3>1, <3>2
  <2>9. QED BY <2>5, <2>8 DEF Stored
<1>4. CASE SchemaChanges \/ TimePasses
  <2>1. Dwindles
    BY <1>4 DEF SchemaChanges, TimePasses, Dwindles, TypeOK, Cache!TypeOK
  <2>2. QED BY <1>1, <2>1
<1>5. QED BY <1>1, <1>2, <1>3, <1>4, OtherStepsDwindle DEF Next, Arrives, Proceeds

-----------------------------------------------------------------------------
(***************************************************************************)
(* Where the handlers are, and what the answers say.                       *)
(***************************************************************************)
LEMMA BaseType ==
  ASSUME TypeOK, NEW r \in Request
  PROVE  BaseOf(r) \in Request \cup {NoBase}
<1>1. prompt[r] \in Seq(Turn) BY DEF TypeOK
<1>2. CASE prompt[r] # <<>>
  <2>1. Len(prompt[r]) \in 1 .. Len(prompt[r]) BY <1>1, <1>2, EmptySeq
  <2>2. prompt[r][Len(prompt[r])] \in Turn BY <1>1, <2>1, ElementOfSeq
  <2>3. QED BY <2>2 DEF BaseOf, Turn, Sql
<1>3. CASE prompt[r] = <<>> BY <1>3 DEF BaseOf
<1>4. QED BY <1>2, <1>3

\* A hit is for the question and the page of the request, and is an entry whose
\* author was given the same answer.
LEMMA HitAnswer ==
  ASSUME TypeOK, Stored, NEW r \in Request, NEW a \in Asks, Cache!Hit(KeyOf(a)),
         NEW answer, answer = Restamp(store[KeyOf(a)].value, r)
  PROVE  /\ answer \in Response
         /\ <<Normal[answer.question], answer.page>> = KeyOf(a)
         /\ answer.query_id = r
         /\ answer.sql.author \in Answered
         /\ body[answer.sql.author].sql = answer.sql
         /\ body[answer.sql.author].ready = answer.ready
         /\ KeyOf(arg[answer.sql.author]) = KeyOf(a)
         /\ now <= answer.ready + CacheTtl
<1>1. KeyOf(a) \in Key BY AskFields
<1>2. /\ store[KeyOf(a)] \in Cache!Entry /\ answer \in Response
      /\ now <= store[KeyOf(a)].expires
  BY <1>1, HitEntry
<1>3. EntryOK(KeyOf(a), store[KeyOf(a)])
  BY <1>1, <1>2, EntryAssumption DEF Stored
<1>4. /\ answer.question = store[KeyOf(a)].value.question
      /\ answer.page = store[KeyOf(a)].value.page
      /\ answer.sql = store[KeyOf(a)].value.sql
      /\ answer.ready = store[KeyOf(a)].value.ready
      /\ answer.query_id = r
  BY <1>2 DEF Restamp, Cache!Entry, Response
<1>5. QED BY <1>2, <1>3, <1>4 DEF EntryOK

\* The body of whoever was answered is left alone by a step that answers nobody.
LEMMA BodiesStay ==
  ASSUME TypeOK, Phases, Bodies, Settled,
         \A d \in Request : outcome'[d] = "answered" => outcome[d] = "answered"
  PROVE  Bodies'
<1>1. ASSUME NEW d \in Request, outcome'[d] = "answered"
      PROVE  d \in Answered /\ arg'[d] = arg[d] /\ body'[d] = body[d]
  BY <1>1 DEF Answered, Phases, Settled, TypeOK
<1>2. QED BY <1>1 DEF Bodies, Answered, KeyOf

LEMMA PhasesStep ==
  ASSUME TypeOK, Phases, Bodies, Stored, Next
  PROVE  Phases' /\ Bodies'
<1> USE DEF Fails, Delivers, Ends, replyVars
<1>0. Settled BY StepSettled
<1>1. ASSUME NEW r \in Request, NEW a \in Asks, AskHit(r, a) PROVE Phases' /\ Bodies'
  <2>1. PICK answer : answer = Restamp(store[KeyOf(a)].value, r) OBVIOUS
  <2>2. /\ answer \in Response /\ answer # NoBody /\ answer.query_id = r
        /\ <<Normal[answer.question], answer.page>> = KeyOf(a)
    BY <1>1, <2>1, HitAnswer, OrchestratorAssumption DEF AskHit
  <2>3. /\ pc[r] = "idle" /\ pc' = [pc EXCEPT ![r] = "done"] /\ arg' = [arg EXCEPT ![r] = a]
        /\ outcome' = [outcome EXCEPT ![r] = "answered"] /\ body' = [body EXCEPT ![r] = answer]
        /\ sql' = sql
    BY <1>1, <2>1 DEF AskHit
  <2>4. a # NoAsk BY AskFields
  <2>5. Phases' BY <2>2, <2>3, <2>4 DEF Phases, TypeOK
  <2>6. Bodies' BY <2>2, <2>3 DEF Bodies, Answered, TypeOK, KeyOf
  <2>7. QED BY <2>5, <2>6
<1>2. ASSUME NEW r \in Request, NEW a \in Asks, AskWarm(r, a) \/ AskCold(r, a)
      PROVE  Phases' /\ Bodies'
  <2>1. a # NoAsk BY AskFields
  <2>2. /\ pc[r] = "idle" /\ arg' = [arg EXCEPT ![r] = a] /\ sql' = sql /\ body' = body
        /\ \/ pc' = [pc EXCEPT ![r] = "done"] /\ outcome' = [outcome EXCEPT ![r] = "prompt_failed"]
           \/ pc' = [pc EXCEPT ![r] = "nl2sql"] /\ outcome' = outcome
           \/ pc' = [pc EXCEPT ![r] = "schema"] /\ outcome' = outcome
    BY <1>2 DEF AskWarm, AskCold, BuildPrompt
  <2>3. Phases' BY <2>1, <2>2 DEF Phases, TypeOK
  <2>4. Bodies' BY <1>0, <2>2, BodiesStay DEF TypeOK
  <2>5. QED BY <2>3, <2>4
<1>3. ASSUME NEW r \in Request, SchemaReady(r) \/ SchemaFails(r) PROVE Phases' /\ Bodies'
  <2>1. /\ pc[r] = "schema" /\ arg' = arg /\ sql' = sql /\ body' = body
        /\ \/ /\ pc' = [pc EXCEPT ![r] = "done"]
              /\ \E o \in {"prompt_failed", "schema_failed"} : outcome' = [outcome EXCEPT ![r] = o]
           \/ pc' = [pc EXCEPT ![r] = "nl2sql"] /\ outcome' = outcome
    BY <1>3 DEF SchemaReady, SchemaFails, BuildPrompt
  <2>2. Phases' BY <2>1 DEF Phases, TypeOK
  <2>3. Bodies' BY <1>0, <2>1, BodiesStay DEF TypeOK
  <2>4. QED BY <2>2, <2>3
<1>4. ASSUME NEW r \in Request, SqlAccepted(r) PROVE Phases' /\ Bodies'
  <2>1. PICK short \in BOOLEAN :
          sql' = [sql EXCEPT ![r] = [author |-> r, base |-> BaseOf(r), short |-> short]]
    BY <1>4 DEF SqlAccepted
  <2>2. [author |-> r, base |-> BaseOf(r), short |-> short] \in Sql
    BY BaseType DEF Sql
  <2>3. sql'[r] \in Sql /\ sql'[r].author = r /\ \A d \in Request : d # r => sql'[d] = sql[d]
    BY <2>1, <2>2 DEF TypeOK
  <2>4. QED BY <1>4, <2>3 DEF SqlAccepted, Phases, Bodies, Answered, TypeOK, KeyOf
<1>5. ASSUME NEW r \in Request, SqlRefused(r) \/ QueryFails(r) PROVE Phases' /\ Bodies'
  <2>1. /\ pc[r] \in {"nl2sql", "executing"} /\ pc' = [pc EXCEPT ![r] = "done"]
        /\ arg' = arg /\ sql' = sql /\ body' = body
    BY <1>5 DEF SqlRefused, QueryFails
  <2>2. PICK o \in Failure \cup {"out_of_scope"} : outcome' = [outcome EXCEPT ![r] = o]
    BY <1>5 DEF SqlRefused, QueryFails, Failure
  <2>3. o # "answered" /\ o # "none" BY DEF Failure
  <2>4. Phases' BY <2>1, <2>2, <2>3 DEF Phases, TypeOK
  <2>5. Bodies' BY <1>0, <2>2, <2>3, BodiesStay DEF TypeOK
  <2>6. QED BY <2>4, <2>5
<1>6. ASSUME NEW r \in Request, QueryNeedsInsight(r) PROVE Phases' /\ Bodies'
  <2>1. /\ pc[r] = "executing" /\ pc' = [pc EXCEPT ![r] = "commentary"]
        /\ arg' = arg /\ sql' = sql /\ body' = body /\ outcome' = outcome
    BY <1>6 DEF QueryNeedsInsight
  <2>2. Phases' BY <2>1 DEF Phases, TypeOK
  <2>3. Bodies' BY <1>0, <2>1, BodiesStay
  <2>4. QED BY <2>2, <2>3
<1>7. ASSUME NEW r \in Request, QueryCompletes(r) \/ InsightReady(r) PROVE Phases' /\ Bodies'
  <2>1. PICK commentary \in Commentary :
          pc[r] \in {"executing", "commentary"} /\ Complete(r, commentary)
    BY <1>7, Completes
  <2>2. PICK answer : answer = AnswerOf(r, commentary) OBVIOUS
  <2>3. answer \in Response /\ answer # NoBody
    BY <2>1, <2>2, AnswerType, OrchestratorAssumption
  <2>4. /\ pc' = [pc EXCEPT ![r] = "done"] /\ arg' = arg /\ sql' = sql
        /\ outcome' = [outcome EXCEPT ![r] = "answered"] /\ body' = [body EXCEPT ![r] = answer]
    BY <2>1, <2>2 DEF Complete, AnswerOf
  <2>5. /\ <<Normal[answer.question], answer.page>> = KeyOf(arg[r]) /\ answer.query_id = r
    BY <2>2 DEF AnswerOf, KeyOf
  <2>6. Phases' BY <2>1, <2>3, <2>4 DEF Phases, TypeOK
  <2>7. Bodies' BY <2>4, <2>5 DEF Bodies, Answered, TypeOK, KeyOf
  <2>8. QED BY <2>6, <2>7
<1>8. CASE SchemaChanges \/ TimePasses
  BY <1>8 DEF SchemaChanges, TimePasses, Phases, Bodies, Answered, KeyOf
<1>9. QED BY <1>1, <1>2, <1>3, <1>4, <1>5, <1>6, <1>7, <1>8 DEF Next, Arrives, Proceeds

-----------------------------------------------------------------------------
(***************************************************************************)
(* What is known of earlier turns: in the dictionary, in the lists handed  *)
(* out and in the prompts.                                                 *)
(***************************************************************************)
LEMMA ReadsEmpty ==
  ASSUME NEW s
  PROVE  Reads(<<>>, s) /\ Reads(<<>>, s)'
BY EmptyTurns, Bounds DEF Reads, AllOK

LEMMA ReadsStay ==
  ASSUME TypeOK, Phases, Settled, NEW s, NEW turns \in Seq(Turn), Reads(turns, s)
  PROVE  Reads(turns, s)'
BY AllStay DEF Reads

LEMMA LentNothing ==
  ASSUME NEW d \in Request
  PROVE  LentOK(d, Memory!NoHistory)'
<1>1. PICK s : s = arg'[d].session OBVIOUS
<1>2. Reads(<<>>, s)' BY ReadsEmpty
<1>3. QED BY <1>1, <1>2, OrchestratorAssumption DEF LentOK, Memory!NoHistory, Reads, AllOK, TurnOK, Answered

LEMMA LentStays ==
  ASSUME TypeOK, Phases, Settled, NEW d \in Request, pc'[d] = pc[d], arg'[d] = arg[d],
         NEW h \in Memory!Handle, LentOK(d, h)
  PROVE  LentOK(d, h)'
<1>1. PICK s : s = arg[d].session OBVIOUS
<1>2. h.turns \in Seq(Turn) BY DEF Memory!Handle
<1>3. Reads(h.turns, s) BY <1>1 DEF LentOK
<1>4. Reads(h.turns, s)' BY <1>2, <1>3, ReadsStay
<1>5. QED BY <1>1, <1>4 DEF LentOK, Reads, AllOK, TurnOK, Answered

\* Evicting sessions cuts lists loose but leaves what is in them.
LEMMA KeptLent ==
  ASSUME TypeOK, Lent, NEW d \in Request
  PROVE  /\ LentOK(d, Memory!KeptHeld[d]) /\ Memory!KeptHeld[d] \in Memory!Handle
         /\ Memory!KeptHeld[d].turns = held[d].turns
         /\ Memory!KeptHeld[d].of \in Session => pc[d] = "schema"
<1>1. held[d] \in Memory!Handle /\ LentOK(d, held[d])
  BY DEF TypeOK, Memory!TypeOK, Lent
<1>2. \/ Memory!KeptHeld[d] = held[d]
      \/ held[d].of \in Session /\ Memory!KeptHeld[d] = [held[d] EXCEPT !.of = Detached]
  BY DEF Memory!KeptHeld, Memory!HeldWithout, Memory!Expired
<1>3. Memory!NoHistory.of \notin Session
  BY OrchestratorAssumption DEF Memory!NoHistory
<1>4. QED BY <1>1, <1>2, <1>3, OrchestratorAssumption DEF Memory!Handle, LentOK

LEMMA LentToMost ==
  ASSUME TypeOK, Phases, Settled, Lent, held' \in {held, Memory!KeptHeld},
         \A d \in Request : pc[d] = "schema" => pc'[d] = pc[d] /\ arg'[d] = arg[d]
  PROVE  Lent'
<1>1. SUFFICES ASSUME NEW d \in Request PROVE LentOK(d, held[d])'
  BY DEF Lent
<1>2. PICK h : h = held'[d] OBVIOUS
<1>3. h \in Memory!Handle /\ LentOK(d, h)
  BY <1>2, KeptLent DEF Lent, TypeOK, Memory!TypeOK
<1>4. CASE pc[d] = "schema"
  <2>1. LentOK(d, h)' BY <1>3, <1>4, LentStays
  <2>2. QED BY <1>2, <2>1 DEF LentOK, Reads, AllOK, TurnOK, Answered
<1>5. CASE pc[d] # "schema"
  <2>1. h = Memory!NoHistory BY <1>3, <1>5 DEF LentOK
  <2>2. LentOK(d, h)' BY <2>1, LentNothing DEF Memory!NoHistory
  <2>3. QED BY <1>2, <2>2 DEF LentOK, Reads, AllOK, TurnOK, Answered
<1>6. QED BY <1>4, <1>5

\* What a session is remembered to have said, when it may just have expired.
LEMMA KeptReads ==
  ASSUME TypeOK, Phases, Settled, Remembered, NEW s \in Session
  PROVE  \E turns \in Seq(Turn) :
           /\ turns = Memory!KeptTurns[s]
           /\ Len(turns) <= MaxTurns /\ OnceEach(turns)
           /\ AllOK(turns, s) /\ AllOK(turns, s)'
           /\ Reads(turns, s)'
<1>1. PICK turns \in Seq(Turn) : turns = Memory!KeptTurns[s]
  BY KeptTypes
<1>2. turns = <<>> \/ turns = sessions[s]
  BY <1>1 DEF Memory!KeptTurns
<1>3. Len(turns) <= MaxTurns /\ OnceEach(turns) /\ AllOK(turns, s)
  BY <1>2, EmptyTurns, Bounds DEF Remembered, OnceEach, AllOK
<1>4. AllOK(turns, s)' BY <1>3, AllStay
<1>5. Len(turns) <= MaxTurns + 1 BY <1>3, Bounds, LenProperties
<1>6. Reads(turns, s)' BY <1>4, <1>5 DEF Reads
<1>7. QED BY <1>1, <1>3, <1>4, <1>6

LEMMA RememberedStays ==
  ASSUME TypeOK, Phases, Settled, Remembered, sessions' \in {sessions, Memory!KeptTurns}
  PROVE  Remembered'
<1>1. SUFFICES ASSUME NEW s \in Session
               PROVE  Len(sessions'[s]) <= MaxTurns /\ AllOK(sessions[s], s)' /\ OnceEach(sessions[s])'
  BY DEF Remembered
<1>2. PICK turns : turns = sessions'[s] OBVIOUS
<1>3. turns \in Seq(Turn) /\ (turns = sessions[s] \/ turns = <<>>)
  BY <1>2, KeptTypes DEF TypeOK, Memory!TypeOK, Memory!KeptTurns
<1>4. Len(turns) <= MaxTurns /\ OnceEach(turns) /\ AllOK(turns, s)
  BY <1>3, EmptyTurns, Bounds DEF Remembered, OnceEach, AllOK
<1>5. AllOK(turns, s)' BY <1>3, <1>4, AllStay
<1>6. QED BY <1>2, <1>4, <1>5 DEF AllOK, OnceEach, TurnOK, Answered

LEMMA PromptKept ==
  ASSUME TypeOK, Phases, Settled, NEW d \in Request, NEW p \in Seq(Turn), PromptOK(d, p),
         pc'[d] \in {"idle", "schema"} => pc[d] \in {"idle", "schema"}
  PROVE  PromptOK(d, p)'
<1>1. PICK s : s = arg'[d].session OBVIOUS
<1>2. CASE pc[d] = "idle"
  <2>1. p = <<>> BY <1>2 DEF PromptOK
  <2>2. Reads(p, s)' BY <2>1, ReadsEmpty
  <2>3. QED BY <1>1, <2>1, <2>2 DEF PromptOK, Reads, AllOK, TurnOK, Answered
<1>3. CASE pc[d] # "idle"
  <2>1. arg'[d] = arg[d] BY <1>3 DEF Settled
  <2>2. Reads(p, s) BY <1>1, <2>1 DEF PromptOK
  <2>3. Reads(p, s)' BY <2>2, ReadsStay
  <2>4. QED BY <1>1, <2>3 DEF PromptOK, Reads, AllOK, TurnOK, Answered
<1>4. QED BY <1>2, <1>3

LEMMA PromptsStay ==
  ASSUME TypeOK, Phases, Settled, Prompted, prompt' = prompt,
         \A d \in Request : pc'[d] \in {"idle", "schema"} => pc[d] \in {"idle", "schema"}
  PROVE  Prompted'
<1>1. SUFFICES ASSUME NEW d \in Request PROVE PromptOK(d, prompt[d])'
  BY DEF Prompted
<1>2. PICK p \in Seq(Turn) : p = prompt[d] BY DEF TypeOK
<1>3. PromptOK(d, p)' BY <1>2, PromptKept DEF Prompted
<1>4. QED BY <1>2, <1>3 DEF PromptOK, Reads, AllOK, TurnOK, Answered

\* The step that builds the prompt of r from what r has read.
LEMMA PromptBuilt ==
  ASSUME TypeOK, Phases, Settled, Prompted, NEW r \in Request, NEW a, NEW turns \in Seq(Turn),
         BuildPrompt(r, a, turns), arg'[r].session = a.session, Reads(turns, a.session)'
  PROVE  Prompted'
<1>1. CASE prompt' = prompt
  BY <1>1, PromptsStay DEF BuildPrompt, Fails, Ends, TypeOK
<1>2. CASE prompt' # prompt
  <2>1. prompt' = [prompt EXCEPT ![r] = turns] /\ pc' = [pc EXCEPT ![r] = "nl2sql"]
    BY <1>2 DEF BuildPrompt
  <2>2. SUFFICES ASSUME NEW d \in Request PROVE PromptOK(d, prompt[d])'
    BY DEF Prompted
  <2>3. CASE d = r
    BY <2>1, <2>3 DEF PromptOK, Reads, AllOK, TurnOK, Answered, TypeOK
  <2>4. CASE d # r
    <3>1. PICK p \in Seq(Turn) : p = prompt[d] BY DEF TypeOK
    <3>2. prompt'[d] = p /\ pc'[d] = pc[d] BY <2>1, <2>4, <3>1 DEF TypeOK
    <3>3. PromptOK(d, p)' BY <3>1, <3>2, PromptKept DEF Prompted
    <3>4. QED BY <3>2, <3>3 DEF PromptOK, Reads, AllOK, TurnOK, Answered
  <2>5. QED BY <2>3, <2>4
<1>3. QED BY <1>1, <1>2

\* An answer that is remembered: the turn is new, so its author is in the
\* window once, and whoever still holds the session's list is of that session.
LEMMA AddTurnStep ==
  ASSUME TypeOK, Phases, Settled, Remembered, Lent, NEW s \in Session, NEW t \in Turn,
         Memory!AddTurn(s, t), t.sql.author \notin Answered, TurnOK(t, s)',
         \A d \in Request : pc[d] = "schema" => pc'[d] = pc[d] /\ arg'[d] = arg[d]
  PROVE  /\ Remembered' /\ Lent'
         /\ sessions' \in [Session -> Seq(Turn)]
         /\ lastAccess' \in [Session -> Nat \cup {Memory!Never}]
         /\ held' \in [Request -> Memory!Handle]
<1>1. PICK old \in Seq(Turn) :
        /\ old = Memory!KeptTurns[s] /\ Len(old) <= MaxTurns /\ OnceEach(old)
        /\ AllOK(old, s) /\ AllOK(old, s)'
  BY KeptReads
<1> DEFINE turns == Append(old, t)
           window == IF Memory!Overflows(turns) THEN Memory!LastTurns(turns) ELSE turns
<1>2. /\ turns \in Seq(Turn) /\ Len(turns) = Len(old) + 1
      /\ \A i \in 1 .. Len(old) : turns[i] = old[i]
      /\ turns[Len(old) + 1] = t
      /\ window \in Seq(Turn) /\ Len(window) <= MaxTurns
  BY <1>1, Window
<1>3. PICK off \in Nat : \A i \in 1 .. Len(window) :
        i + off \in 1 .. Len(turns) /\ window[i] = turns[i + off]
  BY <1>1, Window
<1>4. Len(old) \in Nat BY LenProperties
<1> HIDE DEF turns, window
<1>5. AllOK(turns, s)'
  <2>1. \A i \in 1 .. Len(turns) : turns[i] = t \/ (i \in 1 .. Len(old) /\ turns[i] = old[i])
    BY <1>2, <1>4
  <2>2. QED BY <1>1, <2>1 DEF AllOK, TurnOK, Answered
<1>6. OnceEach(turns)
  <2>1. \A i \in 1 .. Len(old) : turns[i].sql.author # t.sql.author
    BY <1>1, <1>2 DEF AllOK, TurnOK
  <2>2. \A i \in 1 .. Len(turns) : i \in 1 .. Len(old) \/ i = Len(old) + 1
    BY <1>2, <1>4
  <2>3. QED BY <1>1, <1>2, <2>1, <2>2 DEF OnceEach
<1>7. AllOK(window, s)' BY <1>3, <1>5 DEF AllOK, TurnOK, Answered
<1>8. OnceEach(window)
  <2>1. SUFFICES ASSUME NEW i \in 1 .. Len(window), NEW j \in 1 .. Len(window),
                        window[i].sql.author = window[j].sql.author
                 PROVE  i = j
    BY DEF OnceEach
  <2>2. i + off = j + off BY <1>3, <1>6, <2>1 DEF OnceEach
  <2>3. QED BY <2>2
<1>9. PICK owner \in Session \cup {Detached} :
         /\ owner \in Session => owner = s
         /\ held' = [d \in Request |-> IF Memory!KeptHeld[d].of = s
                                       THEN [of |-> owner, turns |-> turns]
                                       ELSE Memory!KeptHeld[d]]
  BY <1>1, OrchestratorAssumption DEF Memory!AddTurn, turns
<1>10. /\ sessions' = [Memory!KeptTurns EXCEPT ![s] = window]
       /\ lastAccess' = [Memory!KeptAccess EXCEPT ![s] = now]
  BY <1>1 DEF Memory!AddTurn, turns, window
<1>11. Remembered'
  <2>1. SUFFICES ASSUME NEW x \in Session
                 PROVE  Len(sessions'[x]) <= MaxTurns /\ AllOK(sessions[x], x)' /\ OnceEach(sessions[x])'
    BY DEF Remembered
  <2>2. PICK list : list = sessions'[x] OBVIOUS
  <2>3. Len(list) <= MaxTurns /\ OnceEach(list) /\ AllOK(list, x)'
    <3>1. CASE x = s BY <1>2, <1>7, <1>8, <1>10, <2>2, <3>1, KeptTypes
    <3>2. CASE x # s
      <4>1. list = Memory!KeptTurns[x] BY <1>10, <2>2, <3>2, KeptTypes
      <4>2. QED BY <4>1, KeptReads
    <3>3. QED BY <3>1, <3>2
  <2>4. QED BY <2>2, <2>3 DEF AllOK, OnceEach, TurnOK, Answered
<1>12. Len(turns) <= MaxTurns + 1 BY <1>1, <1>2, <1>4, Bounds
<1>13. Lent'
  <2>1. SUFFICES ASSUME NEW d \in Request PROVE LentOK(d, held[d])'
    BY DEF Lent
  <2>2. PICK h : h = held'[d] OBVIOUS
  <2>3. CASE Memory!KeptHeld[d].of = s
    <3>1. pc[d] = "schema" /\ arg[d].session = s
      BY <2>3, KeptLent DEF LentOK
    <3>2. pc'[d] = "schema" /\ arg'[d].session = s BY <3>1
    <3>3. h = [of |-> owner, turns |-> turns] BY <1>9, <2>2, <2>3
    <3>4. Reads(turns, s)' BY <1>5, <1>12 DEF Reads
    <3>5. QED BY <1>9, <2>2, <3>2, <3>3, <3>4 DEF LentOK, Reads, AllOK, TurnOK, Answered
  <2>4. CASE Memory!KeptHeld[d].of # s
    <3>1. h = Memory!KeptHeld[d] BY <1>9, <2>2, <2>4
    <3>2. h \in Memory!Handle /\ LentOK(d, h) BY <3>1, KeptLent
    <3>3. CASE pc[d] = "schema"
      <4>1. LentOK(d, h)' BY <3>2, <3>3, LentStays
      <4>2. QED BY <2>2, <4>1 DEF LentOK, Reads, AllOK, TurnOK, Answered
    <3>4. CASE pc[d] # "schema"
      <4>1. h = Memory!NoHistory BY <3>2, <3>4 DEF LentOK
      <4>2. LentOK(d, h)' BY <4>1, LentNothing DEF Memory!NoHistory
      <4>3. QED BY <2>2, <4>2 DEF LentOK, Reads, AllOK, TurnOK, Answered
    <3>5. QED BY <3>3, <3>4
  <2>5. QED BY <2>3, <2>4
<1>14. sessions' \in [Session -> Seq(Turn)] /\ lastAccess' \in [Session -> Nat \cup {Memory!Never}]
  BY <1>2, <1>10, KeptTypes DEF TypeOK, Memory!TypeOK
<1>15. held' \in [Request -> Memory!Handle]
  BY <1>2, <1>9, KeptTypes DEF Memory!Handle
<1>16. QED BY <1>11, <1>13, <1>14, <1>15

\* A step that leaves the dictionaries alone, or only evicts and touches.
MemoryTypes == /\ sessions' \in [Session -> Seq(Turn)]
               /\ lastAccess' \in [Session -> Nat \cup {Memory!Never}]
               /\ held' \in [Request -> Memory!Handle]

MemoryInOrder == Remembered' /\ Lent' /\ Prompted' /\ MemoryTypes

LEMMA QuietStep ==
  ASSUME IInv, Settled, UNCHANGED memVars, prompt' = prompt,
         \A d \in Request : /\ pc[d] = "schema" => pc'[d] = "schema" /\ arg'[d] = arg[d]
                            /\ pc'[d] \in {"idle", "schema"} => pc[d] \in {"idle", "schema"}
  PROVE  MemoryInOrder
<1> USE DEF IInv
<1>1. /\ sessions' = sessions /\ lastAccess' = lastAccess /\ held' = held
  BY DEF memVars
<1>2. Remembered' BY <1>1, RememberedStays
<1>3. Lent' BY <1>1, LentToMost
<1>4. Prompted' BY PromptsStay
<1>5. MemoryTypes BY <1>1 DEF MemoryTypes, TypeOK, Memory!TypeOK
<1>6. QED BY <1>2, <1>3, <1>4, <1>5 DEF MemoryInOrder

LEMMA AskWarmMemory ==
  ASSUME IInv, Settled, NEW r \in Request, NEW a \in Asks, AskWarm(r, a)
  PROVE  MemoryInOrder
<1> USE DEF IInv
<1>1. /\ sessions' \in {sessions, Memory!KeptTurns} /\ held' \in {held, Memory!KeptHeld}
  BY DEF AskWarm, memVars, Memory!Touch
<1>2. pc[r] = "idle" /\ arg'[r] = a /\ \A d \in Request : d # r => pc'[d] = pc[d] /\ arg'[d] = arg[d]
  BY DEF AskWarm, BuildPrompt, Fails, Ends, TypeOK
<1>3. Remembered' BY <1>1, RememberedStays
<1>4. Lent' BY <1>1, <1>2, LentToMost
<1>5. PICK turns \in Seq(Turn) : turns = History(a)
  BY HistoryType
<1>6. Reads(turns, a.session)'
  <2>1. CASE a.session = NoSession
    <3>1. turns = <<>> BY <1>5, <2>1 DEF History
    <3>2. QED BY <3>1, ReadsEmpty
  <2>2. CASE a.session # NoSession
    <3>1. turns = Memory!KeptTurns[a.session] /\ a.session \in Session
      BY <1>5, <2>2, AskFields DEF History
    <3>2. PICK s : s = a.session OBVIOUS
    <3>3. Reads(turns, s)' BY <3>1, <3>2, KeptReads
    <3>4. QED BY <3>2, <3>3
  <2>3. QED BY <2>1, <2>2
<1>7. Prompted'
  <2>1. BuildPrompt(r, a, turns) BY <1>5 DEF AskWarm
  <2>2. QED BY <1>2, <1>6, <2>1, PromptBuilt
<1>8. MemoryTypes
  BY KeptTypes, TouchTypes, AskFields DEF MemoryTypes, AskWarm, memVars, TypeOK, Memory!TypeOK
<1>9. QED BY <1>3, <1>4, <1>7, <1>8 DEF MemoryInOrder

LEMMA AskColdMemory ==
  ASSUME IInv, Settled, NEW r \in Request, NEW a \in Asks, AskCold(r, a)
  PROVE  MemoryInOrder
<1> USE DEF IInv
<1>1. /\ pc[r] = "idle" /\ arg'[r] = a /\ pc'[r] = "schema" /\ prompt' = prompt
      /\ \A d \in Request : d # r => pc'[d] = pc[d] /\ arg'[d] = arg[d]
  BY DEF AskCold, replyVars, TypeOK
<1>2. CASE a.session = NoSession
  <2>1. UNCHANGED memVars BY <1>2 DEF AskCold
  <2>2. QED BY <1>1, <2>1, QuietStep
<1>3. CASE a.session # NoSession
  <2>1. PICK s \in Session : s = a.session BY <1>3, AskFields
  <2>2. Memory!GetHistory(r, s) BY <1>3, <2>1 DEF AskCold
  <2>3. MemoryTypes BY <2>2, GetHistoryTypes DEF MemoryTypes
  <2>4. Remembered' BY <2>2, RememberedStays DEF Memory!GetHistory, Memory!Touch
  <2>5. Prompted' BY <1>1, PromptsStay
  <2>6. PICK turns \in Seq(Turn) : turns = Memory!KeptTurns[s] /\ Reads(turns, s)'
    BY KeptReads
  <2>7. Lent'
    <3>1. SUFFICES ASSUME NEW d \in Request PROVE LentOK(d, held[d])'
      BY DEF Lent
    <3>2. PICK h : h = held'[d] OBVIOUS
    <3>3. CASE d = r
      <4>1. h = Memory!HistoryOf(s) BY <2>2, <3>2, <3>3, KeptTypes DEF Memory!GetHistory
      <4>2. h.turns = turns /\ (h.of \in Session => h.of = s)
        BY <2>6, <4>1, OrchestratorAssumption DEF Memory!HistoryOf
      <4>3. QED BY <1>1, <2>1, <2>6, <3>2, <3>3, <4>2
                DEF LentOK, Reads, AllOK, TurnOK, Answered
    <3>4. CASE d # r
      <4>1. h = Memory!KeptHeld[d] BY <2>2, <3>2, <3>4, KeptTypes DEF Memory!GetHistory
      <4>2. h \in Memory!Handle /\ LentOK(d, h) BY <4>1, KeptLent
      <4>3. LentOK(d, h)' BY <1>1, <3>4, <4>2, LentStays
      <4>4. QED BY <3>2, <4>3 DEF LentOK, Reads, AllOK, TurnOK, Answered
    <3>5. QED BY <3>3, <3>4
  <2>8. QED BY <2>3, <2>4, <2>5, <2>7 DEF MemoryInOrder
<1>4. QED BY <1>2, <1>3

LEMMA SchemaMemory ==
  ASSUME IInv, Settled, NEW r \in Request, SchemaReady(r) \/ SchemaFails(r)
  PROVE  MemoryInOrder
<1> USE DEF IInv
<1>1. /\ pc[r] = "schema" /\ arg' = arg /\ held' = [held EXCEPT ![r] = Memory!NoHistory]
      /\ sessions' = sessions /\ lastAccess' = lastAccess
      /\ pc'[r] \in {"done", "nl2sql"} /\ \A d \in Request : d # r => pc'[d] = pc[d]
  BY DEF SchemaReady, SchemaFails, Memory!Forget, BuildPrompt, Fails, Ends, TypeOK
<1>2. Remembered' BY <1>1, RememberedStays
<1>3. Lent'
  <2>1. SUFFICES ASSUME NEW d \in Request PROVE LentOK(d, held[d])'
    BY DEF Lent
  <2>2. PICK h : h = held'[d] OBVIOUS
  <2>3. LentOK(d, h)'
    <3>1. CASE d = r
      <4>1. h = Memory!NoHistory BY <1>1, <2>2, <3>1 DEF TypeOK, Memory!TypeOK
      <4>2. QED BY <4>1, LentNothing DEF Memory!NoHistory
    <3>2. CASE d # r
      <4>1. h = held[d] BY <1>1, <2>2, <3>2 DEF TypeOK, Memory!TypeOK
      <4>2. h \in Memory!Handle /\ LentOK(d, h) BY <4>1 DEF Lent, TypeOK, Memory!TypeOK
      <4>3. QED BY <1>1, <3>2, <4>2, LentStays
    <3>3. QED BY <3>1, <3>2
  <2>4. QED BY <2>2, <2>3 DEF LentOK, Reads, AllOK, TurnOK, Answered
<1>4. Prompted'
  <2>1. CASE SchemaFails(r)
    BY <1>1, <2>1, PromptsStay DEF SchemaFails
  <2>2. CASE SchemaReady(r)
    <3>1. PICK turns \in Seq(Turn) : turns = held[r].turns
      BY DEF TypeOK, Memory!TypeOK, Memory!Handle
    <3>2. PICK s : s = arg[r].session OBVIOUS
    <3>3. Reads(turns, s) BY <3>1, <3>2 DEF Lent, LentOK
    <3>4. Reads(turns, s)' BY <3>3, ReadsStay
    <3>5. PICK a : a = arg[r] OBVIOUS
    <3>6. BuildPrompt(r, a, turns) BY <2>2, <3>1, <3>5 DEF SchemaReady
    <3>7. arg'[r].session = a.session /\ a.session = s BY <1>1, <3>2, <3>5
    <3>8. Reads(turns, a.session)' BY <3>4, <3>7
    <3>9. QED BY <3>6, <3>7, <3>8, PromptBuilt
  <2>3. QED BY <2>1, <2>2
<1>5. MemoryTypes
  BY <1>1, NoHistoryType DEF MemoryTypes, TypeOK, Memory!TypeOK
<1>6. QED BY <1>2, <1>3, <1>4, <1>5 DEF MemoryInOrder

LEMMA CompleteMemory ==
  ASSUME IInv, Settled, NEW r \in Request, QueryCompletes(r) \/ InsightReady(r)
  PROVE  MemoryInOrder
<1> USE DEF IInv
<1>1. PICK commentary \in Commentary :
        pc[r] \in {"executing", "commentary"} /\ Complete(r, commentary)
  BY Completes
<1>2. PICK a \in Asks : a = arg[r] BY <1>1, Sent
<1>3. PICK answer \in Response : answer = AnswerOf(r, commentary) BY <1>1, AnswerType
<1>4. /\ arg' = arg /\ prompt' = prompt /\ body'[r] = answer /\ outcome'[r] = "answered"
      /\ pc'[r] = "done" /\ \A d \in Request : d # r => pc'[d] = pc[d]
  BY <1>1, <1>3 DEF Complete, Delivers, Ends, TypeOK, AnswerOf
<1>5. \A d \in Request : /\ pc[d] = "schema" => pc'[d] = "schema" /\ arg'[d] = arg[d]
                         /\ pc'[d] \in {"idle", "schema"} => pc[d] \in {"idle", "schema"}
  BY <1>1, <1>4
<1>6. CASE ~Remembers(a)
  <2>1. UNCHANGED memVars BY <1>1, <1>2, <1>6 DEF Complete
  <2>2. QED BY <1>4, <1>5, <2>1, QuietStep
<1>7. CASE Remembers(a)
  <2>1. PICK t : t = [question |-> a.question, sql |-> sql[r]] OBVIOUS
  <2>2. sql[r] \in Sql /\ sql[r].author = r BY <1>1 DEF Phases
  <2>3. t \in Turn /\ t.sql.author = r /\ t.question = a.question /\ t.sql = sql[r]
    BY <2>1, <2>2, AskFields DEF Turn
  <2>4. PICK s \in Session : s = a.session BY <1>7, AskFields DEF Remembers
  <2>5. Memory!AddTurn(s, t) BY <1>1, <1>2, <1>7, <2>1, <2>4 DEF Complete
  <2>6. t.sql.author \notin Answered BY <1>1, <2>3 DEF Answered, Phases
  <2>7. TurnOK(t, s)'
    <3>1. answer.sql = sql[r] BY <1>3 DEF AnswerOf
    <3>2. QED BY <1>2, <1>4, <1>7, <2>3, <2>4, <3>1 DEF TurnOK, Answered, Remembers
  <2>8. Remembered' /\ Lent' /\ MemoryTypes
    BY <1>5, <2>3, <2>5, <2>6, <2>7, AddTurnStep DEF MemoryTypes
  <2>9. Prompted' BY <1>4, <1>5, PromptsStay
  <2>10. QED BY <2>8, <2>9 DEF MemoryInOrder
<1>8. QED BY <1>6, <1>7

LEMMA MemoryStep == IInv /\ Next => MemoryInOrder
<1> SUFFICES ASSUME IInv, Next PROVE MemoryInOrder
  OBVIOUS
<1>0. Settled BY StepSettled DEF IInv
<1>1. ASSUME NEW r \in Request, NEW a \in Asks, AskHit(r, a) PROVE MemoryInOrder
  <2>1. \A d \in Request : /\ pc[d] = "schema" => pc'[d] = "schema" /\ arg'[d] = arg[d]
                           /\ pc'[d] \in {"idle", "schema"} => pc[d] \in {"idle", "schema"}
    BY <1>1 DEF AskHit, Delivers, Ends, IInv, TypeOK
  <2>2. UNCHANGED memVars /\ prompt' = prompt BY <1>1 DEF AskHit
  <2>3. QED BY <1>0, <2>1, <2>2, QuietStep
<1>2. ASSUME NEW r \in Request,
             \/ SqlAccepted(r) \/ SqlRefused(r) \/ QueryFails(r) \/ QueryNeedsInsight(r)
      PROVE  MemoryInOrder
  <2>1. \A d \in Request : /\ pc[d] = "schema" => pc'[d] = "schema" /\ arg'[d] = arg[d]
                           /\ pc'[d] \in {"idle", "schema"} => pc[d] \in {"idle", "schema"}
    BY <1>2 DEF SqlAccepted, SqlRefused, QueryFails, QueryNeedsInsight, Fails, Ends, IInv, TypeOK
  <2>2. UNCHANGED memVars /\ prompt' = prompt
    BY <1>2 DEF SqlAccepted, SqlRefused, QueryFails, QueryNeedsInsight
  <2>3. QED BY <1>0, <2>1, <2>2, QuietStep
<1>3. CASE SchemaChanges \/ TimePasses
  BY <1>0, <1>3, QuietStep DEF SchemaChanges, TimePasses
<1>4. QED BY <1>0, <1>1, <1>2, <1>3, AskWarmMemory, AskColdMemory, SchemaMemory, CompleteMemory
          DEF Next, Arrives, Proceeds

-----------------------------------------------------------------------------
(***************************************************************************)
(* Types, and the invariant as a whole.                                    *)
(***************************************************************************)
HandlerTypes ==
  /\ schemaFresh \in BOOLEAN
  /\ pc \in [Request -> Location] /\ arg \in [Request -> Asks \cup {NoAsk}]
  /\ prompt \in [Request -> Seq(Turn)] /\ sql \in [Request -> Sql \cup {NoSql}]
  /\ calls \in [Request -> Nat] /\ outcome \in [Request -> Outcome]
  /\ body \in [Request -> Response \cup {NoBody}]
  /\ now \in Nat

LEMMA HandlerStep == IInv /\ Next => HandlerTypes'
<1> SUFFICES ASSUME IInv, Next PROVE HandlerTypes'
  OBVIOUS
<1>0. HandlerTypes
  BY DEF IInv, TypeOK, HandlerTypes, Memory!TypeOK
<1> USE DEF HandlerTypes
<1>1. ASSUME NEW r \in Request, NEW o \in Outcome, Fails(r, o),
             UNCHANGED <<now, prompt, sql, calls>>,
             schemaFresh' \in BOOLEAN, arg' \in [Request -> Asks \cup {NoAsk}]
      PROVE  HandlerTypes'
  BY <1>0, <1>1 DEF Fails, Ends, Location
<1>2. ASSUME NEW r \in Request, NEW answer \in Response, Delivers(r, answer),
             UNCHANGED <<now, schemaFresh, prompt, sql, calls>>,
             arg' \in [Request -> Asks \cup {NoAsk}]
      PROVE  HandlerTypes'
  BY <1>0, <1>2 DEF Delivers, Ends, Location, Outcome
<1>3. ASSUME NEW r \in Request, NEW a, NEW turns \in Seq(Turn), BuildPrompt(r, a, turns),
             UNCHANGED <<now, sql>>, schemaFresh' \in BOOLEAN,
             arg' \in [Request -> Asks \cup {NoAsk}]
      PROVE  HandlerTypes'
  <2>1. CASE Fails(r, "prompt_failed") /\ UNCHANGED <<prompt, calls>>
    BY <1>1, <1>3, <2>1 DEF Outcome, Failure
  <2>2. CASE /\ pc' = [pc EXCEPT ![r] = "nl2sql"] /\ prompt' = [prompt EXCEPT ![r] = turns]
             /\ calls' = [calls EXCEPT ![r] = @ + 1] /\ UNCHANGED replyVars
    BY <1>0, <1>3, <2>2 DEF Location, replyVars
  <2>3. QED BY <1>3, <2>1, <2>2 DEF BuildPrompt
<1>4. ASSUME NEW r \in Request, NEW a \in Asks, AskHit(r, a) PROVE HandlerTypes'
  <2>1. PICK answer : answer = Restamp(store[KeyOf(a)].value, r) OBVIOUS
  <2>2. answer \in Response BY <1>4, <2>1, AskFields, HitEntry DEF AskHit, IInv
  <2>3. QED BY <1>0, <1>2, <1>4, <2>1, <2>2 DEF AskHit
<1>5. ASSUME NEW r \in Request, NEW a \in Asks, AskWarm(r, a) PROVE HandlerTypes'
  BY <1>0, <1>3, <1>5, HistoryType DEF AskWarm, IInv
<1>6. ASSUME NEW r \in Request, NEW a \in Asks, AskCold(r, a) PROVE HandlerTypes'
  BY <1>0, <1>6 DEF AskCold, replyVars, Location
<1>7. ASSUME NEW r \in Request, SchemaReady(r) PROVE HandlerTypes'
  <2>1. held[r].turns \in Seq(Turn)
    BY DEF IInv, TypeOK, Memory!TypeOK, Memory!Handle
  <2>2. QED BY <1>0, <1>3, <1>7, <2>1 DEF SchemaReady
<1>8. ASSUME NEW r \in Request, SchemaFails(r) \/ SqlRefused(r) \/ QueryFails(r)
      PROVE  HandlerTypes'
  BY <1>0, <1>1, <1>8 DEF SchemaFails, SqlRefused, QueryFails, Outcome, Failure
<1>9. ASSUME NEW r \in Request, SqlAccepted(r) PROVE HandlerTypes'
  <2>1. \A short \in BOOLEAN : [author |-> r, base |-> BaseOf(r), short |-> short] \in Sql
    BY BaseType DEF Sql, IInv
  <2>2. sql' \in [Request -> Sql \cup {NoSql}] BY <1>0, <1>9, <2>1 DEF SqlAccepted
  <2>3. pc' \in [Request -> Location] BY <1>0, <1>9 DEF SqlAccepted, Location
  <2>4. QED BY <1>0, <1>9, <2>2, <2>3 DEF SqlAccepted, replyVars
<1>10. ASSUME NEW r \in Request, QueryNeedsInsight(r) PROVE HandlerTypes'
  BY <1>0, <1>10 DEF QueryNeedsInsight, replyVars, Location
<1>11. ASSUME NEW r \in Request, QueryCompletes(r) \/ InsightReady(r) PROVE HandlerTypes'
  <2>1. PICK commentary \in Commentary :
          pc[r] \in {"executing", "commentary"} /\ Complete(r, commentary)
    BY <1>11, Completes DEF IInv
  <2>2. arg[r] \in Asks /\ AnswerOf(r, commentary) \in Response
    BY <2>1, Sent, AnswerType DEF IInv
  <2>3. Delivers(r, AnswerOf(r, commentary)) BY <2>1 DEF Complete, AnswerOf
  <2>4. QED BY <1>0, <1>2, <2>1, <2>2, <2>3 DEF Complete
<1>12. CASE SchemaChanges
  BY <1>0, <1>12 DEF SchemaChanges, replyVars
<1>13. CASE TimePasses
  BY <1>0, <1>13 DEF TimePasses, Cache!Tick, replyVars
<1>14. QED BY <1>4, <1>5, <1>6, <1>7, <1>8, <1>9, <1>10, <1>11, <1>12, <1>13
           DEF Next, Arrives, Proceeds

LEMMA Preserved == IInv /\ [Next]_vars => IInv'
<1> SUFFICES ASSUME IInv, [Next]_vars PROVE IInv'
  OBVIOUS
<1>1. CASE Next
  <2>1. Stored' /\ store' \in [Key -> Cache!Entry \cup {NoEntry}]
    BY <1>1, StoredStep DEF IInv
  <2>2. Phases' /\ Bodies' BY <1>1, PhasesStep DEF IInv
  <2>3. MemoryInOrder BY <1>1, MemoryStep
  <2>4. HandlerTypes' BY <1>1, HandlerStep
  <2>5. TypeOK'
    BY <2>1, <2>3, <2>4
       DEF TypeOK, HandlerTypes, MemoryInOrder, MemoryTypes, Cache!TypeOK, Memory!TypeOK
  <2>6. QED BY <2>1, <2>2, <2>3, <2>5 DEF IInv, MemoryInOrder
<1>2. CASE UNCHANGED vars
  <2>1. TypeOK' BY <1>2 DEF vars, IInv, TypeOK, Cache!TypeOK, Memory!TypeOK
  <2>2. Phases' BY <1>2 DEF vars, IInv, Phases
  <2>3. Bodies' BY <1>2 DEF vars, IInv, Bodies, Answered, KeyOf
  <2>4. Stored' BY <1>2 DEF vars, IInv, Stored, EntryOK, Answered, KeyOf
  <2>5. Remembered' BY <1>2 DEF vars, IInv, Remembered, AllOK, OnceEach, TurnOK, Answered
  <2>6. Lent' BY <1>2 DEF vars, IInv, Lent, LentOK, Reads, AllOK, TurnOK, Answered
  <2>7. Prompted' BY <1>2 DEF vars, IInv, Prompted, PromptOK, Reads, AllOK, TurnOK, Answered
  <2>8. QED BY <2>1, <2>2, <2>3, <2>4, <2>5, <2>6, <2>7 DEF IInv
<1>3. QED BY <1>1, <1>2

LEMMA Inductive == Spec => []IInv
<1>1. QED BY InitIInv, Preserved, PTL DEF Spec

-----------------------------------------------------------------------------
(***************************************************************************)
(* The theorems.                                                           *)
(***************************************************************************)

\* No sequence of requests drives the variables out of their types.
THEOREM TypeCorrect == Spec => []TypeOK
<1>1. IInv => TypeOK BY DEF IInv
<1>2. QED BY <1>1, Inductive, PTL

\* Whoever shares the cache, each client gets an answer to its own question and
\* page, under its own identifier (orchestrator.py:96-104, 189-205).
THEOREM AnswersOwnQuestionHolds == Spec => []AnswersOwnQuestion
<1>1. IInv => AnswersOwnQuestion BY DEF IInv, Bodies, AnswersOwnQuestion
<1>2. QED BY <1>1, Inductive, PTL

\* What is in the cache was delivered to its author and validated and executed
\* for it (orchestrator.py:151-205).
THEOREM CacheHoldsDeliveredHolds == Spec => []CacheHoldsDelivered
<1>1. IInv => CacheHoldsDelivered
  BY DEF IInv, Stored, EntryOK, CacheHoldsDelivered, Cache!Held
<1>2. QED BY <1>1, Inductive, PTL

\* Claude never sees the turns of another session (orchestrator.py:110-115).
THEOREM PromptStaysInSessionHolds == Spec => []PromptStaysInSession
<1>1. ASSUME IInv PROVE PromptStaysInSession
  <2>1. SUFFICES ASSUME NEW r \in Request, NEW i \in DOMAIN prompt[r]
                 PROVE  /\ arg[prompt[r][i].sql.author].session = arg[r].session
                        /\ arg[r].session # NoSession
    BY DEF PromptStaysInSession
  <2>2. prompt[r] \in Seq(Turn) /\ PromptOK(r, prompt[r])
    BY <1>1 DEF IInv, TypeOK, Prompted
  <2>3. i \in 1 .. Len(prompt[r]) BY <2>2, LenProperties
  <2>4. prompt[r] # <<>> BY <2>3, EmptyTurns
  <2>5. QED BY <2>2, <2>3, <2>4, OrchestratorAssumption DEF PromptOK, Reads, AllOK, TurnOK
<1>2. QED BY <1>1, Inductive, PTL

\* A session remembers answers that its user was given, each once
\* (orchestrator.py:207-216).
THEOREM TurnsWereAnsweredHolds == Spec => []TurnsWereAnswered
<1>1. ASSUME IInv PROVE TurnsWereAnswered
  <2>1. \A s \in Session : DOMAIN sessions[s] = 1 .. Len(sessions[s])
    BY <1>1, LenProperties DEF IInv, TypeOK, Memory!TypeOK
  <2>2. QED BY <1>1, <2>1 DEF IInv, Remembered, AllOK, OnceEach, TurnOK, TurnsWereAnswered
<1>2. QED BY <1>1, Inductive, PTL

\* The history in a prompt is at most one turn longer than the window
\* (nl_to_sql.py:148-162).
THEOREM PromptBoundHolds == Spec => []PromptBound
<1>1. IInv => PromptBound BY DEF IInv, Prompted, PromptOK, Reads, PromptBound
<1>2. QED BY <1>1, Inductive, PTL

\* Where a handler is says how often it has called Claude.
Counted == \A r \in Request :
  /\ pc[r] \in {"idle", "schema"} => calls[r] = 0
  /\ pc[r] \in {"nl2sql", "executing"} => calls[r] = 1
  /\ pc[r] = "commentary" => calls[r] = 2 /\ arg[r].insight # "none"
  /\ calls[r] \in 0 .. 2
  /\ pc[r] # "idle" /\ arg[r].insight = "none" => calls[r] <= 1
  /\ r \in Answered => (body[r].sql.author = r <=> calls[r] > 0)

LEMMA CountedStep == IInv /\ Counted /\ [Next]_vars => Counted'
<1> SUFFICES ASSUME IInv, Counted, [Next]_vars PROVE Counted'
  OBVIOUS
<1> USE DEF Fails, Delivers, Ends, replyVars
<1>0. TypeOK /\ Phases BY DEF IInv
<1>1. ASSUME NEW r \in Request, NEW a \in Asks, AskHit(r, a) PROVE Counted'
  <2>1. PICK answer : answer = Restamp(store[KeyOf(a)].value, r) OBVIOUS
  <2>2. /\ pc[r] = "idle" /\ pc' = [pc EXCEPT ![r] = "done"] /\ calls' = calls
        /\ arg' = [arg EXCEPT ![r] = a] /\ body' = [body EXCEPT ![r] = answer]
        /\ outcome' = [outcome EXCEPT ![r] = "answered"]
    BY <1>1, <2>1 DEF AskHit
  <2>3. answer.sql.author \in Answered BY <1>1, <2>1, HitAnswer DEF AskHit, IInv
  <2>4. r \notin Answered BY <1>0, <2>2 DEF Phases, Answered
  <2>5. calls'[r] = 0 /\ body'[r].sql.author # r
    BY <1>0, <2>2, <2>3, <2>4 DEF Counted, TypeOK
  <2>6. QED BY <1>0, <2>2, <2>5 DEF Counted, Answered, TypeOK
<1>2. ASSUME NEW r \in Request, NEW a \in Asks, AskWarm(r, a) \/ AskCold(r, a) PROVE Counted'
  <2>1. /\ pc[r] = "idle" /\ arg' = [arg EXCEPT ![r] = a] /\ body' = body
        /\ \/ pc' = [pc EXCEPT ![r] = "done"] /\ outcome' = [outcome EXCEPT ![r] = "prompt_failed"]
              /\ calls' = calls
           \/ pc' = [pc EXCEPT ![r] = "nl2sql"] /\ outcome' = outcome
              /\ calls' = [calls EXCEPT ![r] = @ + 1]
           \/ pc' = [pc EXCEPT ![r] = "schema"] /\ outcome' = outcome /\ calls' = calls
    BY <1>2 DEF AskWarm, AskCold, BuildPrompt
  <2>2. outcome[r] # "answered" BY <1>0, <2>1 DEF Phases
  <2>3. QED BY <1>0, <2>1, <2>2 DEF Counted, Answered, TypeOK
<1>3. ASSUME NEW r \in Request, SchemaReady(r) PROVE Counted'
  <2>1. /\ pc[r] = "schema" /\ arg' = arg /\ body' = body /\ outcome[r] # "answered"
        /\ \/ pc' = [pc EXCEPT ![r] = "done"] /\ outcome' = [outcome EXCEPT ![r] = "prompt_failed"]
              /\ calls' = calls
           \/ pc' = [pc EXCEPT ![r] = "nl2sql"] /\ outcome' = outcome
              /\ calls' = [calls EXCEPT ![r] = @ + 1]
    BY <1>0, <1>3 DEF SchemaReady, BuildPrompt, Phases
  <2>2. QED BY <1>0, <2>1 DEF Counted, Answered, TypeOK
<1>4. ASSUME NEW r \in Request, SchemaFails(r) \/ SqlRefused(r) \/ QueryFails(r) PROVE Counted'
  <2>1. /\ pc[r] \notin {"idle", "done"} /\ arg' = arg /\ body' = body /\ calls' = calls
        /\ pc' = [pc EXCEPT ![r] = "done"] /\ outcome'[r] # "answered"
        /\ \A d \in Request : d # r => outcome'[d] = outcome[d]
    BY <1>0, <1>4 DEF SchemaFails, SqlRefused, QueryFails, TypeOK
  <2>2. QED BY <1>0, <2>1 DEF Counted, Answered, TypeOK
<1>5. ASSUME NEW r \in Request, SqlAccepted(r) \/ QueryNeedsInsight(r) PROVE Counted'
  BY <1>0, <1>5 DEF SqlAccepted, QueryNeedsInsight, Counted, Answered, TypeOK
<1>6. ASSUME NEW r \in Request, QueryCompletes(r) \/ InsightReady(r) PROVE Counted'
  <2>1. PICK commentary \in Commentary :
          pc[r] \in {"executing", "commentary"} /\ Complete(r, commentary)
    BY <1>0, <1>6, Completes
  <2>2. /\ arg' = arg /\ calls' = calls /\ pc' = [pc EXCEPT ![r] = "done"]
        /\ outcome' = [outcome EXCEPT ![r] = "answered"]
        /\ body' = [body EXCEPT ![r] = AnswerOf(r, commentary)]
    BY <2>1 DEF Complete, AnswerOf
  <2>3. body'[r].sql.author = r /\ calls[r] \in {1, 2}
    BY <1>0, <2>1, <2>2 DEF AnswerOf, Phases, Counted, TypeOK
  <2>4. QED BY <1>0, <2>2, <2>3 DEF Counted, Answered, TypeOK
<1>7. CASE SchemaChanges \/ TimePasses \/ UNCHANGED vars
  BY <1>7 DEF SchemaChanges, TimePasses, vars, Counted, Answered
<1>8. QED BY <1>1, <1>2, <1>3, <1>4, <1>5, <1>6, <1>7 DEF Next, Arrives, Proceeds

\* No request costs more than two Claude calls, one without commentary no more than
\* one, and an answer from the cache none (orchestrator.py:14-17).
THEOREM CallBudgetHolds == Spec => []CallBudget
<1>1. Init => Counted BY DEF Init, Counted, Answered
<1>2. Counted => CallBudget BY DEF Counted, CallBudget
<1>3. QED BY <1>1, <1>2, CountedStep, Inductive, PTL DEF Spec

LEMMA FreshStep == IInv /\ [Next]_vars => [FreshDelivery]_vars
<1> SUFFICES ASSUME IInv, Next PROVE FreshDelivery
  BY DEF vars
<1>1. SUFFICES ASSUME NEW d \in Request, outcome[d] # "answered", outcome'[d] = "answered"
               PROVE  now <= body'[d].ready + CacheTtl
  BY DEF FreshDelivery
<1>2. ASSUME NEW r \in Request, NEW a \in Asks, AskHit(r, a)
      PROVE  now <= body'[d].ready + CacheTtl
  <2>1. PICK answer : answer = Restamp(store[KeyOf(a)].value, r) OBVIOUS
  <2>2. now <= answer.ready + CacheTtl
    BY <1>2, <2>1, HitAnswer DEF AskHit, IInv
  <2>3. d = r /\ body'[r] = answer
    BY <1>1, <1>2, <2>1 DEF AskHit, Delivers, Ends, IInv, TypeOK
  <2>4. QED BY <2>2, <2>3
<1>3. ASSUME NEW r \in Request, QueryCompletes(r) \/ InsightReady(r)
      PROVE  now <= body'[d].ready + CacheTtl
  <2>1. PICK commentary \in Commentary :
          pc[r] \in {"executing", "commentary"} /\ Complete(r, commentary)
    BY <1>3, Completes DEF IInv
  <2>2. d = r /\ body'[d] = AnswerOf(r, commentary)
    BY <1>1, <2>1 DEF Complete, Delivers, Ends, AnswerOf, IInv, TypeOK
  <2>3. body'[d].ready = now BY <2>2 DEF AnswerOf
  <2>4. now \in Nat BY DEF IInv, TypeOK, Cache!TypeOK
  <2>5. QED BY <2>3, <2>4, Bounds
<1>4. ASSUME NEW r \in Request, NEW a \in Asks, AskWarm(r, a) \/ AskCold(r, a)
      PROVE  FALSE
  BY <1>1, <1>4 DEF AskWarm, AskCold, BuildPrompt, Fails, Ends, replyVars, IInv, TypeOK
<1>5. ASSUME NEW r \in Request,
             \/ SchemaReady(r) \/ SchemaFails(r) \/ SqlAccepted(r) \/ SqlRefused(r)
             \/ QueryFails(r) \/ QueryNeedsInsight(r)
      PROVE  FALSE
  BY <1>1, <1>5 DEF SchemaReady, SchemaFails, SqlAccepted, SqlRefused, QueryFails,
                    QueryNeedsInsight, BuildPrompt, Fails, Ends, replyVars, IInv, TypeOK
<1>6. CASE SchemaChanges \/ TimePasses
  BY <1>1, <1>6 DEF SchemaChanges, TimePasses, replyVars
<1>7. QED BY <1>2, <1>3, <1>4, <1>5, <1>6 DEF Next, Arrives, Proceeds

\* Nobody is given an answer older than the lifetime of the cache
\* (cache_service.py:40, orchestrator.py:97-104).
THEOREM FreshWhenDeliveredHolds == Spec => FreshWhenDelivered
<1>1. QED BY FreshStep, Inductive, PTL DEF Spec, FreshWhenDelivered

-----------------------------------------------------------------------------
(***************************************************************************)
(* The refinement.  A step of the handler of r moves only what AnswerService*)
(* knows of r; Mapped turns that into the functions of the mapping.        *)
(***************************************************************************)
OnlyOf(r) == \A d \in Request : d # r =>
  pc'[d] = pc[d] /\ arg'[d] = arg[d] /\ outcome'[d] = outcome[d] /\ body'[d] = body[d]

Phase == [r \in Request |-> PhaseOf(r)]
Wants == [r \in Request |-> WantOf(r)]
Given == [r \in Request |-> GivenOf(r)]

LEMMA Mapped ==
  ASSUME NEW r \in Request, OnlyOf(r), NEW p, NEW w, NEW g,
         PhaseOf(r)' = p, WantOf(r)' = w, GivenOf(r)' = g
  PROVE  /\ Phase' = [Phase EXCEPT ![r] = p]
         /\ Wants' = [Wants EXCEPT ![r] = w]
         /\ Given' = [Given EXCEPT ![r] = g]
<1>1. \A d \in Request : d # r => /\ PhaseOf(d)' = PhaseOf(d)
                                 /\ WantOf(d)' = WantOf(d) /\ GivenOf(d)' = GivenOf(d)
  BY DEF OnlyOf, PhaseOf, WantOf, GivenOf, KeyOf
<1>2. QED BY <1>1 DEF Phase, Wants, Given

LEMMA InitMapped == Init => Service!Init
BY DEF Init, Service!Init, PhaseOf, WantOf, GivenOf

LEMMA HitMapped ==
  ASSUME IInv, NEW r \in Request, NEW a \in Asks, AskHit(r, a)
  PROVE  \E k \in Key, d \in Request : Service!Reuse(r, k, d)
<1> DEFINE k == KeyOf(a)
<1>1. PICK answer : answer = Restamp(store[k].value, r) OBVIOUS
<1>2. PICK d : d = answer.sql.author OBVIOUS
<1>3. /\ answer \in Response /\ <<Normal[answer.question], answer.page>> = k
      /\ d \in Answered /\ body[d].sql = answer.sql /\ body[d].ready = answer.ready
      /\ KeyOf(arg[d]) = k /\ now <= answer.ready + CacheTtl
  BY <1>1, <1>2, HitAnswer DEF AskHit, IInv
<1>4. /\ pc[r] = "idle" /\ pc'[r] = "done" /\ outcome'[r] = "answered" /\ body'[r] = answer
      /\ arg'[r] = a /\ OnlyOf(r) /\ now' = now
  BY <1>1 DEF AskHit, Delivers, Ends, OnlyOf, IInv, TypeOK
<1>5. k \in Key /\ a # NoAsk /\ answer # NoBody
  BY <1>3, AskFields, OrchestratorAssumption
<1>6. d \in Request /\ pc[d] = "done" /\ outcome[d] = "answered" /\ body[d] # NoBody
  BY <1>3 DEF Answered, IInv, Phases, TypeOK
<1>7. <<Normal[body[d].question], body[d].page>> = k
  BY <1>3 DEF IInv, Bodies
<1>8. PhaseOf(r) = "idle" /\ PhaseOf(d) = "answered"
  BY <1>4, <1>6 DEF PhaseOf
<1>9. GivenOf(d) = [key |-> k, author |-> d, made |-> answer.ready]
  BY <1>2, <1>3, <1>6, <1>7 DEF GivenOf
<1>10. PhaseOf(r)' = "answered" /\ WantOf(r)' = k
  BY <1>4, <1>5 DEF PhaseOf, WantOf, KeyOf
<1>11. GivenOf(r)' = GivenOf(d)
  BY <1>2, <1>3, <1>4, <1>5, <1>9 DEF GivenOf
<1> HIDE DEF k
<1>12. PICK g : g = GivenOf(d) OBVIOUS
<1>13. /\ Phase' = [Phase EXCEPT ![r] = "answered"] /\ Wants' = [Wants EXCEPT ![r] = k]
       /\ Given' = [Given EXCEPT ![r] = g]
  BY <1>4, <1>10, <1>11, <1>12, Mapped
<1>14. Phase[r] = "idle" /\ Phase[d] = "answered" /\ Given[d] = g
  BY <1>6, <1>8, <1>12 DEF Phase, Given
<1>15. now <= g.made + CacheTtl /\ g.author = d /\ g.key = k
  BY <1>3, <1>9, <1>12
<1>16. Service!Reuse(r, k, d)
  BY <1>4, <1>13, <1>14, <1>15 DEF Service!Reuse, Phase, Wants, Given
<1>17. QED BY <1>5, <1>6, <1>16

\* A request that starts to be worked on, or is refused before any suspension.
LEMMA MissMapped ==
  ASSUME IInv, NEW r \in Request, NEW a \in Asks, AskWarm(r, a) \/ AskCold(r, a)
  PROVE  \E k \in Key : Service!Ask(r, k) \/ Service!RefuseAtOnce(r, k)
<1>1. /\ pc[r] = "idle" /\ arg'[r] = a /\ body'[r] = body[r] /\ OnlyOf(r) /\ now' = now
      /\ \/ pc'[r] = "done" /\ outcome'[r] = "prompt_failed"
         \/ pc'[r] # "idle" /\ outcome'[r] = outcome[r]
  BY DEF AskWarm, AskCold, BuildPrompt, Fails, Ends, replyVars, OnlyOf, IInv, TypeOK
<1>2. outcome[r] = "none" BY <1>1 DEF IInv, Phases
<1>3. PICK k \in Key : k = KeyOf(a) BY AskFields
<1>4. PICK g : g = GivenOf(r) OBVIOUS
<1>5. PICK p \in {"waiting", "refused"} : p = PhaseOf(r)'
  BY <1>1, <1>2 DEF PhaseOf
<1>6. PhaseOf(r) = "idle" /\ WantOf(r)' = k /\ GivenOf(r)' = g
  BY <1>1, <1>3, <1>4, AskFields DEF PhaseOf, WantOf, GivenOf, KeyOf
<1>7. /\ Phase' = [Phase EXCEPT ![r] = p] /\ Wants' = [Wants EXCEPT ![r] = k]
      /\ Given' = [Given EXCEPT ![r] = g]
  BY <1>1, <1>5, <1>6, Mapped
<1>8. Given' = Given BY <1>4, <1>7 DEF Given
<1>9. Phase[r] = "idle" BY <1>6 DEF Phase
<1>10. QED BY <1>1, <1>5, <1>7, <1>8, <1>9
           DEF Service!Ask, Service!RefuseAtOnce, Phase, Wants, Given

\* A request that is worked on goes on or is refused.
LEMMA WorkMapped ==
  ASSUME IInv, NEW r \in Request, pc[r] \notin {"idle", "done"}, OnlyOf(r),
         arg'[r] = arg[r], body'[r] = body[r], now' = now, pc'[r] # "idle",
         outcome'[r] # "answered"
  PROVE  Service!Refuse(r) \/ UNCHANGED Service!serviceVars
<1>1. outcome[r] = "none" BY DEF IInv, Phases
<1>2. PICK w : w = WantOf(r) OBVIOUS
<1>3. PICK g : g = GivenOf(r) OBVIOUS
<1>4. PICK p \in {"waiting", "refused"} : p = PhaseOf(r)'
  BY DEF PhaseOf
<1>5. PhaseOf(r) = "waiting" /\ WantOf(r)' = w /\ GivenOf(r)' = g
  BY <1>1, <1>2, <1>3 DEF PhaseOf, WantOf, GivenOf, KeyOf
<1>6. /\ Phase' = [Phase EXCEPT ![r] = p] /\ Wants' = [Wants EXCEPT ![r] = w]
      /\ Given' = [Given EXCEPT ![r] = g]
  BY <1>4, <1>5, Mapped
<1>7. Wants' = Wants /\ Given' = Given /\ Phase[r] = "waiting"
  BY <1>2, <1>3, <1>5, <1>6 DEF Wants, Given, Phase
<1>8. p = "waiting" => Phase' = Phase BY <1>5, <1>6 DEF Phase
<1>9. QED BY <1>4, <1>6, <1>7, <1>8
          DEF Service!Refuse, Service!serviceVars, Phase, Wants, Given

LEMMA CompleteMapped ==
  ASSUME IInv, NEW r \in Request, QueryCompletes(r) \/ InsightReady(r)
  PROVE  Service!Produce(r)
<1>1. PICK commentary \in Commentary :
        pc[r] \in {"executing", "commentary"} /\ Complete(r, commentary)
  BY Completes DEF IInv
<1>2. PICK answer \in Response : answer = AnswerOf(r, commentary)
  BY <1>1, AnswerType DEF IInv
<1>3. /\ pc'[r] = "done" /\ outcome'[r] = "answered" /\ body'[r] = answer
      /\ arg'[r] = arg[r] /\ OnlyOf(r) /\ now' = now
  BY <1>1, <1>2 DEF Complete, Delivers, Ends, AnswerOf, OnlyOf, IInv, TypeOK
<1>4. PICK k : k = KeyOf(arg[r]) OBVIOUS
<1>5. /\ <<Normal[answer.question], answer.page>> = k /\ answer.sql.author = r
      /\ answer.ready = now
  BY <1>1, <1>2, <1>4 DEF AnswerOf, KeyOf, IInv, Phases
<1>6. arg[r] # NoAsk /\ outcome[r] = "none" /\ answer # NoBody
  BY <1>1, OrchestratorAssumption DEF IInv, Phases
<1>7. PICK g : g = [key |-> k, author |-> r, made |-> now] OBVIOUS
<1>8. PhaseOf(r) = "waiting" /\ WantOf(r) = k
  BY <1>1, <1>4, <1>6 DEF PhaseOf, WantOf
<1>9. PhaseOf(r)' = "answered" /\ WantOf(r)' = k /\ GivenOf(r)' = g
  BY <1>3, <1>4, <1>5, <1>6, <1>7 DEF PhaseOf, WantOf, GivenOf, KeyOf
<1>10. /\ Phase' = [Phase EXCEPT ![r] = "answered"] /\ Wants' = [Wants EXCEPT ![r] = k]
       /\ Given' = [Given EXCEPT ![r] = g]
  BY <1>3, <1>9, Mapped
<1>11. Phase[r] = "waiting" /\ Wants[r] = k BY <1>8 DEF Phase, Wants
<1>12. Wants' = Wants BY <1>10, <1>11 DEF Wants
<1>13. QED BY <1>3, <1>7, <1>10, <1>11, <1>12 DEF Service!Produce, Phase, Wants, Given

LEMMA StepMapped == IInv /\ [Next]_vars => [Service!Next]_(Service!serviceVars)
<1> SUFFICES ASSUME IInv, [Next]_vars
             PROVE  Service!Next \/ UNCHANGED Service!serviceVars
  OBVIOUS
<1>1. ASSUME NEW r \in Request, NEW a \in Asks, AskHit(r, a) PROVE Service!Next
  BY <1>1, HitMapped DEF Service!Next
<1>2. ASSUME NEW r \in Request, NEW a \in Asks, AskWarm(r, a) \/ AskCold(r, a)
      PROVE  Service!Next
  BY <1>2, MissMapped DEF Service!Next
<1>3. ASSUME NEW r \in Request, QueryCompletes(r) \/ InsightReady(r) PROVE Service!Next
  BY <1>3, CompleteMapped DEF Service!Next
<1>4. ASSUME NEW r \in Request,
             \/ SchemaReady(r) \/ SchemaFails(r) \/ SqlAccepted(r) \/ SqlRefused(r)
             \/ QueryFails(r) \/ QueryNeedsInsight(r)
      PROVE  Service!Next \/ UNCHANGED Service!serviceVars
  <2>1. pc[r] \notin {"idle", "done"}
    BY <1>4 DEF SchemaReady, SchemaFails, SqlAccepted, SqlRefused, QueryFails, QueryNeedsInsight
  <2>2. outcome[r] = "none" BY <2>1 DEF IInv, Phases
  <2>3. /\ OnlyOf(r) /\ arg'[r] = arg[r] /\ body'[r] = body[r] /\ now' = now /\ pc'[r] # "idle"
        /\ outcome'[r] # "answered"
    BY <1>4, <2>2
       DEF SchemaReady, SchemaFails, SqlAccepted, SqlRefused, QueryFails, QueryNeedsInsight,
           BuildPrompt, Fails, Ends, replyVars, OnlyOf, IInv, TypeOK
  <2>4. QED BY <2>1, <2>3, WorkMapped DEF Service!Next
<1>5. ASSUME UNCHANGED <<pc, arg, outcome, body>>
      PROVE  Phase' = Phase /\ Wants' = Wants /\ Given' = Given
  BY <1>5 DEF Phase, Wants, Given, PhaseOf, WantOf, GivenOf, KeyOf
<1>6. CASE SchemaChanges \/ UNCHANGED vars
  BY <1>5, <1>6 DEF SchemaChanges, replyVars, vars, Service!serviceVars, Phase, Wants, Given
<1>7. CASE TimePasses
  <2>1. Service!TimePasses
    BY <1>5, <1>7 DEF TimePasses, Cache!Tick, replyVars, Service!TimePasses, Phase, Wants, Given
  <2>2. QED BY <2>1 DEF Service!Next
<1>8. QED BY <1>1, <1>2, <1>3, <1>4, <1>6, <1>7 DEF Next, Arrives, Proceeds

\* The orchestrator with its cache and its memory is an AnswerService: an answer
\* is made for its request, or is one that somebody was given for the same
\* question and page within its lifetime (orchestrator.py:74-218).
THEOREM Refinement == Spec => ImplementsService
<1>1. QED BY InitMapped, StepMapped, Inductive, PTL DEF Spec, ImplementsService, Service!Spec


-----------------------------------------------------------------------------
(* The page. *)

LEMMA BodySent ==
  ASSUME NEW q \in Question, NEW p \in Page, NEW s \in Session,
         NEW insight \in Insight, NEW template \in Template
  PROVE  [question |-> q, page |-> p, session |-> s, insight |-> insight,
          template |-> template] \in Asks
BY ChatAssumption

-----------------------------------------------------------------------------
(***************************************************************************)
(* The inductive invariant, on top of that of the pipeline.                *)
(***************************************************************************)
FormAsks(r) == phase[r] = "fetching" /\ sent[r].insight # "none"

\* A result on the screen is one that the pipeline gave; a request that was refused
\* on its way never reaches it.
Deliveries ==
  /\ results \subseteq Answered
  /\ \A r \in Request : phase[r] = "settled" => pc[r] \in {"idle", "done"}

\* The form waits for one answer at a time, and then its button is disabled.
OneAtATime ==
  \A r \in Request : FormAsks(r) => busy /\ \A d \in Request : FormAsks(d) => d = r

\* The questions of the current session are on the screen, each once, and all but
\* the last one no longer wait.
OnScreen ==
  /\ \A r \in Request : /\ sent[r] # NoAsk /\ sent[r].session = session
                        /\ sent[r].page \in FirstPage
                        => \E j \in 1 .. Len(asked) : asked[j] = r
  /\ \A j \in 1 .. Len(asked) : sent[asked[j]] # NoAsk /\ sent[asked[j]].insight # "none"
  /\ \A i, j \in 1 .. Len(asked) : i < j => asked[i] # asked[j] /\ phase[asked[i]] # "fetching"

\* The author of turn i of session s.
By(s, i) == sessions[s][i].sql.author

InOrder(s) ==
  \A i, j \in 1 .. Len(sessions[s]), a, b \in 1 .. Len(asked) :
    i < j /\ asked[a] = By(s, i) /\ asked[b] = By(s, j) => a < b \/ phase[By(s, j)] = "lost"

PageInv == PageFields /\ Deliveries /\ OneAtATime /\ OnScreen /\ InOrder(session)

ChatInv == IInv /\ PageInv

LEMMA ChatInitInv == ChatInit => ChatInv
<1> SUFFICES ASSUME ChatInit PROVE ChatInv
  OBVIOUS
<1> USE DEF ChatInit, Browser!PageInit
<1>1. IInv BY InitIInv
<1>2. asked \in Seq(Request) /\ Len(asked) = 0 BY EmptySeq
<1>3. PageFields BY <1>2 DEF PageFields, Init, Browser!Phase
<1>4. Deliveries /\ OneAtATime BY DEF Deliveries, OneAtATime, FormAsks
<1>5. OnScreen BY <1>2 DEF OnScreen
<1>6. InOrder(session) BY <1>2 DEF InOrder
<1>7. QED BY <1>1, <1>3, <1>4, <1>5, <1>6 DEF ChatInv, PageInv

-----------------------------------------------------------------------------
(* Every step of the chat is one of the pipeline, or leaves it alone. *)
LEMMA PipelineStep ==
  ASSUME PageFields, [ChatNext]_chatVars
  PROVE  [Next]_vars
<1>1. ASSUME NEW r \in Request, Reaches(r) PROVE Arrives(r)
  <2>1. sent[r] \in Asks BY <1>1 DEF Reaches, PageFields
  <2>2. QED BY <1>1, <2>1 DEF Reaches, Arrives
<1>2. QED
  BY <1>1 DEF ChatNext, chatVars, vars, Next, Handled, AskQuestion, NextPage, StartAgain,
              Refused, Broken, Shown, Otherwise

-----------------------------------------------------------------------------
(***************************************************************************)
(* What a step of the pipeline does to the page's invariant.               *)
(***************************************************************************)
LEMMA ReachesMoves ==
  ASSUME IInv, PageFields, NEW r \in Request, Reaches(r)
  PROVE  /\ sent[r] \in Asks /\ pc[r] = "idle" /\ pc'[r] # "idle"
         /\ arg' = [arg EXCEPT ![r] = sent[r]]
         /\ \A d \in Request : d # r => pc'[d] = pc[d] /\ outcome'[d] = outcome[d]
         /\ sessions' \in {sessions, Memory!KeptTurns}
<1> USE DEF Fails, Delivers, Ends, replyVars, memVars, IInv, TypeOK
<1>1. sent[r] \in Asks BY DEF Reaches, PageFields
<1>2. ASSUME AskHit(r, sent[r])
      PROVE  /\ pc[r] = "idle" /\ pc'[r] # "idle" /\ arg' = [arg EXCEPT ![r] = sent[r]]
             /\ \A d \in Request : d # r => pc'[d] = pc[d] /\ outcome'[d] = outcome[d]
             /\ sessions' \in {sessions, Memory!KeptTurns}
  BY <1>2 DEF AskHit
<1>3. ASSUME AskWarm(r, sent[r])
      PROVE  /\ pc[r] = "idle" /\ pc'[r] # "idle" /\ arg' = [arg EXCEPT ![r] = sent[r]]
             /\ \A d \in Request : d # r => pc'[d] = pc[d] /\ outcome'[d] = outcome[d]
             /\ sessions' \in {sessions, Memory!KeptTurns}
  BY <1>3 DEF AskWarm, BuildPrompt, Memory!Touch
<1>4. ASSUME AskCold(r, sent[r])
      PROVE  /\ pc[r] = "idle" /\ pc'[r] # "idle" /\ arg' = [arg EXCEPT ![r] = sent[r]]
             /\ \A d \in Request : d # r => pc'[d] = pc[d] /\ outcome'[d] = outcome[d]
             /\ sessions' \in {sessions, Memory!KeptTurns}
  BY <1>4 DEF AskCold, Memory!GetHistory, Memory!Touch
<1>5. QED BY <1>1, <1>2, <1>3, <1>4 DEF Reaches

LEMMA HandledMoves ==
  ASSUME IInv, NEW r \in Request, Proceeds(r)
  PROVE  /\ pc[r] \notin {"idle", "done"} /\ pc'[r] # "idle" /\ arg' = arg
         /\ \A d \in Request : d # r => pc'[d] = pc[d] /\ outcome'[d] = outcome[d]
         /\ \/ sessions' = sessions
            \/ /\ pc[r] \in {"executing", "commentary"}
               /\ \E commentary \in Commentary : Complete(r, commentary)
<1> USE DEF Fails, Delivers, Ends, replyVars, memVars, IInv, TypeOK
<1>1. CASE SchemaReady(r)
  BY <1>1 DEF SchemaReady, BuildPrompt, Memory!Forget
<1>2. CASE SchemaFails(r)
  BY <1>2 DEF SchemaFails, Memory!Forget
<1>3. CASE SqlAccepted(r) \/ SqlRefused(r) \/ QueryFails(r) \/ QueryNeedsInsight(r)
  BY <1>3 DEF SqlAccepted, SqlRefused, QueryFails, QueryNeedsInsight
<1>4. CASE QueryCompletes(r) \/ InsightReady(r)
  <2>1. PICK commentary \in Commentary :
          pc[r] \in {"executing", "commentary"} /\ Complete(r, commentary)
    BY <1>4, Completes
  <2>2. QED BY <2>1 DEF Complete
<1>5. QED BY <1>1, <1>2, <1>3, <1>4 DEF Proceeds

\* What the pipeline does to where requests are, in one place.
Moves ==
  /\ \A d \in Request : pc'[d] # "idle" => \/ pc[d] # "idle" /\ arg'[d] = arg[d]
                                           \/ phase[d] \in {"fetching", "lost"} /\ arg'[d] = sent[d]
  /\ \A d \in Request : pc[d] \in {"idle", "done"} /\ phase[d] = "settled" =>
       pc'[d] \in {"idle", "done"}
  /\ Answered \subseteq Answered'

LEMMA PipelineMoves ==
  ASSUME ChatInv, UNCHANGED pageVars,
         (\E r \in Request : Reaches(r) \/ Handled(r)) \/ Otherwise
  PROVE  Moves
<1> USE DEF ChatInv, PageInv
<1>0. Settled
  BY PipelineStep, StepSettled DEF ChatNext, chatVars, vars, Settled, IInv
<1>1. Answered \subseteq Answered'
  BY <1>0 DEF Settled, Answered, IInv, Phases, TypeOK
<1>2. ASSUME NEW r \in Request, Reaches(r) PROVE Moves
  <2>1. phase[r] \in {"fetching", "lost"} BY <1>2 DEF Reaches
  <2>2. QED BY <1>1, <1>2, <2>1, ReachesMoves DEF Moves, IInv, TypeOK
<1>3. ASSUME NEW r \in Request, Handled(r) PROVE Moves
  <2>1. Proceeds(r) BY <1>3 DEF Handled
  <2>2. QED BY <1>1, <2>1, HandledMoves DEF Moves
<1>4. CASE Otherwise
  BY <1>1, <1>4 DEF Otherwise, SchemaChanges, TimePasses, Moves
<1>5. QED BY <1>2, <1>3, <1>4

LEMMA PipelineKeepsPage ==
  ASSUME ChatInv, UNCHANGED pageVars, Moves
  PROVE  PageFields' /\ Deliveries' /\ OneAtATime' /\ OnScreen'
<1> USE DEF ChatInv, PageInv, pageVars
<1>1. PageFields'
  <2>1. ASSUME NEW d \in Request, pc'[d] # "idle" PROVE sent[d] # NoAsk /\ arg'[d] = sent[d]
    BY <2>1 DEF Moves, PageFields
  <2>2. QED BY <2>1 DEF PageFields
<1>2. Deliveries' BY DEF Deliveries, Moves
<1>3. OneAtATime' BY DEF OneAtATime, FormAsks
<1>4. OnScreen' BY DEF OnScreen
<1>5. QED BY <1>1, <1>2, <1>3, <1>4

-----------------------------------------------------------------------------
(***************************************************************************)
(* The order of the turns.  What session s remembers after a step are      *)
(* turns that it remembered before, in the same order, and at the end      *)
(* perhaps the turn of a request that completes just now.                  *)
(***************************************************************************)
Follows(s, i, j) ==
  \/ \E k, l \in 1 .. Len(sessions[s]) : k < l /\ By(s, k) = By(s, i)' /\ By(s, l) = By(s, j)'
  \/ \E r \in Request : r = By(s, j)' /\ pc[r] \in {"executing", "commentary"}

LEMMA KeptFollow ==
  ASSUME NEW s \in Session, sessions'[s] \in {sessions[s], <<>>}
  PROVE  \A i, j \in 1 .. Len(sessions'[s]) : i < j => Follows(s, i, j)
<1>1. CASE sessions'[s] = sessions[s]
  BY <1>1 DEF Follows, By
<1>2. CASE sessions'[s] = <<>>
  <2>1. Len(sessions'[s]) = 0 BY <1>2
  <2>2. QED BY <2>1
<1>3. QED BY <1>1, <1>2

LEMMA TurnsFollow ==
  ASSUME ChatInv, UNCHANGED pageVars, NEW s \in Session,
         (\E r \in Request : Reaches(r) \/ Handled(r)) \/ Otherwise
  PROVE  \A i, j \in 1 .. Len(sessions'[s]) : i < j => Follows(s, i, j)
<1> USE DEF ChatInv, PageInv
<1>0. Settled
  BY PipelineStep, StepSettled DEF ChatNext, chatVars, vars, Settled, IInv
<1>1. ASSUME sessions' \in {sessions, Memory!KeptTurns}
      PROVE  \A i, j \in 1 .. Len(sessions'[s]) : i < j => Follows(s, i, j)
  <2>1. sessions'[s] \in {sessions[s], <<>>} BY <1>1 DEF Memory!KeptTurns
  <2>2. QED BY <2>1, KeptFollow
<1>2. ASSUME NEW r \in Request, Reaches(r)
      PROVE  sessions' \in {sessions, Memory!KeptTurns}
  BY <1>2, ReachesMoves
<1>3. CASE Otherwise
  BY <1>1, <1>3 DEF Otherwise, SchemaChanges, TimePasses, memVars
<1>4. ASSUME NEW r \in Request, NEW commentary \in Commentary,
             pc[r] \in {"executing", "commentary"}, Complete(r, commentary)
      PROVE  \A i, j \in 1 .. Len(sessions'[s]) : i < j => Follows(s, i, j)
  <2>1. CASE ~Remembers(arg[r])
    BY <1>1, <1>4, <2>1 DEF Complete, memVars
  <2> DEFINE t == [question |-> arg[r].question, sql |-> sql[r]]
             old == Memory!KeptTurns[arg[r].session]
             turns == Append(old, t)
             window == IF Memory!Overflows(turns) THEN Memory!LastTurns(turns) ELSE turns
  <2>2. CASE Remembers(arg[r])
    <3>1. arg[r] \in Asks /\ arg[r].session \in Session
      BY <1>4, <2>2, Sent, AskFields DEF IInv, Remembers
    <3>2. t \in Turn /\ t.sql.author = r
      BY <1>4, <3>1, AskFields DEF IInv, Phases, Turn
    <3>3. /\ old \in Seq(Turn) /\ Len(old) <= MaxTurns
          /\ old = <<>> \/ old = sessions[arg[r].session]
      BY <1>0, <3>1, KeptReads DEF IInv, Memory!KeptTurns
    <3>4. sessions' = [Memory!KeptTurns EXCEPT ![arg[r].session] = window]
      BY <1>4, <2>2 DEF Complete, Memory!AddTurn
    <3>5. CASE s # arg[r].session
      <4>1. sessions'[s] \in {sessions[s], <<>>}
        BY <3>4, <3>5 DEF Memory!KeptTurns
      <4>2. QED BY <4>1, KeptFollow
    <3>6. CASE s = arg[r].session
      <4>1. sessions'[s] = window BY <3>1, <3>4, <3>6 DEF Memory!KeptTurns
      <4>2. /\ Len(turns) = Len(old) + 1
            /\ \A i \in 1 .. Len(old) : turns[i] = old[i]
            /\ turns[Len(old) + 1] = t
        BY <3>2, <3>3, Window
      <4>3. PICK off \in Nat : \A i \in 1 .. Len(window) :
              i + off \in 1 .. Len(turns) /\ window[i] = turns[i + off]
        BY <3>2, <3>3, Window
      <4>4. Len(old) \in Nat BY <3>3, LenProperties
      <4>5. \A n \in 1 .. Len(turns) : n <= Len(old) => n \in 1 .. Len(sessions[s]) /\ turns[n] = sessions[s][n]
        <5>1. CASE old = <<>> BY <5>1, EmptyTurns
        <5>2. CASE old = sessions[s] BY <4>2, <4>4, <5>2
        <5>3. QED BY <3>3, <3>6, <5>1, <5>2
      <4> HIDE DEF t, old, turns, window
      <4>6. SUFFICES ASSUME NEW i \in 1 .. Len(window), NEW j \in 1 .. Len(window), i < j
                     PROVE  Follows(s, i, j)
        BY <4>1
      <4>7. /\ By(s, i)' = turns[i + off].sql.author /\ By(s, j)' = turns[j + off].sql.author
            /\ i + off \in 1 .. Len(turns) /\ j + off \in 1 .. Len(turns) /\ i + off < j + off
        BY <4>1, <4>3, <4>6 DEF By
      <4>8. CASE j + off = Len(old) + 1
        BY <1>4, <3>2, <4>2, <4>7, <4>8 DEF Follows
      <4>9. CASE j + off <= Len(old)
        <5>1. i + off <= Len(old) BY <4>4, <4>7, <4>9
        <5>2. QED BY <4>5, <4>7, <4>9, <5>1 DEF Follows, By
      <4>10. QED BY <4>2, <4>4, <4>7, <4>8, <4>9
    <3>7. QED BY <3>5, <3>6
  <2>3. QED BY <2>1, <2>2
<1>5. ASSUME NEW r \in Request, Handled(r)
      PROVE  \A i, j \in 1 .. Len(sessions'[s]) : i < j => Follows(s, i, j)
  <2>1. Proceeds(r) BY <1>5 DEF Handled
  <2>2. \/ sessions' = sessions
        \/ /\ pc[r] \in {"executing", "commentary"}
           /\ \E commentary \in Commentary : Complete(r, commentary)
    BY <2>1, HandledMoves
  <2>3. QED BY <1>1, <1>4, <2>2
<1>6. QED BY <1>1, <1>2, <1>3, <1>5

\* A turn that is added last was either asked last, or its request has been given up.
LEMMA PipelineKeepsOrder ==
  ASSUME ChatInv, IInv', UNCHANGED pageVars,
         (\E r \in Request : Reaches(r) \/ Handled(r)) \/ Otherwise
  PROVE  InOrder(session)'
<1> USE DEF ChatInv, PageInv
<1>1. session \in Session /\ session' = session /\ asked' = asked /\ phase' = phase
  BY DEF PageFields, pageVars
<1>2. SUFFICES ASSUME NEW i \in 1 .. Len(sessions'[session]), NEW j \in 1 .. Len(sessions'[session]),
                      NEW a \in 1 .. Len(asked), NEW b \in 1 .. Len(asked), i < j,
                      asked[a] = By(session, i)', asked[b] = By(session, j)'
               PROVE  a < b \/ phase[By(session, j)'] = "lost"
  BY <1>1 DEF InOrder, By
<1>3. Follows(session, i, j) BY <1>1, <1>2, TurnsFollow
<1>4. CASE \E k, l \in 1 .. Len(sessions[session]) :
             k < l /\ By(session, k) = By(session, i)' /\ By(session, l) = By(session, j)'
  BY <1>2, <1>4 DEF InOrder
<1>5. ASSUME NEW r \in Request, r = By(session, j)', pc[r] \in {"executing", "commentary"}
      PROVE  a < b \/ phase[By(session, j)'] = "lost"
  <2>1. phase[r] \in {"fetching", "lost"}
    BY <1>5 DEF PageFields, Browser!Phase, Deliveries
  <2>2. a # b
    <3>1. OnceEach(sessions'[session]) BY <1>1 DEF IInv, Remembered, OnceEach
    <3>2. a = b => i = j BY <1>1, <1>2, <3>1 DEF OnceEach, By
    <3>3. QED BY <1>2, <3>2
  <2>3. a \in Int /\ b \in Int OBVIOUS
  <2>4. CASE b < a BY <1>2, <1>5, <2>1, <2>4 DEF OnScreen
  <2>5. QED BY <2>2, <2>3, <2>4
<1>6. QED BY <1>3, <1>4, <1>5 DEF Follows

-----------------------------------------------------------------------------
(***************************************************************************)
(* What the page does.                                                     *)
(***************************************************************************)

\* The screen's questions stay where they are when one is added.
LEMMA AskStep ==
  ASSUME ChatInv, NEW r \in Request, AskQuestion(r)
  PROVE  PageInv'
<1> USE DEF ChatInv, PageInv, Browser!Ask, Browser!Sends, PageFields, Browser!Phase
<1>1. PICK q \in Question, p \in FirstPage : Browser!Ask(r, q, p) /\ UNCHANGED vars
  BY DEF AskQuestion
<1> DEFINE new == [question |-> q, page |-> p, session |-> session,
                   insight |-> setting.insight, template |-> setting.template]
<1>2. /\ phase[r] = "unsent" /\ sent[r] = NoAsk /\ pc[r] = "idle" /\ ~busy /\ busy' = TRUE
      /\ phase' = [phase EXCEPT ![r] = "fetching"] /\ sent' = [sent EXCEPT ![r] = new]
      /\ session' = session /\ setting' = setting /\ results' = results
      /\ pc' = pc /\ arg' = arg /\ outcome' = outcome /\ sessions' = sessions
  BY <1>1 DEF vars
<1>3. new \in Asks /\ new # NoAsk /\ setting.insight # "none"
  BY ChatAssumption, BodySent, AskFields
<1>4. /\ asked' \in Seq(Request) /\ Len(asked') = Len(asked) + 1 /\ Len(asked) \in Nat
      /\ \A j \in 1 .. Len(asked) : asked'[j] = asked[j] /\ asked[j] \in Request
      /\ asked'[Len(asked) + 1] = r
  BY <1>1, AppendProperties, LenProperties, ElementOfSeq
<1>5. \A j \in 1 .. Len(asked') : j \in 1 .. Len(asked) \/ j = Len(asked) + 1
  BY <1>4
<1> HIDE DEF new
<1>6. PageFields' BY <1>2, <1>3, <1>4
<1>7. Deliveries' BY <1>2 DEF Deliveries, Answered
<1>8. OneAtATime' BY <1>2 DEF OneAtATime, FormAsks
<1>9. OnScreen'
  <2>1. new.session = session /\ new.insight # "none" BY <1>3 DEF new
  <2>2. ASSUME NEW d \in Request, sent'[d] # NoAsk, sent'[d].session = session,
               sent'[d].page \in FirstPage
        PROVE  \E j \in 1 .. Len(asked') : asked'[j] = d
    <3>1. CASE d = r BY <1>4, <3>1
    <3>2. CASE d # r BY <1>2, <1>4, <2>2, <3>2 DEF OnScreen
    <3>3. QED BY <3>1, <3>2
  <2>3. \A j \in 1 .. Len(asked) : asked[j] # r /\ phase[asked[j]] # "fetching"
    BY <1>2, <1>4 DEF OnScreen, OneAtATime, FormAsks
  <2>4. ASSUME NEW j \in 1 .. Len(asked')
        PROVE  sent'[asked'[j]] # NoAsk /\ sent'[asked'[j]].insight # "none"
    BY <1>2, <1>3, <1>4, <1>5, <2>1, <2>3 DEF OnScreen
  <2>5. ASSUME NEW i \in 1 .. Len(asked'), NEW j \in 1 .. Len(asked'), i < j
        PROVE  asked'[i] # asked'[j] /\ phase'[asked'[i]] # "fetching"
    <3>1. i \in 1 .. Len(asked) BY <1>4, <2>5
    <3>2. QED BY <1>2, <1>4, <1>5, <2>3, <2>5, <3>1 DEF OnScreen
  <2>6. QED BY <1>2, <2>2, <2>4, <2>5 DEF OnScreen
<1>10. InOrder(session)'
  <2>1. \A i \in 1 .. Len(sessions[session]) : By(session, i) \in Answered
    BY DEF IInv, Remembered, AllOK, TurnOK, By
  <2>2. \A i \in 1 .. Len(sessions[session]) : By(session, i) # r
    BY <1>2, <2>1 DEF IInv, Phases, Answered
  <2>3. SUFFICES ASSUME NEW i \in 1 .. Len(sessions'[session']), NEW j \in 1 .. Len(sessions'[session']),
                        NEW a \in 1 .. Len(asked'), NEW b \in 1 .. Len(asked'), i < j,
                        asked'[a] = By(session, i)', asked'[b] = By(session, j)'
                 PROVE  a < b \/ phase'[By(session, j)'] = "lost"
    BY DEF InOrder
  <2>4. /\ i \in 1 .. Len(sessions[session]) /\ j \in 1 .. Len(sessions[session])
        /\ asked'[a] = By(session, i) /\ asked'[b] = By(session, j)
        /\ By(session, j)' = By(session, j)
    BY <1>2, <2>3 DEF By
  <2>5. a \in 1 .. Len(asked) /\ b \in 1 .. Len(asked)
    BY <1>4, <1>5, <2>2, <2>3, <2>4
  <2>6. a < b \/ phase[By(session, j)] = "lost"
    BY <1>4, <2>3, <2>5, <2>4 DEF InOrder
  <2>7. By(session, j) \in Request BY <1>4, <2>5, <2>4
  <2>8. QED BY <1>2, <2>2, <2>6, <2>7, <2>4
<1>11. QED BY <1>6, <1>7, <1>8, <1>9, <1>10

LEMMA NextPageStep ==
  ASSUME ChatInv, NEW r \in Request, NextPage(r)
  PROVE  PageInv'
<1> USE DEF ChatInv, PageInv, Browser!LoadPage, Browser!Sends, PageFields, Browser!Phase
<1>0. PICK o \in results :
        (\E p \in Following[body[o].page] : Browser!LoadPage(r, body[o].question, p)) /\ UNCHANGED vars
  BY DEF NextPage
<1>1. PICK p \in Following[body[o].page] :
        Browser!LoadPage(r, body[o].question, p) /\ UNCHANGED vars
  BY <1>0
<1> DEFINE new == [question |-> body[o].question, page |-> p, session |-> session,
                   insight |-> "none", template |-> "usable"]
<1>2. /\ phase[r] = "unsent" /\ sent[r] = NoAsk /\ pc[r] = "idle"
      /\ phase' = [phase EXCEPT ![r] = "fetching"] /\ sent' = [sent EXCEPT ![r] = new]
      /\ session' = session /\ setting' = setting /\ results' = results
      /\ busy' = busy /\ asked' = asked
      /\ pc' = pc /\ arg' = arg /\ outcome' = outcome /\ sessions' = sessions
  BY <1>1 DEF vars
<1>3. body[o] \in Response
  BY DEF Deliveries, Answered, IInv, Phases, TypeOK
<1>4. body[o].question \in Question /\ p \in Page \ FirstPage
  BY <1>3, ChatAssumption DEF Response
<1>5. new \in Asks /\ new # NoAsk
  BY <1>4, BodySent, AskFields DEF Insight, Template
<1>6. new.insight = "none" /\ new.page \notin FirstPage BY <1>4
<1>7. \A j \in 1 .. Len(asked) : asked[j] # r /\ asked[j] \in Request
  BY <1>2, ElementOfSeq DEF OnScreen
<1> HIDE DEF new
<1>8. PageFields' BY <1>2, <1>5
<1>9. Deliveries' BY <1>2 DEF Deliveries, Answered
<1>10. OneAtATime' BY <1>2, <1>6 DEF OneAtATime, FormAsks
<1>11. OnScreen'
  BY <1>2, <1>6, <1>7 DEF OnScreen
<1>12. InOrder(session)'
  BY <1>2, <1>7 DEF InOrder, By
<1>13. QED BY <1>8, <1>9, <1>10, <1>11, <1>12

\* A request is no longer awaited.
LEMMA LeavesStep ==
  ASSUME ChatInv, NEW r \in Request, NEW then \in {"settled", "lost"}, phase[r] = "fetching",
         UNCHANGED <<vars, session, setting, sent, asked>>,
         phase' = [phase EXCEPT ![r] = then], busy' = (busy /\ sent[r].insight = "none"),
         results' \subseteq results \cup ({r} \cap Answered),
         then = "settled" => pc[r] \in {"idle", "done"}
  PROVE  PageInv'
<1> USE DEF ChatInv, PageInv
<1>1. /\ pc' = pc /\ arg' = arg /\ outcome' = outcome /\ sessions' = sessions
      /\ session' = session /\ setting' = setting /\ sent' = sent /\ asked' = asked
  BY DEF vars
<1>2. PageFields'
  <2>1. busy' \in BOOLEAN /\ results' \subseteq Request
    BY DEF PageFields, Answered
  <2>2. phase' \in [Request -> Browser!Phase]
        /\ \A d \in Request : phase'[d] = "unsent" <=> phase[d] = "unsent"
    BY DEF PageFields, Browser!Phase
  <2>3. QED BY <1>1, <2>1, <2>2 DEF PageFields
<1>3. Deliveries' BY <1>1 DEF Deliveries, Answered, PageFields
<1>4. OneAtATime'
  <2>1. \A d \in Request : FormAsks(d)' => FormAsks(d) /\ d # r
    BY <1>1 DEF FormAsks, PageFields
  <2>2. ASSUME NEW d \in Request, FormAsks(d)' PROVE busy'
    <3>1. FormAsks(d) /\ d # r BY <2>1, <2>2
    <3>2. sent[r].insight = "none" BY <3>1 DEF OneAtATime, FormAsks
    <3>3. QED BY <3>1, <3>2 DEF OneAtATime
  <2>3. QED BY <2>1, <2>2 DEF OneAtATime
<1>5. \A j \in 1 .. Len(asked) : asked[j] \in Request
  BY ElementOfSeq DEF PageFields
<1>6. OnScreen' BY <1>1, <1>5 DEF OnScreen, PageFields
<1>7. InOrder(session)' BY <1>1, <1>5 DEF InOrder, By, PageFields
<1>8. QED BY <1>2, <1>3, <1>4, <1>6, <1>7

LEMMA StartAgainStep ==
  ASSUME ChatInv, StartAgain
  PROVE  PageInv'
<1> USE DEF ChatInv, PageInv
<1>1. CASE Browser!NewChat /\ UNCHANGED vars
  <2>1. /\ pc' = pc /\ arg' = arg /\ outcome' = outcome /\ setting' = setting /\ busy' = busy
        /\ sent' = sent /\ phase' = phase /\ asked' = <<>> /\ results' = {}
        /\ session' \in Session
        /\ \A r \in Request : sent[r] # NoAsk => sent[r].session # session'
    BY <1>1 DEF Browser!NewChat, Browser!Unused, vars
  <2>2. asked' \in Seq(Request) /\ Len(asked') = 0 BY <2>1, EmptySeq
  <2>3. PageFields' BY <2>1, <2>2 DEF PageFields
  <2>4. Deliveries' /\ OneAtATime'
    BY <2>1 DEF Deliveries, Answered, OneAtATime, FormAsks
  <2>5. OnScreen' BY <2>1, <2>2 DEF OnScreen
  <2>6. InOrder(session)' BY <2>2 DEF InOrder
  <2>7. QED BY <2>3, <2>4, <2>5, <2>6
<1>2. CASE Browser!ChangePrompts /\ UNCHANGED vars
  <2>1. /\ pc' = pc /\ arg' = arg /\ outcome' = outcome /\ sessions' = sessions
        /\ session' = session /\ busy' = busy /\ sent' = sent /\ phase' = phase
        /\ asked' = asked /\ results' = results
    BY <1>2 DEF Browser!ChangePrompts, vars
  <2>2. setting' \in Setting
    BY <1>2, ChatAssumption DEF Browser!ChangePrompts, PageFields
  <2>3. PageFields' BY <2>1, <2>2 DEF PageFields
  <2>4. Deliveries' /\ OneAtATime' /\ OnScreen' /\ InOrder(session)'
    BY <2>1 DEF Deliveries, Answered, OneAtATime, FormAsks, OnScreen, InOrder, By
  <2>5. QED BY <2>3, <2>4
<1>3. QED BY <1>1, <1>2 DEF StartAgain

LEMMA ChatPreserves == ChatInv /\ [ChatNext]_chatVars => ChatInv'
<1> SUFFICES ASSUME ChatInv, [ChatNext]_chatVars PROVE ChatInv'
  OBVIOUS
<1> USE DEF ChatInv
<1>1. IInv' BY PipelineStep, Preserved DEF PageInv
<1>2. ASSUME NEW r \in Request, AskQuestion(r) \/ NextPage(r) PROVE PageInv'
  BY <1>2, AskStep, NextPageStep
<1>3. ASSUME NEW r \in Request, Refused(r) \/ Shown(r) PROVE PageInv'
  <2>1. PICK shows \in BOOLEAN : /\ Browser!Settle(r, shows) /\ UNCHANGED vars
                                 /\ shows => r \in Answered
                                 /\ pc[r] \in {"idle", "done"}
    BY <1>3 DEF Refused, Shown, Answered
  <2>2. QED BY <2>1, LeavesStep DEF Browser!Settle, Browser!Frees
<1>4. ASSUME NEW r \in Request, Broken(r) PROVE PageInv'
  BY <1>4, LeavesStep DEF Broken, Browser!Lose, Browser!Frees
<1>5. ASSUME UNCHANGED pageVars, (\E r \in Request : Reaches(r) \/ Handled(r)) \/ Otherwise
      PROVE  PageInv'
  <2>1. Moves BY <1>5, PipelineMoves
  <2>2. QED BY <1>1, <1>5, <2>1, PipelineKeepsPage, PipelineKeepsOrder DEF PageInv
<1>6. ASSUME UNCHANGED chatVars PROVE PageInv'
  BY <1>6 DEF chatVars, vars, pageVars, PageInv, PageFields, Deliveries, Answered, OneAtATime,
              FormAsks, OnScreen, InOrder, By
<1>7. ASSUME NEW r \in Request, Reaches(r) \/ Handled(r) PROVE PageInv'
  BY <1>5, <1>7 DEF Reaches, Handled
<1>8. ASSUME Otherwise PROVE PageInv'
  BY <1>5, <1>8 DEF Otherwise
<1>9. ASSUME StartAgain PROVE PageInv'
  BY <1>9, StartAgainStep
<1>10. QED
  BY <1>1, <1>2, <1>3, <1>4, <1>6, <1>7, <1>8, <1>9 DEF ChatNext

LEMMA ChatInductive == ChatSpec => []ChatInv
<1>1. QED BY ChatInitInv, ChatPreserves, PTL DEF ChatSpec

-----------------------------------------------------------------------------
(***************************************************************************)
(* The theorems.                                                           *)
(***************************************************************************)

\* What a page and its user do to the pipeline is what QueryOrchestrator allows: all
\* that is proved of it holds behind the page, too (query.py:21-35).
THEOREM PipelineBehindPage == ChatSpec => Spec
<1>1. ChatInit => Init BY DEF ChatInit
<1>2. ChatInv /\ [ChatNext]_chatVars => [Next]_vars
  BY PipelineStep DEF ChatInv, PageInv
<1>3. QED BY <1>1, <1>2, ChatInductive, PTL DEF ChatSpec, Spec

\* The page's variables keep their types, and a request arrives as it was sent.
THEOREM PageTypeCorrect == ChatSpec => []PageTypeOK
<1>1. ChatInv => PageTypeOK BY DEF ChatInv, PageInv, IInv, PageTypeOK
<1>2. QED BY <1>1, ChatInductive, PTL

\* The author of a turn of the current session has its question on the screen.
LEMMA AuthorOnScreen ==
  ASSUME ChatInv, NEW i \in 1 .. Len(sessions[session])
  PROVE  \E j \in 1 .. Len(asked) : asked[j] = By(session, i)
<1> USE DEF ChatInv, PageInv
<1>1. sessions[session] \in Seq(Turn) /\ session \in Session
  BY DEF IInv, TypeOK, Memory!TypeOK, PageFields
<1>2. sessions[session][i] \in Turn BY <1>1, ElementOfSeq
<1>3. PICK d \in Request : d = By(session, i) BY <1>2 DEF By, Turn, Sql
<1>4. /\ d \in Answered /\ arg[d].session = session /\ arg[d].page \in FirstPage
  BY <1>1, <1>3 DEF IInv, Remembered, AllOK, TurnOK, By
<1>5. pc[d] # "idle" BY <1>4 DEF IInv, Phases, Answered
<1>6. sent[d] # NoAsk /\ arg[d] = sent[d] BY <1>5 DEF PageFields
<1>7. QED BY <1>3, <1>4, <1>6 DEF OnScreen

\* Nothing that the current session remembers is missing on the screen, whatever the
\* requests of former conversations still do (app.js:155-165).
THEOREM MemoryIsOnScreenHolds == ChatSpec => []MemoryIsOnScreen
<1>1. ASSUME ChatInv PROVE MemoryIsOnScreen
  <2>1. /\ DOMAIN sessions[session] = 1 .. Len(sessions[session])
        /\ DOMAIN asked = 1 .. Len(asked)
    BY <1>1, LenProperties DEF ChatInv, PageInv, IInv, TypeOK, Memory!TypeOK, PageFields
  <2>2. QED BY <1>1, <2>1, AuthorOnScreen DEF MemoryIsOnScreen, By
<1>2. QED BY <1>1, ChatInductive, PTL

\* Turns are remembered in the order of their questions unless a connection broke
\* (app.js:175, 201; orchestrator.py:211).
THEOREM TurnsInAskingOrderHolds == ChatSpec => []TurnsInAskingOrder
<1>1. ASSUME ChatInv PROVE TurnsInAskingOrder
  <2> DEFINE Place(r) == CHOOSE j \in DOMAIN asked : asked[j] = r
  <2>1. /\ DOMAIN sessions[session] = 1 .. Len(sessions[session])
        /\ DOMAIN asked = 1 .. Len(asked)
    BY <1>1, LenProperties DEF ChatInv, PageInv, IInv, TypeOK, Memory!TypeOK, PageFields
  <2>2. \A i \in 1 .. Len(sessions[session]) :
          Place(By(session, i)) \in 1 .. Len(asked) /\ asked[Place(By(session, i))] = By(session, i)
    BY <1>1, <2>1, AuthorOnScreen
  <2> HIDE DEF Place
  <2>3. ASSUME NEW i \in 1 .. Len(sessions[session]), NEW j \in 1 .. Len(sessions[session]), i < j
        PROVE  \/ Place(By(session, i)) < Place(By(session, j))
               \/ phase[By(session, j)] = "lost"
    BY <1>1, <2>2, <2>3 DEF ChatInv, PageInv, InOrder
  <2>4. QED BY <2>1, <2>3 DEF TurnsInAskingOrder, Place, By
<1>2. QED BY <1>1, ChatInductive, PTL
=============================================================================

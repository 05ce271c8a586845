--------------------------- MODULE ConversationMemory ---------------------------
(***************************************************************************)
(* The per-session conversation history,                                   *)
(* app/services/conversation_memory.py.                                    *)
(*                                                                         *)
(* sessions[s] is the list of turns of session s, <<>> when the dictionary *)
(* has no entry for it (it never holds an empty list); lastAccess[s] is    *)
(* the matching time or Never.                                             *)
(*                                                                         *)
(* get_history returns the list itself, not a copy, and add_turn appends   *)
(* to that list in place.  held[r] is the list that reader r got from      *)
(* get_history and still uses: `of` is the session that still owns that    *)
(* very object, or Detached once the dictionary has dropped it (session    *)
(* expired or cleared) or replaced it (the slice taken on overflow).       *)
(***************************************************************************)
EXTENDS Integers, Sequences

CONSTANTS Session, Reader, Turn,
          MaxTurns, SessionTtl,
          Detached,      \* not a session
          MaxClock       \* bound of the model: the clock stops here

ASSUME MemoryAssumption ==
  /\ MaxTurns \in Nat \ {0}
  /\ SessionTtl \in Nat
  /\ MaxClock \in Nat
  /\ Detached \notin Session

VARIABLES sessions, lastAccess, held, now

memoryVars == <<sessions, lastAccess, held, now>>

Never == -1

Handle == [of : Session \cup {Detached}, turns : Seq(Turn)]

NoHistory == [of |-> Detached, turns |-> <<>>]

MemoryInit ==
  /\ sessions = [s \in Session |-> <<>>]
  /\ lastAccess = [s \in Session |-> Never]
  /\ held = [r \in Reader |-> NoHistory]

(***************************************************************************)
(* _evict_expired, which every get_history and every add_turn runs first:  *)
(* what the dictionaries hold, and what the readers hold, after it.        *)
(***************************************************************************)
\* Mutation: a session expires in the last instant of its idle time.
ExpiredEarly == {s \in Session : lastAccess[s] # Never /\ now - lastAccess[s] >= SessionTtl}

Expired == {s \in Session : lastAccess[s] # Never /\ now - lastAccess[s] > SessionTtl}

KeptTurns == [s \in Session |-> IF s \in Expired THEN <<>> ELSE sessions[s]]

\* Mutation: the access times of expired sessions are left behind.
KeptAccessLeaky == lastAccess

KeptAccess == [s \in Session |-> IF s \in Expired THEN Never ELSE lastAccess[s]]

HeldWithout(S) ==
  [r \in Reader |-> IF held[r].of \in S THEN [held[r] EXCEPT !.of = Detached] ELSE held[r]]

KeptHeld == HeldWithout(Expired)

(***************************************************************************)
(* get_history: Touch is its effect on the dictionaries; a non-empty       *)
(* history counts as activity.  GetHistory also gives the list to r.       *)
(***************************************************************************)
Touch(s) ==
  /\ sessions' = KeptTurns
  /\ lastAccess' = [KeptAccess EXCEPT ![s] = IF KeptTurns[s] = <<>> THEN @ ELSE now]

HistoryOf(s) ==
  [of |-> IF KeptTurns[s] = <<>> THEN Detached ELSE s, turns |-> KeptTurns[s]]

GetHistory(r, s) ==
  /\ Touch(s)
  /\ held' = [KeptHeld EXCEPT ![r] = HistoryOf(s)]

\* The reader is done with the list it got.
Forget(r) ==
  /\ held' = [held EXCEPT ![r] = NoHistory]
  /\ UNCHANGED <<sessions, lastAccess>>

(***************************************************************************)
(* add_turn: the append is visible to every reader of the list, and only   *)
(* then does an overflow put a shorter copy in the dictionary.             *)
(***************************************************************************)
\* Mutation: the slice is taken for an index.
FirstOfWindow(turns) == turns[Len(turns) - MaxTurns + 1]

\* Mutation: the window keeps the oldest turns.
OldestTurns(turns) == SubSeq(turns, 1, MaxTurns)

LastTurns(turns) == SubSeq(turns, Len(turns) - MaxTurns + 1, Len(turns))

\* Mutation: the window is cut one turn too late.
OverflowsLate(turns) == Len(turns) > MaxTurns + 1

Overflows(turns) == Len(turns) > MaxTurns

AddTurn(s, t) ==
  LET turns == Append(KeptTurns[s], t)
      owner == IF Overflows(turns) THEN Detached ELSE s
  IN /\ sessions' = [KeptTurns EXCEPT ![s] = IF Overflows(turns) THEN LastTurns(turns) ELSE turns]
     /\ lastAccess' = [KeptAccess EXCEPT ![s] = now]
     /\ held' = [r \in Reader |-> IF KeptHeld[r].of = s
                                  THEN [of |-> owner, turns |-> turns] ELSE KeptHeld[r]]

ClearSession(s) ==
  /\ sessions' = [sessions EXCEPT ![s] = <<>>]
  /\ lastAccess' = [lastAccess EXCEPT ![s] = Never]
  /\ held' = HeldWithout({s})

Tick == now < MaxClock /\ now' = now + 1

-----------------------------------------------------------------------------
Init == MemoryInit /\ now = 0

Next == \/ \E r \in Reader, s \in Session : GetHistory(r, s) /\ UNCHANGED now
        \/ \E r \in Reader : Forget(r) /\ UNCHANGED now
        \/ \E s \in Session, t \in Turn : AddTurn(s, t) /\ UNCHANGED now
        \/ \E s \in Session : ClearSession(s) /\ UNCHANGED now
        \/ Tick /\ UNCHANGED <<sessions, lastAccess, held>>

Spec == Init /\ [][Next]_memoryVars

-----------------------------------------------------------------------------
\* Type invariant.
TypeOK ==
  /\ sessions \in [Session -> Seq(Turn)]
  /\ lastAccess \in [Session -> Nat \cup {Never}]
  /\ held \in [Reader -> Handle]
  /\ now \in Nat

\* The two dictionaries of the class always speak of the same sessions: a
\* session with turns has an access time, so it can expire, and an access time
\* without turns never builds up (conversation_memory.py:35-36).
Accounted == \A s \in Session : sessions[s] # <<>> <=> lastAccess[s] # Never

\* A reader whose list is still the session's own sees exactly the session's
\* turns, including those that other handlers appended while it was suspended
\* (conversation_memory.py:42-45, 51-54).
AliasAgrees ==
  \A r \in Reader : held[r].of \in Session =>
     held[r].turns = sessions[held[r].of] /\ held[r].turns # <<>>

\* The window holds at most max_turns turns, and the list a suspended reader
\* holds outgrows it by at most the one turn whose append made the dictionary
\* take a copy: an abandoned list never grows again (conversation_memory.py:51-54).
WindowBound ==
  /\ \A s \in Session : Len(sessions[s]) <= MaxTurns
  /\ \A r \in Reader : Len(held[r].turns) <= MaxTurns + 1

\* A conversation is only dropped whole, and only when it was cleared or had
\* been idle for longer than the session lifetime (conversation_memory.py:59-72).
DropJustified ==
  \A s \in Session : sessions[s] # <<>> /\ sessions'[s] = <<>> =>
     now - lastAccess[s] > SessionTtl \/ ClearSession(s)

DroppedOnlyIdle == [][DropJustified]_memoryVars

\* The window slides: what a session has after a turn was added is the end of what
\* it had, unless it had expired, followed by the new turn, with no gap and nothing
\* lost before the window is full (conversation_memory.py:51-54).
WindowSlid ==
  \A s \in Session, t \in Turn : AddTurn(s, t) =>
    LET kept == Len(sessions'[s]) - 1
        old == IF now - lastAccess[s] > SessionTtl THEN <<>> ELSE sessions[s]
    IN /\ kept \in {Len(old), MaxTurns - 1}
       /\ sessions'[s] = Append(SubSeq(old, Len(old) - kept + 1, Len(old)), t)

WindowSlides == [][WindowSlid]_memoryVars

\* What a reader holds only changes, until it reads again or lets go, by turns
\* appended at the end: the turns it has seen stay where they were, whatever
\* expires, overflows or is cleared meanwhile (conversation_memory.py:42-45).
HeldGrows ==
  \A r \in Reader :
    \/ /\ Len(held'[r].turns) >= Len(held[r].turns)
       /\ SubSeq(held'[r].turns, 1, Len(held[r].turns)) = held[r].turns
    \/ Forget(r)
    \/ \E s \in Session : GetHistory(r, s)

HeldOnlyGrows == [][HeldGrows]_memoryVars
=============================================================================

-------------------------- MODULE OrchestratorProperties --------------------------
(***************************************************************************)
(* What the pipeline must, and what the repository says it does, keep true *)
(* of all requests together.                                               *)
(***************************************************************************)
EXTENDS QueryOrchestrator

Answered == {r \in Request : outcome[r] = "answered"}

\* Type invariant.
TypeOK ==
  /\ Cache!TypeOK /\ Memory!TypeOK
  /\ schemaFresh \in BOOLEAN
  /\ pc \in [Request -> Location]
  /\ arg \in [Request -> Asks \cup {NoAsk}]
  /\ prompt \in [Request -> Seq(Turn)]
  /\ sql \in [Request -> Sql \cup {NoSql}]
  /\ calls \in [Request -> Nat]
  /\ outcome \in [Request -> Outcome]
  /\ body \in [Request -> Response \cup {NoBody}]

\* Every answer is for the question and the page that its client asked for, and
\* carries the identifier of its own request, although hits and misses of many
\* clients share and mutate the cached objects (orchestrator.py:96-104, 189-205).
AnswersOwnQuestion ==
  \A r \in Answered : /\ <<Normal[body[r].question], body[r].page>> = KeyOf(arg[r])
                      /\ body[r].query_id = r

\* An answer taken from the cache was complete: every cached response was
\* delivered to the client whose request produced it, and comes from a query that
\* the validator accepted and the database answered (orchestrator.py:151-205).
CacheHoldsDelivered ==
  \A k \in Cache!Held :
    LET author == store[k].value.sql.author
    IN /\ author \in Answered
       /\ store[k].value.sql = sql[author] /\ body[author].sql = sql[author]
       /\ KeyOf(arg[author]) = k
       /\ store[k].expires = store[k].value.ready + CacheTtl

\* No client is given an answer older than the cache's lifetime
\* (cache_service.py:40, orchestrator.py:97-104).
FreshDelivery ==
  \A r \in Request : outcome[r] # "answered" /\ outcome'[r] = "answered" =>
     now <= body'[r].ready + CacheTtl

FreshWhenDelivered == [][FreshDelivery]_vars

\* What Claude is shown of earlier turns never crosses a session, even when the
\* list was handed out before a suspension during which others ran
\* (orchestrator.py:110-115, conversation_memory.py:42-45).
PromptStaysInSession ==
  \A r \in Request : \A i \in DOMAIN prompt[r] :
    arg[prompt[r][i].sql.author].session = arg[r].session /\ arg[r].session # NoSession

\* A remembered turn is one that the session's user saw answered: its author was
\* answered with that SQL, on page 1, in that session, and is remembered once
\* (orchestrator.py:207-216).
TurnsWereAnswered ==
  \A s \in Session :
    /\ \A i \in DOMAIN sessions[s] :
         LET turn == sessions[s][i]
             author == turn.sql.author
         IN /\ author \in Answered /\ body[author].sql = turn.sql
            /\ arg[author].session = s /\ arg[author].page \in FirstPage
            /\ arg[author].question = turn.question
    /\ \A i, j \in DOMAIN sessions[s] :
         sessions[s][i].sql.author = sessions[s][j].sql.author => i = j

\* The history that reaches Claude is at most one turn longer than the window,
\* however many handlers append while the prompt waits for the schema
\* (orchestrator.py:110-115, nl_to_sql.py:148-162).
PromptBound == \A r \in Request : Len(prompt[r]) <= MaxTurns + 1

\* A request costs at most two Claude calls; one answered from the cache none;
\* one that did not ask for commentary at most one (orchestrator.py:14-17).
CallBudget ==
  \A r \in Request :
    /\ calls[r] <= 2
    /\ pc[r] # "idle" /\ arg[r].insight = "none" => calls[r] <= 1
    /\ r \in Answered => (body[r].sql.author = r <=> calls[r] > 0)

\* Every request that arrives is answered or refused (orchestrator.py:74-218).
EveryRequestEnds == \A r \in Request : pc[r] # "idle" ~> pc[r] = "done"

-----------------------------------------------------------------------------
(* The pipeline implements AnswerService. *)

PhaseOf(r) == IF pc[r] = "idle" THEN "idle"
              ELSE CASE outcome[r] = "answered" -> "answered"
                     [] outcome[r] = "none" -> "waiting"
                     [] OTHER -> "refused"

WantOf(r) == IF arg[r] = NoAsk THEN NoAsk ELSE KeyOf(arg[r])

GivenOf(r) == IF body[r] = NoBody THEN NoBody
              ELSE [key |-> <<Normal[body[r].question], body[r].page>>,
                    author |-> body[r].sql.author, made |-> body[r].ready]

Service == INSTANCE AnswerService WITH
  Lifetime <- CacheTtl, NoKey <- NoAsk, NoAnswer <- NoBody,
  phase <- [r \in Request |-> PhaseOf(r)],
  wants <- [r \in Request |-> WantOf(r)],
  given <- [r \in Request |-> GivenOf(r)],
  time <- now

\* Every answer is made for its request or is one that somebody was given before
\* for the same question and page, still within its lifetime: the orchestrator
\* with its cache and memory is an AnswerService (orchestrator.py:74-218).
ImplementsService == Service!Spec

-----------------------------------------------------------------------------
(* Statements of the repository that the code does not keep. *)

\* "Enables follow-up questions ... by giving Claude the previous SQL to modify"
\* (conversation_memory.py:4-5): the SQL behind an answer, when it modifies an
\* earlier query, modifies one of the asking session.
FollowUpStaysInSession ==
  \A r \in Answered :
    body[r].sql.base # NoBase => arg[body[r].sql.base].session = arg[r].session
=============================================================================

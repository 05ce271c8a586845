---------------------------- MODULE QueryOrchestrator ----------------------------
(***************************************************************************)
(* The pipeline of POST /api/v1/query: app/services/orchestrator.py with   *)
(* the handler app/api/v1/query.py around it and the parts of              *)
(* NLToSQLEngine, SQLValidator, QueryExecutor and CommentaryGenerator that *)
(* decide how a request proceeds.  CacheService and ConversationMemory are *)
(* shared by all requests and composed here.                               *)
(*                                                                         *)
(* All handlers run on one event loop, so the code between two suspension  *)
(* points is one action.  pc[r] names the await at which the handler of r  *)
(* is suspended: "schema" (schema introspection, only when the schema      *)
(* cache is not fresh), "nl2sql" (Claude call 1), "executing" (the query   *)
(* in its worker thread), "commentary" (Claude call 2).                    *)
(*                                                                         *)
(* A SQL text is what the properties need of it: the request whose Claude  *)
(* call wrote it, the request that wrote the query it modifies (NoBase     *)
(* when it was written from scratch) and whether it holds a dotted         *)
(* reference whose right-hand side is one character, as in t.x or 0.5.     *)
(***************************************************************************)
EXTENDS Integers, Sequences, FiniteSets

CONSTANTS
  Request,        \* the HTTP requests; each is sent once
  Question, Normal,   \* question texts, and question.lower().strip()
  Keywordless,    \* questions made of stop words only
  FollowUp,       \* questions that refer to the previous result
  Page, FirstPage,    \* (page, page_size) pairs, and those with page = 1
  Session, NoSession,
  Asks,           \* the request bodies that clients send
  MaxSize, CacheTtl, MaxTurns, SessionTtl,
  NoAsk, NoBase, NoSql, NoBody, NoEntry, Detached,   \* absent values
  MaxClock        \* bound of the model: the clock stops here

Insight == {"none", "default", "custom"}   \* include_commentary, commentary_prompt
Template == {"usable", "broken"}           \* can nl_to_sql_prompt be formatted?

Ask == [question : Question, page : Page, session : Session \cup {NoSession},
        insight : Insight, template : Template]

Key == Question \X Page

Sql == [author : Request, base : Request \cup {NoBase}, short : BOOLEAN]

Turn == [question : Question, sql : Sql]

Commentary == {"absent", "no_rows", "template", "llm", "custom", "unavailable"}

\* `ready` is an auxiliary field: when the answer was stored.
Response == [query_id : Request, question : Question, page : Page, sql : Sql,
             commentary : Commentary, ready : Nat]

ASSUME OrchestratorAssumption ==
  /\ IsFiniteSet(Question) /\ IsFiniteSet(Page)
  /\ Normal \in [Question -> Question]
  /\ Asks \subseteq Ask
  /\ NoSession \notin Session
  /\ NoAsk \notin Ask /\ NoSql \notin Sql /\ NoBody \notin Response
  /\ NoBase \notin Request
  /\ MaxSize \in Nat \ {0} /\ CacheTtl \in Nat \ {0}
  /\ MaxTurns \in Nat \ {0} /\ SessionTtl \in Nat
  /\ Detached \notin Session
  /\ MaxClock \in Nat

VARIABLES
  now, store,                    \* the answer cache
  sessions, lastAccess, held,    \* the conversation memory
  schemaFresh,                   \* the schema cache is non-empty and not too old
  pc, arg,                       \* where each handler is, and its request body
  prompt,                        \* the history that went into its NL->SQL prompt
  sql,                           \* the SQL that it got and validated
  calls,                         \* how often it called ClaudeClient.complete
  outcome, body                  \* what its client got

cacheVars == <<store>>
memVars == <<sessions, lastAccess, held>>
replyVars == <<outcome, body>>
vars == <<now, store, sessions, lastAccess, held, schemaFresh, pc, arg, prompt, sql,
          calls, outcome, body>>

Cache == INSTANCE CacheService WITH Value <- Response, Ttl <- CacheTtl
Memory == INSTANCE ConversationMemory WITH Reader <- Request

ASSUME EntryAssumption == NoEntry \notin Cache!Entry

Location == {"idle", "schema", "nl2sql", "executing", "commentary", "done"}

\* The exceptions that process_question lets through, by where they come from: a
\* failed Claude call and SQL that the validator refuses are "sql_failed"; a timeout,
\* a missing table and any other error of the executor are "query_failed".
Failure == {"schema_failed", "prompt_failed", "sql_failed", "query_failed"}

Outcome == {"none", "answered", "out_of_scope"} \cup Failure

Init ==
  /\ Cache!CacheInit /\ Memory!MemoryInit /\ now = 0
  /\ schemaFresh \in BOOLEAN      \* FALSE when the database shows no table at all
  /\ pc = [r \in Request |-> "idle"]
  /\ arg = [r \in Request |-> NoAsk]
  /\ prompt = [r \in Request |-> <<>>]
  /\ sql = [r \in Request |-> NoSql]
  /\ calls = [r \in Request |-> 0]
  /\ outcome = [r \in Request |-> "none"]
  /\ body = [r \in Request |-> NoBody]

-----------------------------------------------------------------------------
(* Helpers. *)

\* CacheService.make_key: neither the session nor the prompts take part in it.
\* Mutation: the page is left out of the key.
KeyWithoutPage(a) == <<Normal[a.question], CHOOSE p \in Page : TRUE>>

KeyOf(a) == <<Normal[a.question], a.page>>

\* A turn is remembered only for a session, and only for page 1.
\* Mutation: every page is remembered.
RemembersAnyPage(a) == a.session # NoSession

Remembers(a) == a.session # NoSession /\ a.page \in FirstPage

Ends(r, o) ==
  /\ pc' = [pc EXCEPT ![r] = "done"]
  /\ outcome' = [outcome EXCEPT ![r] = o]

Fails(r, o) == Ends(r, o) /\ UNCHANGED body

Delivers(r, answer) ==
  /\ Ends(r, "answered")
  /\ body' = [body EXCEPT ![r] = answer]

(***************************************************************************)
(* Building the NL->SQL prompt.  _extract_tables_from_sql takes m[1] of a  *)
(* match that is already the captured table name, which raises IndexError  *)
(* for a name of one character; it runs over every turn of the history     *)
(* unless the question has no keywords.  A custom template may fail to     *)
(* format.  When the prompt is built, Claude call 1 starts.                *)
(***************************************************************************)
HistoryBreaks(a, history) ==
  /\ a.question \notin Keywordless
  /\ \E i \in DOMAIN history : history[i].sql.short

BuildPrompt(r, a, history) ==
  \/ /\ HistoryBreaks(a, history) \/ a.template = "broken"
     /\ Fails(r, "prompt_failed")
     /\ UNCHANGED <<prompt, calls>>
  \/ /\ ~HistoryBreaks(a, history) /\ a.template = "usable"
     /\ pc' = [pc EXCEPT ![r] = "nl2sql"]
     /\ prompt' = [prompt EXCEPT ![r] = history]
     /\ calls' = [calls EXCEPT ![r] = @ + 1]
     /\ UNCHANGED replyVars

\* get_history, for a request that names a session.
\* Mutation: any session that has a history will do.
AnyHistory(a) ==
  LET busy == {s \in Session : Memory!KeptTurns[s] # <<>>}
  IN IF busy = {} THEN <<>> ELSE Memory!KeptTurns[CHOOSE s \in busy : TRUE]

History(a) == IF a.session = NoSession THEN <<>> ELSE Memory!KeptTurns[a.session]

-----------------------------------------------------------------------------
(* The handler's steps, from one suspension to the next. *)

\* A hit: the cached object gets the new query_id and is returned.
\* Mutation: the identifier of the first request is returned.
RestampForgotten(answer, r) == answer

Restamp(answer, r) == [answer EXCEPT !.query_id = r]

AskHit(r, a) ==
  /\ pc[r] = "idle"
  /\ Cache!Hit(KeyOf(a))
  /\ LET answer == Restamp(store[KeyOf(a)].value, r)
     IN /\ store' = [store EXCEPT ![KeyOf(a)].value = answer]
        /\ Delivers(r, answer)
  /\ arg' = [arg EXCEPT ![r] = a]
  /\ UNCHANGED <<now, memVars, schemaFresh, prompt, sql, calls>>

\* A miss with a fresh schema: get_history, get_tables, the prompt and the
\* start of the Claude call without a suspension between them.
AskWarm(r, a) ==
  /\ pc[r] = "idle" /\ schemaFresh
  /\ Cache!GetMiss(KeyOf(a))
  /\ BuildPrompt(r, a, History(a))
  /\ IF a.session = NoSession
     THEN UNCHANGED memVars
     ELSE Memory!Touch(a.session) /\ held' = Memory!KeptHeld
  /\ arg' = [arg EXCEPT ![r] = a]
  /\ UNCHANGED <<now, schemaFresh, sql>>

\* A miss with a schema to introspect: the handler is suspended while it
\* holds the session's list.
AskCold(r, a) ==
  /\ pc[r] = "idle" /\ ~schemaFresh
  /\ Cache!GetMiss(KeyOf(a))
  /\ IF a.session = NoSession THEN UNCHANGED memVars ELSE Memory!GetHistory(r, a.session)
  /\ pc' = [pc EXCEPT ![r] = "schema"]
  /\ arg' = [arg EXCEPT ![r] = a]
  /\ UNCHANGED <<now, schemaFresh, prompt, sql, calls, replyVars>>

\* get_tables returns, after an introspection or because another handler's
\* introspection ended first; an empty schema is never fresh.
SchemaReady(r) ==
  /\ pc[r] = "schema"
  /\ schemaFresh' \in IF schemaFresh THEN {TRUE} ELSE BOOLEAN
  /\ BuildPrompt(r, arg[r], held[r].turns)
  /\ Memory!Forget(r)
  /\ UNCHANGED <<now, store, arg, sql>>

SchemaFails(r) ==
  /\ pc[r] = "schema" /\ ~schemaFresh
  /\ Fails(r, "schema_failed")
  /\ Memory!Forget(r)
  /\ UNCHANGED <<now, store, schemaFresh, arg, prompt, sql, calls>>

\* Claude is told to modify the most recent SQL of the history when the
\* question is a follow-up, and does.
BaseOf(r) ==
  IF arg[r].question \in FollowUp /\ prompt[r] # <<>>
  THEN prompt[r][Len(prompt[r])].sql.author ELSE NoBase

\* Claude returns SQL that passes the validator.
SqlAccepted(r) ==
  /\ pc[r] = "nl2sql"
  /\ \E short \in BOOLEAN :
       sql' = [sql EXCEPT ![r] = [author |-> r, base |-> BaseOf(r), short |-> short]]
  /\ pc' = [pc EXCEPT ![r] = "executing"]
  /\ UNCHANGED <<now, store, memVars, schemaFresh, arg, prompt, calls, replyVars>>

\* The call fails after its retries, Claude says OUT_OF_SCOPE, or the
\* validator rejects the SQL.
SqlRefused(r) ==
  /\ pc[r] = "nl2sql"
  /\ Fails(r, "sql_failed") \/ Fails(r, "out_of_scope")
  /\ UNCHANGED <<now, store, memVars, schemaFresh, arg, prompt, sql, calls>>

\* Mutation: a failed query sends the handler back to Claude, without end.
QueryRetries(r) ==
  /\ pc[r] = "executing"
  /\ pc' = [pc EXCEPT ![r] = "nl2sql"]
  /\ UNCHANGED <<now, store, memVars, schemaFresh, arg, prompt, sql, calls, replyVars>>

QueryFails(r) ==
  /\ pc[r] = "executing"
  /\ Fails(r, "query_failed")
  /\ UNCHANGED <<now, store, memVars, schemaFresh, arg, prompt, sql, calls>>

\* Steps 7 to 9: the answer is built, cached, remembered and returned.
Complete(r, commentary) ==
  LET a == arg[r]
      answer == [query_id |-> r, question |-> a.question, page |-> a.page, sql |-> sql[r],
                 commentary |-> commentary, ready |-> now]
  IN /\ Cache!Set(KeyOf(a), answer)
     /\ IF Remembers(a)
        THEN Memory!AddTurn(a.session, [question |-> a.question, sql |-> sql[r]])
        ELSE UNCHANGED memVars
     /\ Delivers(r, answer)
     /\ UNCHANGED <<now, schemaFresh, arg, prompt, sql, calls>>

\* The rows are back and need no Claude call: no commentary was asked for, there
\* are no rows, or the template covers them (never with a custom prompt).
QueryCompletes(r) ==
  /\ pc[r] = "executing"
  /\ \/ arg[r].insight = "none" /\ Complete(r, "absent")
     \/ arg[r].insight # "none" /\ Complete(r, "no_rows")
     \/ arg[r].insight = "default" /\ Complete(r, "template")

\* Mutation: include_commentary is ignored.
InsightUnasked(r) ==
  /\ pc[r] = "executing"
  /\ pc' = [pc EXCEPT ![r] = "commentary"]
  /\ calls' = [calls EXCEPT ![r] = @ + 1]
  /\ UNCHANGED <<now, store, memVars, schemaFresh, arg, prompt, sql, replyVars>>

\* Mutation: the answer is cached before its commentary is there.
InsightCachedEarly(r) ==
  /\ pc[r] = "executing" /\ arg[r].insight # "none"
  /\ pc' = [pc EXCEPT ![r] = "commentary"]
  /\ calls' = [calls EXCEPT ![r] = @ + 1]
  /\ Cache!Set(KeyOf(arg[r]),
       [query_id |-> r, question |-> arg[r].question, page |-> arg[r].page,
        sql |-> sql[r], commentary |-> "absent", ready |-> now])
  /\ UNCHANGED <<now, memVars, schemaFresh, arg, prompt, sql, replyVars>>

QueryNeedsInsight(r) ==
  /\ pc[r] = "executing" /\ arg[r].insight # "none"
  /\ pc' = [pc EXCEPT ![r] = "commentary"]
  /\ calls' = [calls EXCEPT ![r] = @ + 1]
  /\ UNCHANGED <<now, store, memVars, schemaFresh, arg, prompt, sql, replyVars>>

\* Claude call 2 returns, or fails, which generate turns into a text.
InsightReady(r) ==
  /\ pc[r] = "commentary"
  /\ \/ Complete(r, IF arg[r].insight = "custom" THEN "custom" ELSE "llm")
     \/ Complete(r, "unavailable")

-----------------------------------------------------------------------------
(* The environment. *)

\* The schema cache gets too old, or GET /api/v1/schema refreshes it.
SchemaChanges ==
  /\ schemaFresh' = ~schemaFresh
  /\ UNCHANGED <<now, store, memVars, pc, arg, prompt, sql, calls, replyVars>>

TimePasses ==
  /\ Cache!Tick
  /\ UNCHANGED <<store, memVars, schemaFresh, pc, arg, prompt, sql, calls, replyVars>>

-----------------------------------------------------------------------------
Arrives(r) == \E a \in Asks : AskHit(r, a) \/ AskWarm(r, a) \/ AskCold(r, a)

Proceeds(r) ==
  \/ SchemaReady(r) \/ SchemaFails(r)
  \/ SqlAccepted(r) \/ SqlRefused(r)
  \/ QueryFails(r) \/ QueryCompletes(r) \/ QueryNeedsInsight(r)
  \/ InsightReady(r)

Next == (\E r \in Request : Arrives(r) \/ Proceeds(r)) \/ SchemaChanges \/ TimePasses

Spec == Init /\ [][Next]_vars

\* The awaited calls end: Claude's client and the executor have timeouts, and
\* the database driver is taken to return from the introspection queries.
FairSpec == Spec /\ \A r \in Request : WF_vars(Proceeds(r))
=============================================================================

# A verification project for the SQL chatbot

The program under `src/app` is a FastAPI service.  A user asks a question in English;
the service has Claude write SQL for it, validates the SQL, runs it on SQL Server, has
Claude (or a template) comment on the rows, and answers.  To save Claude calls it keeps
an answer cache; to understand follow-up questions it keeps a short conversation history
per session.  Everything runs on one asyncio event loop, except blocking database calls,
which run in worker threads.

This directory holds TLA+ modules that model the service, TLC configurations that check
them on small instances, and TLAPS proofs that carry the main results to every instance.

Contents: 1 inventory; 2 modules and how they correspond to the code; 3 runs, bounds and
what they show; 4 divergences found; 5 fairness; 6 proofs; 7 what is not modelled; 8 plan.

## 1. Inventory

| Component (source) | State | Operations | Interacts with |
|---|---|---|---|
| Query pipeline: `QueryOrchestrator` (`services/orchestrator.py`) behind `POST /api/v1/query` (`api/v1/query.py`) | none of its own; one suspended handler per request | `process_question` | everything below; maps exceptions to HTTP statuses |
| Answer cache: `CacheService` (`services/cache_service.py`) | dictionary of (value, expiry) | `get`, `set`, `make_key` | called by the pipeline; hands out the stored object itself |
| Conversation memory (`services/conversation_memory.py`) | list of turns and last access time per session | `get_history`, `add_turn`, `clear_session` | called by the pipeline; hands out its list itself |
| NL to SQL engine (`services/nl_to_sql.py`, `prompts/nl_to_sql.py`) | none | `generate_sql`; table filter, history and example formatting, SQL clean-up | schema service, Claude client |
| Commentary (`services/commentary.py`, `template_commentary.py`, `prompts/commentary.py`) | none | `generate` | template first, then Claude client |
| SQL validator (`services/sql_validator.py`) | none | `validate` | the pipeline |
| Query executor (`services/query_executor.py`) | none; a job per query in the event loop's worker threads | `execute`, counting, pagination, timeout | opens a connection of its own per job; takes only the connection string from the pool |
| Schema service (`services/schema_service.py`, `api/v1/schema.py`) | cached tables, time, asyncio lock | `get_tables`, `_introspect` | connection pool; used by the pipeline and `GET /schema` |
| Connection pool (`infrastructure/database.py`) | deque of connections, thread lock | `initialize`, `acquire`, `close` | worker threads |
| Claude client (`infrastructure/claude_client.py`) | none | `complete` with retries | Anthropic API |
| Rate limiter (`middleware/rate_limiter.py`) | per-address list of times | `dispatch` | in front of all API routes |
| Startup, shutdown, wiring (`dependencies.py`, `main.py`) | the service singletons | `init_services`, `shutdown_services` | all |
| Chat page (`static/app.js`) | session id, prompt settings, whether the form is disabled, what is on the screen | ask, Next Page, New Chat, save and reset prompts | the HTTP API |
| Result formatter (`services/result_formatter.py`) | none | `format_for_commentary`, `format_for_response` | commentary, pipeline |
| Request models, logging, configuration, health | none that matters to the others | | |

**What is hard here.**  Nothing in the pipeline is atomic across an `await`:

* The cache is read before two or three awaits and written after them; two identical
  questions run side by side and each overwrites the other's answer.
* `CacheService.get` returns the stored object and the pipeline writes a new `query_id`
  into it: all requests for one key share and mutate one object.
* `ConversationMemory.get_history` returns the list that `add_turn` appends to.  A handler
  suspended in `get_tables` holds that list while others append to it, cut it (which
  replaces it by a copy), let the session expire, or start a new list under the same id.
* Both stores expire lazily: the cache only on a lookup of the same key, the memory on any
  call for any session.
* A hit returns before the turn is stored; a failure at any step must leave no trace.
* The page starts a request per click and goes on: New Chat, Next Page and the settings may
  be used while answers are under way, refused or lost, and a request that the page has given
  up may still complete.

Around Claude nothing is concurrent, but much depends on boundaries and order: which tables
survive the filter and its safety nets, which turns keep their SQL, in which order fence,
semicolons and comments are stripped from an answer, which error is tried again, and what a
template claims about rows with negative, missing or unordered values.

**What makes the components correct.**  Cache: bounded size, nothing served past its
lifetime, nothing lost without cause.  Memory: bounded window that slides, sessions dropped
only whole and only when idle, the two dictionaries in step.  Pipeline: every answer is for
its own question, fresh, produced by SQL that was validated and executed; no history crosses
sessions; only answered requests are remembered; the number of Claude calls and the length
of prompts are bounded; every request ends.  Rate limiter: at most `max_requests` admitted
in any window.  Claude calls: the prompt shows what the
question and a follow-up need, an ordinary answer runs as it was meant, what runs is what the
validator's checks allow (which is more than the single statement that it promises, section 4),
attempts are bounded, and what is said of the rows is true of them (where it is not, section 4).  Chat page: the
session remembers nothing that the screen does not show, in the order asked, and the form never
stays disabled.  Pool and schema service: no connection handed to two users or leaked, one
introspection at a time.  `PROJECT.json` lists the hazards line by line, with the properties
that watch each of them.

## 2. Modules

| Module | Models |
|---|---|
| `CacheService` | the answer cache, as a component with its own specification |
| `ConversationMemory` | the memory, with the aliasing of its lists |
| `QueryOrchestrator` | concurrent requests through the pipeline, composed with instances of the two above |
| `OrchestratorProperties` | the properties of the pipeline and the refinement mapping |
| `AnswerService` | the abstract specification the pipeline implements |
| `DatabasePool` | the connection pool, as a component with its own specification |
| `SchemaService` | the schema cache and its lock, composed with an instance of the pool, from startup to shutdown |
| `QueryExecutor` | queries in worker threads, with timeout and pagination |
| `RateLimiter` | the sliding window in front of the API |
| `Arrangements` | operators: what list comprehensions, `sorted` and `sum` make of a sequence |
| `NLToSQL` | operators: the table filter, examples and history of the prompt, the clean-up of the answer |
| `SQLValidator` | operators: the validator's checks in their order, over the same tokens |
| `TemplateCommentary` | operators: what each template says of a page of rows, and the follow-ups it suggests |
| `ClaudeClient` | one call of `complete`: attempts, errors, waits |
| `ClaudeCalls` | both calls of one request, composed of the four above |
| `ClaudeCallProperties` | their properties |
| `ChatPage` | the browser page, as a component |
| `ChatSystem` | the page in front of `QueryOrchestrator`, with the network between them, and its properties |
| `CacheServiceProofs`, `ConversationMemoryProofs`, `RateLimiterProofs`, `DatabasePoolProofs`, `QueryExecutorProofs`, `SchemaServiceProofs`, `ClaudeCallProofs`, `ChatSystemProofs` (the pipeline, then the page) | the theorems |
| `MCCacheService`, `MCConversationMemory`, `MCOrchestrator`, `MCChat`, `MCDatabasePool`, `MCSchemaService`, `MCQueryExecutor`, `MCRateLimiter`, `MCClaudeCalls` | constants of the small instances |

**CacheService.**  `store[k]` is the pair the dictionary holds for `k`, or `NoEntry`.
`GetHit` and `GetMiss` are `get` (a miss deletes an expired entry), `Set` is `set`, with
`Room` the eviction: at capacity the entry of earliest expiry goes, *even if the key to be
stored is already there*.  Time is a counter; entries may expire in the same instant, and
either may then be evicted (Python takes the one inserted first).

**ConversationMemory.**  `sessions` and `lastAccess` are the two dictionaries.  `Expired`,
`KeptTurns`, `KeptAccess` are `_evict_expired`, which is part of every `GetHistory` and
`AddTurn`.  `held[r]` is the list that reader `r` got and still uses: `of` names the session
that still owns that very object, `Detached` that the dictionary has dropped or replaced it.
`AddTurn` appends in place -- readers of the same object see it -- and on overflow the
dictionary takes a slice, which detaches the readers *after* the append.  `clear_session`
has no caller in `src/`; it is modelled with the component and not used by the pipeline.

**QueryOrchestrator.**  One action is the code between two suspensions.  `pc[r]` is the
`await` at which the handler stands.

| Action | Code |
|---|---|
| `AskHit` | steps 1-2, the key is cached: the object is restamped and returned |
| `AskWarm` | a miss with a fresh schema: history, tables and prompt without suspension, up to the start of Claude call 1 |
| `AskCold` | a miss that must introspect: the handler holds the history while suspended |
| `SchemaReady`, `SchemaFails` | `get_tables` returns or raises |
| `BuildPrompt` (in both of these paths) | filter, history and template formatting, which may raise |
| `SqlAccepted`, `SqlRefused` | Claude call 1 and the validator |
| `QueryFails`, `QueryCompletes`, `QueryNeedsInsight` | `execute`, then no commentary, a template, or Claude call 2 |
| `InsightReady` | Claude call 2 returned, or failed and became a text |
| `Complete` (in the last two) | steps 7-9: build, cache, remember, return |
| `SchemaChanges`, `TimePasses` | the environment |

A SQL text is abstracted to three facts: which request's Claude call wrote it, which
request's query it modifies, and whether it contains a dotted one-character name (the case
in which the table extraction raises).  Claude is taken to do what the prompt says: given a
follow-up question, it modifies the most recent query of the history; given any other
question, it writes from scratch.  Everything else it may return is a choice.  A response
carries the fields that identify it (identifier, question, page, SQL, commentary kind) and
an auxiliary time `ready`.  Failures are told apart by the step they come from: a call that fails
and SQL that is rejected are both `sql_failed`, as nothing depends on the difference; `ClaudeCalls`
has it in detail.

**AnswerService** states in five actions what a client may rely on: a request is answered at
once with an answer that *somebody was already given* for the same key and that is not older
than the lifetime, or is worked on and ends with an answer made for it, or is refused.

**DatabasePool.**  `idle` is the deque; `open` the connections that exist, `stale` those among
them that the server has dropped.  `Acquire` is the code of `acquire` up to its first suspension:
`popleft` and the health check, which does not suspend, or the start of a new connection.
`Connected` and `Refused` are the ends of the two awaits: a new connection is health-checked
like any other and may be dead already, a replacement is handed out unchecked, and when a
replacement cannot be made the *dead* connection goes back into the deque.  `Leave` is the
`finally` block.  The thread lock spans no suspension and needs no state.

**SchemaService.**  `queue` is the asyncio lock: its head has the lock or is the next to get it.
`AskFast` is the check without the lock; `AskSlow` a call that enters the queue and, if it is
alone, goes on to the first suspension of `_introspect`; `RecheckSuffices` and `RecheckFails` the
second check, when the lock is handed on.  The locations name the awaits of `_introspect`:
two connections, the objects and columns queries, the counting of views.  Each may raise, which
returns the connection and releases the lock.  `Startup` is the call of `init_services`, without
which nobody is served; `Shutdown` follows when no call is under way.

**QueryExecutor.**  `task[q]` is the handler's side, `job[q]` the worker thread's.  `TimesOut`
ends the first and cancels the second only while it stands in line; a cancelled job stays in the
thread pool's queue until a free thread passes over it (`Skips`).  `Counts` is the `COUNT(*)`
statement, which may fail and leave -1; `PageReturned` and `PageRefused` the OFFSET/FETCH
statement, `AllFetched` the fallback that slices the whole result.  Which statements the database
accepts is a choice in each case.  `HasMore` is the field that the orchestrator computes.

**RateLimiter.**  A request is one action, `Admit` or `Refuse`, both of which prune.  `admitted`
and `refusedAt` are history variables: the promise is about all requests ever admitted, and the
code remembers only the pruned bucket.

**NLToSQL, SQLValidator, TemplateCommentary.**  These parts keep no state, and are operators
named after the code's functions.  A table is its schema, its name, the words of its names and
the schemas its foreign keys lead to; a turn is the names in its SQL; Claude's answer is a
sequence of tokens (fences, semicolons, dashes, comments between slashes and asterisks, SELECT
where a statement may begin, the words that a check looks for, "any other text").  A result is a tuple of rows of cells: numbers, texts, NULL; a column has one type, as in
SQL.  A commentary is the claim it makes: which template, which rows in which order and role,
which computed numbers, and of two years whether the value "increased" or "decreased".  The
literals of the code (3 turns, 5000 characters, 8 columns, 50 rows, 5 items, 4 suggestions, 20
rows for Claude) are constants.  `HistoryTables` and `ForeignTargets` are what the code does:
second characters of the names, and the *schemas* of the targets.  Numbers are integers where the
code has floats: what a template says is judged without rounding.

**ClaudeClient and ClaudeCalls.**  An attempt is one `await messages.create`; `AttemptFails`
either sleeps or raises, `WakesUp` is tenacity's timer.  `ClaudeCalls` follows one request from
the question to the commentary: `AskClaude` builds the prompt and starts call 1, `AnswerComes`
reads, cleans and validates, `Execute` hands the text to the executor, which may fail
(`QueryFails`); of the rows nothing is said if nobody wanted it (`NotWanted`) or if there are none,
else `FromTemplate` or `AskForCommentary` go on.
Where `QueryOrchestrator` says only that a prompt may fail, SQL may be refused or a template may
cover the rows, this module computes it from the data.  It has a single request because these
steps touch no shared state: the list of tables and the formatted history are the request's own.
`input` and `output` are what the last step worked on and what it made; the state forgets them
when nothing reads them any more.  `ClaudeCallProperties` says what an answer means apart from what
surrounds it (`Spoken`, `Meaning`) and which answers are `Ordinary`, without the operators that
clean it: a statement of plain words and literals (`PlainWords`), with comments where a line may have them, perhaps
a semicolon at its end, perhaps in a fence, and no longer than allowed.

**ChatPage and ChatSystem.**  `sent[r]` is the body of request `r`, `phase[r]` what the page knows
of it.  `Ask` is the form's handler up to its `await fetch`, `LoadPage` that of Next Page, `Settle`
and `Lose` their ends, `Frees` the `finally` that only the form has.  In `ChatSystem` a request
reaches the pipeline (`Reaches`), even after its connection broke; it may be refused on the way by
the rate limiter or the request model (`Refused`) and its answer is shown (`Shown`) wherever the
screen has got to.

In the modules, a definition commented "Mutation" is a plausible wrong version of the
definition after it.  No specification uses it; it serves to confirm that the properties
can tell the difference.

## 3. Runs

| Run | Instance | Shows |
|---|---|---|
| `MCCacheService` | 3 keys, 2 values, size 2, lifetime 2, clock to 5 | size bound; entries vanish only when due. Every eviction order and expiry before and after lookups occur; a lookup, a set and an eviction at, before and after the instant of expiry all fit |
| `MCConversationMemory` | 2 sessions, 1 reader, 2 turns, window 2, lifetime 1, clock to 4 | windows, aliasing and expiry. One reader suffices: readers do not affect the dictionaries or one another. Window 2 is the least in which order within a window matters; clock 4 allows two expiries of a session |
| `MCShared` | 3 requests; two users, two spellings of a question and its page 2; cache of 1, window 1, clock to 2 | answers right, fresh, own; only answered turns are remembered, once; nothing crosses sessions; refinement of `AnswerService`. Three requests are the fewest with an answer produced, evicted or replaced, and reused |
| `MCChat` | the page with 2 requests of one follow-up question, pages 1 and 2, 2 sessions, usable and broken prompt template; cache of 1, lifetime 1, window 2, sessions that expire with the next tick, clock to 1; fairness, no symmetry | type invariants; Claude calls; memory and screen agree under New Chat, refusals and lost connections; every request ends and the form recovers. Two requests suffice to overtake one another, to be a page and its next, and to stand in two sessions |
| `MCRateLimiter` | 2 addresses, 2 requests per window of 2, clock to 5 | no interval of the window's length admits more than the limit, wherever it begins; nobody is refused below it. Two and a half windows suffice to fill, drain and refill a bucket |
| `MCDatabasePool` | 4 users, 6 connections, size 2 | one place for each connection, none lost or used after closing, the pool's size kept across failures. Two users over the size create overflow in both directions |
| `MCSchemaService` | startup and 2 calls, pool of 1, lifetime 1, clock to 2; fairness, no symmetry | the lock and the connection come back on every way out, replies are current, one introspection per lifetime, every call ends; with a single connection any leak makes the pool overflow. Two calls suffice for one that waits behind another, whichever of them fails |
| `MCQueryExecutor` | 2 queries, 1 thread that may hang, pages 1 and 2 of 2 rows, 0 to 4 rows; fairness, no symmetry | results that end before, on and after the end of a page, by both ways of fetching; every query is answered or refused; one cancelled in line never starts |
| `MCClaudeCalls` | questions of 3 words over every set of 5 tables in 2 schemas, one of which is called like a schema and one by a letter, histories of 0 to 4 turns with 3 that keep their SQL; all answers of up to 4 tokens of 9 kinds, or 4 of 5 kinds after WITH, and longer ones (2 statements, 4 ways to begin, comments, semicolons, 3 ways to end), nearly all of them ordinary; groups of up to 3 rows with negative, positive and missing values, whose labels are years as texts or as numbers or are not, or begin with NULL, under a name that says "year" or not; listings of up to 5 rows in every order with gaps anywhere; a row of NULLs wider than key figures may be, rows that the count missed, and every combination of what question and query mention; fairness | what Claude sees (`PromptSound`), how often it is called (`ClientSound`), what of its answer runs (`OrdinaryAnswerRuns`, `ExecutedIsValid`), that what a template says of groups, of years and of a falling listing is true of the rows and that it leads on (`TemplatesHonest`, which is `ComparisonHonest`, `TrendHonest`, `TopRangeHonest` and `SuggestsFollowups`), and that rows never go without a wanted commentary (`NothingUnsaid`, `RowsGetCommentary`). Three rows are the fewest in which the middle one may have no value, and in which a trend has two steps; five rows exceed `TopRows` 4, and four have two that are not named, one of them without a value; four turns exceed the three that keep their SQL; four tokens give every order of the clean-up's passes a case |
| `Find*` | see section 4 | |

The runs of the orchestrator, the page, the Claude calls, the schema service, the executor and the pool set
`CHECK_DEADLOCK FALSE`: each call is made once and the clock stops at `MaxClock`, and a pool that
failed to start or was closed does nothing more, so these systems do come to rest.  The runs of
the cache, the memory and the limiter check deadlock.
Symmetry is used where no CHOOSE and no distinguished element is involved, and never with
liveness.  `MaxClock` and the sets of callers, queries and connections are the only bounds that are not the
code's own (sizes, windows and lifetimes are constructor parameters); the theorems hold for
every value of them.
`SessionTtl = 0` in `MCShared` makes sessions expire with the first tick, so that expiry occurs
between any two steps at little cost; the other runs of the
memory and the pipeline use 1 and 2, and `MCChat` 0 again.  `Following` and `Setting` in `MCChat`
and `Questions`, `Answers` and `Results` in `MCClaudeCalls` are inputs, not bounds on behaviour.  The
results of `MCClaudeCalls` are small enough for small limits (`TopRows` 4, `TopItems` 2, `KpiColumns`
2, `PromptRows` 1, `MaxQueryLength` 13) to fall among them.

## 4. Where code and documentation differ

Each of these runs checks one property that a comment of the repository states, and TLC reports
a counterexample.

| Run | Statement | What happens |
|---|---|---|
| `FindFollowUp` | follow-ups work on "the previous SQL" (`conversation_memory.py:4`) | the cache key has no session: "only the top 5" in one session is answered with another session's query |
| `FindHasMore` | the count is run "to support has_more pagination" (`query_executor.py:13`) | where the count fails and OFFSET/FETCH succeeds (a query with ORDER BY, which T-SQL does not allow in the counted subquery), the total is -1 and `has_more` is false on a page that has successors |
| `FindHistoryTables` | "Table was referenced in conversation history SQL (for follow-ups)" is a reason to include it (`nl_to_sql.py:262`) | `m[1]` of a captured name is its second character: a table of the history that the question does not name is left out as soon as another one matches |

The statements of the validator and the templates are not all kept either.  No run is spent on the
following; each can be seen in the states that `MCClaudeCalls` visits, and what its properties
say instead is stated with them:

* The validator protects against "concatenated statements" (`sql_validator.py:8`), but SQL Server
  needs no semicolon between statements, and the check looks for nothing else: the answer
  `SELECT ... SELECT ...` is valid and is executed, in the code and in the model (`select`, `word`,
  `select`, `word`).  `ExecutedIsValid` says that what is executed passes the validator's checks
  itself and has no semicolon and no dashes, and *not* that it is a single statement.
* `_clean_sql` strips "comments" (`nl_to_sql.py:325`), but only those that begin with two dashes; one
  between slashes and asterisks (token `block`) is executed with the statement.
* "Range: ... (highest) to ... (lowest)" (`template_commentary.py:464-465`) are the values of the first
  and the last row, whatever their order: where rows rise, as in the "bottom 10" that the same template
  suggests (`:199`), the smallest value is called the highest.  `TopRangeHonest` says that both are
  values of the page, and that they bound it where the values fall, with gaps or without.
* A year with the value of the year before has "decreased by 0" (`:404`, `:409`); `TrendHonest` takes it
  as a change of 0.
* "Generate 2-4 ... suggestions" (`:114`): what is to fill up the list has conditions of its own
  (`:214-218`), and one suggestion may be all.  `SuggestsFollowups` asks for one.
* "Extract label→value pairs" (`:314`): where all columns are numeric (`SELECT year, SUM(...)` with a
  whole number for the year) the first one is label and value: the years are ranked and added up, the
  sums are not read.  `ComparisonHonest` and `TrendHonest` judge the columns that the code takes.

Further observations, which the models reproduce but no run asks about:

* A cache hit returns before `add_turn`: the result shown last is not in the history, and the
  next follow-up modifies an older query.
* The cache key has no `commentary_prompt`: a request with a custom prompt may get a cached
  answer with the default commentary, where `commentary.py:47` says that custom prompts always
  reach Claude.
* A prompt can hold one turn more than the window, where a comment says "0-6 turns"
  (`prompts/nl_to_sql.py:15`), because `add_turn` appends to the list that a suspended handler
  holds before it cuts the window (`PromptBoundHolds` proves that it is never more than one).
* Page 2 of a follow-up is SQL written anew from a history that holds page 1's turn; after New
  Chat, the Next Page button of a late answer asks in the new session.
* `m[1]` raises `IndexError` for a one-character name: that request and the session's later ones
  end in a 500 until the turn leaves the window.
* Foreign-key targets (`nl_to_sql.py:261`) are never found: the code collects their schema.
* An empty schema is never cached, so that the second check of `get_tables` does not hold back
  callers that waited for the lock.
* The first of the validator's two signatures (`sql_validator.py:88`) can never match: the check
  before it has refused every text that it would.
* `CLAUDE_MAX_RETRIES` has no effect; there are always three attempts.
* A top-N listing whose last row has no value is given up for the generic text; totals and
  percentages are those of the page.
* A column that begins with NULL counts as one of labels, however many numbers follow
  (`template_commentary.py:251`).
* A row of NULLs with more than 8 columns gets the generic text of a template, where a narrower one
  goes to Claude; so do rows for which the count said 0 (`NothingUnsaid` states both).
* The list of tables may be narrowed although the question names none of them: a table called like
  the schema of some foreign key, or by the second character of a name in the history, is kept, and
  the others go (`SchemaSound` states it).

## 5. Fairness

`FairSpec` assumes weak fairness of `Proceeds(r)` for each request: a handler that stands at
an await is eventually resumed with a result or an exception.  For Claude calls the client's
timeout and its limited attempts justify it; for queries, `asyncio.wait_for` in the executor.
The introspection queries of the schema service have no timeout of their own: that the
database driver returns from them is an assumption about the environment.  Nothing is assumed
of arrivals, of the clock or of the schema: clients may stay away.  Strong fairness is not
needed, because a suspended handler stays enabled until it proceeds.

`SchemaService!FairSpec` makes the same assumption for each call of `get_tables`; that a waiter
gets the lock is then a consequence of the lock's first-in, first-out queue, not an assumption.
`ChatSystem!FairChat` assumes weak fairness of `Advances(r)`: a request that the page still waits for
arrives, its awaited calls end as above, and the browser runs the handler of a response that is
there.  Nothing is assumed of the user, nor of a request whose connection broke.
`ClaudeCalls!FairSpec` is weak fairness of the next step of the one request: an API call ends, the
SDK having a timeout, a timer goes off, a query ends by the executor's timeout.
`QueryExecutor!FairSpec` assumes only the timer of `asyncio.wait_for`: worker threads and the
database may hang for ever.

## 6. Proofs

All proofs are checked by `tlapm` down to the last leaf, for arbitrary constants under the
named assumptions in the modules (`CacheAssumption`, `MemoryAssumption`,
`OrchestratorAssumption`, `EntryAssumption`, `LimiterAssumption`, `PoolAssumption`,
`ExecutorAssumption`, `SchemaAssumption`, `ChatAssumption`, `FilterAssumption`, `LengthAssumption`,
`ClientAssumption`, `TemplateAssumption`, `QuestionsAssumption`, `AnswersAssumption`, `ResultsAssumption`): finite sets of keys, of callers and of users of the pool, positive sizes and
lifetimes (sessions may have lifetime 0), and absent values outside the sets they extend.

* **Cache.**  `TypeCorrect`, `CapacityHolds`, `LosesOnlyOldestHolds`.  Capacity is inductive
  with the type invariant: a set either finds room or frees exactly one slot.
* **Memory.**  `TypeCorrect`, `AccountedHolds`, `AliasAgreesHolds`, `WindowBoundHolds`,
  `DroppedOnlyIdleHolds`, `HeldOnlyGrowsHolds`, `WindowSlidesHolds`.  `WindowBound` needs `AliasAgrees`: that a
  held list is at most one too long follows because an append reaches a held list only while
  it *is* the session's list, which is within the window; `AliasAgrees` needs `Accounted`
  because an expired session is recognised by its access time.
* **Pipeline.**  None of the pipeline's invariants is inductive alone.  What a request reads
  now was put there by another, several steps earlier.  The link between them is the request
  whose Claude call wrote the SQL, its *author*.  The inductive invariant `IInv` has seven parts:
  `TypeOK`; `Phases` (which fields are set at which `pc`); `Bodies` (a delivered answer
  matches its request, and its author was answered with the same SQL); `Stored` (so does
  every cache entry, and its expiry is its age plus the lifetime); `Remembered` (so does
  every turn, with the session of its author); `Lent` (so does every turn of a held list);
  `Prompted` (and of a prompt).  From it:
  `AnswersOwnQuestionHolds`, `CacheHoldsDeliveredHolds`, `PromptStaysInSessionHolds`,
  `TurnsWereAnsweredHolds`, `PromptBoundHolds`, `FreshWhenDeliveredHolds`, and `Refinement`:
  `Spec => ImplementsService`.  In the refinement a hit maps to `Reuse` with the author of the
  entry as witness (`Stored` provides it), a completion to `Produce`, and steps inside the
  pipeline to stuttering.

  `CallBudgetHolds` needs one more part, `Counted`: how many calls a handler has made is fixed by
  where it stands, and an answer that its own call wrote is the only one it can have paid for.

* **Chat page.**  `PipelineBehindPage`: every behaviour of `ChatSystem` is one of `QueryOrchestrator`
  (each step of the page is a step of the pipeline or leaves it alone), so that all theorems above
  hold behind the page.  `PageTypeCorrect`, `MemoryIsOnScreenHolds` and `TurnsInAskingOrderHolds`
  rest on `IInv` and four more parts: `Deliveries` (results are answered requests, and what the page has settled is done
  or never arrived), `OneAtATime` (at most one question of the form is waited for, and then its
  button is disabled), `OnScreen` (the questions of the current session are on the screen, once
  each, and all but the last are no longer waited for) and `InOrder`, of the turns of the current
  session.  That two questions are never under way together is what carries the order of asking
  over to the order of completion.

* **Rate limiter.**  `TypeCorrect`, `AnyWindowHolds`, `RefusedOnlyWhenFullHolds`.  The invariant
  `Pruned` says what pruning may forget: a bucket holds of everything ever admitted at least
  what is still within the window.  An interval of the window's length that contains `now` is
  then counted by the bucket; one that lies in the past did not change.

* **Connection pool.**  `TypeCorrect`, `InOnePlaceHolds`, `NeverShrinksHolds`,
  `HandedOutAliveHolds`.  The invariant has three parts: `Places` (the deque has no connection
  twice, no user has one of the deque, no two users have the same, and what is open is exactly in these
  places), `Stages` (who has a connection at which point of `acquire`) and `Filling` (once
  populated, the deque and the connections in use are at least the pool's size).  Leaving one block and
  entering the next may be one step, so `Places` and the count are stated of any deque and any
  owners, and `LeaveOK` and `TakeOK` are composed.  `Filling` counts owners, which is why the set
  of users is finite.

* **Query executor.**  `TypeCorrect`, `PageIsExactHolds`, `NextPageExistsHolds`,
  `CancelledNeverRunsHolds`.  The invariant says what a finished job holds: an error, or the rows of
  its page with a total that is the size of the result or the -1 of a failed count.  That the
  slice of the fallback and the window of OFFSET/FETCH are the same rows is `Sizes`; that both are the
  page in the sense of division is `PageOfRow`.

* **Schema service.**  `TypeCorrect`, `LockAndConnectionHolds`, `RepliesCurrentHolds`,
  `OncePerLifetimeHolds`.  The invariant joins three parts that are proved one after the other.
  `Line`: those who wait stand in the lock's queue, once each, and only its head introspects.
  `Hands` and `Full`, of the pool: a call has a connection exactly while it introspects, and the
  deque is short of `PoolSize` by no more than that one connection, which is why the head of the
  line always finds one and never has to wait for a connection to be made.
  `Times` and `Overdue`: an introspection began after its call was made, and one that nobody
  insisted on began when the cached schema's lifetime was over; nobody else changes the cache meanwhile,
  because nobody else is at the head of the line.

* **Claude calls.**  `ClientSoundHolds`, `PromptSoundHolds`, `NothingUnsaidHolds`,
  `ExecutedIsValidHolds`, `OrdinaryAnswerRunsHolds`, `ComparisonHonestHolds`, `TrendHonestHolds`,
  `TopRangeHonestHolds`, `SuggestsFollowupsHolds` and, of these four, `TemplatesHonestHolds`.  The state has little to say here.  The invariants add to the properties that a call has begun an attempt unless it is idle
  (`Begun`), and that what is shown or said is what the operators make of the input (`PromptInv`,
  `SaidInv`); the rest is about the operators, for sequences of any length.
  - *Induction.*  `InductionOnSet` derives it from the least element of a set of numbers, and the
    proofs apply it to sets that they define.
  - *Filters and sorts.*  `Arrangement`: a total order gives each position a place of its own, so
    that what is arranged is the chosen elements, each once, in that order.
  - *Totals.*  `TotalRearranged`: a sum does not depend on the order, by moving the last element to
    its place.  The total of the sorted groups is then that of the page.  A direction and an amount
    make a signed difference (`MoveIs`), and those of a trend add up to the difference of its ends
    (`TrendIs`).
  - *Ranges.*  A listing that names two rows has a value in its first row, by which the column was
    chosen, and in its last, or the template would have been given up; where the values fall, these
    two bound the others, whichever rows between them have none.
  - *What runs.*  Strip and semicolons leave a stretch of the text (`Stretch`, `Stripped`), the
    removal of comments a text without dashes; a stretch has no token that the whole has not, and
    a text of which only white space and semicolons are left out begins as a statement exactly if
    the rest does (`StartPicked`, `StartWhole`).
  - *What an ordinary answer becomes.*  Every pass keeps the meaning (`Keeps`).  A pass that cuts takes only
    what surrounds a statement, and so neither starts nor ends a comment (`RemarkWithin`).  The pass
    that removes comments removes no more, because an ordinary answer has no literal with dashes
    (`CommentIsRemark`).  There is one way to pick the elements at given positions (`SamePicks`), and
    to pick from what was picked is to pick from the whole (`ChosenAgain`), so that the words that are
    left are those that were meant.
  - *Prompts and suggestions* need only cases.

Three invariants are in no run's list and are proved: `AliasAgrees` and `HeldOnlyGrows` of the
memory, which say of the aliasing what `WindowBound` needs, and `PromptBound`, which it would take
four requests to exceed where `MCShared` has three.

Only model-checked: `EveryRequestEnds`, `PageRecovers`, `RowsGetCommentary`, `EveryCallEnds` and
`EveryQueryEnds` (liveness under fairness and ENABLED are beyond this prover), and the counterexamples
of section 4.  Every invariant and action property that a run checks is a theorem.

## 7. What is not modelled

* Timings, wording and scaling of texts, percentages, how names are split into words, and logging.
* Internal errors after the query was executed (a value that does not convert, a response
  that does not validate); they end in a 500 and leave no state behind.
* A restart of the server: nothing is persisted, so it begins again with `Init`, and the page
  sees lost connections, which are modelled.
* What the Anthropic SDK repeats inside one attempt, and what the database driver does: external.
* `format_for_response` converts values one by one; `detect_chart_type` and `FeedbackRequest` have no
  caller.  The limits in the request model are declarations; that a request may be refused is an action.
* Configuration, routing, the health check and the request logger keep no state that another part reads.

## 8. Plan

Done: all components with state and all parts of the pipeline, with runs; proofs of every safety
property, and that the pipeline implements `AnswerService`.
Left: that the parts of a composition implement their own specifications (the pool behind
`SchemaService`, where leaving one block and entering the next is one step), and that the one
request of `ClaudeCalls` takes the steps that `QueryOrchestrator` allows it.

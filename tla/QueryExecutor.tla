------------------------------ MODULE QueryExecutor ------------------------------
(***************************************************************************)
(* Running a query with a timeout, app/services/query_executor.py.  The    *)
(* handler of query q waits (task[q]) for a job that a worker thread runs  *)
(* (job[q]).  When the time is over the handler stops waiting: a job that  *)
(* still stood in line is cancelled, and passed over when its turn comes;  *)
(* one that runs cannot be, and keeps its thread and its connection until  *)
(* the database lets it go.                                                *)
(*                                                                         *)
(* size[q] is the number of rows that q has; the rows are 1 .. size[q],    *)
(* and do not change while it runs.  Which statements the database accepts *)
(* is its business: the count and the OFFSET/FETCH form may each fail.     *)
(***************************************************************************)
EXTENDS Integers, Sequences, FiniteSets

CONSTANTS Query, Workers, Page, PageSize, Size

ASSUME ExecutorAssumption ==
  /\ Workers \in Nat \ {0}
  /\ Page \subseteq Nat \ {0} /\ PageSize \in Nat \ {0} /\ Size \subseteq Nat

VARIABLES
  task, job,
  queue,        \* the jobs that wait for a thread, also cancelled ones
  size, page,   \* what each query selects, and which page is wanted
  total,        \* total_rows in the thread
  result        \* what the thread returned or raised

executorVars == <<task, job, queue, size, page, total, result>>

Error == {"table_not_found", "execution_error"}

Nothing == [rows |-> {}, total |-> 0, error |-> "none"]

Running == {q \in Query : job[q] \in {"connecting", "counting", "paging", "fetching_all"}}

Init ==
  /\ task = [q \in Query |-> "idle"]
  /\ job = [q \in Query |-> "none"]
  /\ queue = <<>>
  /\ size \in [Query -> Size] /\ page \in [Query -> Page]
  /\ total = [q \in Query |-> 0]
  /\ result = [q \in Query |-> Nothing]

-----------------------------------------------------------------------------
(* The handler. *)

Execute(q) ==
  /\ task[q] = "idle"
  /\ task' = [task EXCEPT ![q] = "waiting"]
  /\ job' = [job EXCEPT ![q] = "queued"]
  /\ queue' = Append(queue, q)
  /\ UNCHANGED <<size, page, total, result>>

\* The thread's result reaches the event loop in time.
Returns(q) ==
  /\ task[q] = "waiting" /\ job[q] = "finished"
  /\ task' = [task EXCEPT ![q] = IF result[q].error \in Error THEN "failed" ELSE "returned"]
  /\ UNCHANGED <<job, queue, size, page, total, result>>

\* Mutation: the job is not cancelled.
TimesOutQueued(q) ==
  /\ task[q] = "waiting"
  /\ task' = [task EXCEPT ![q] = "timed_out"]
  /\ UNCHANGED <<job, queue, size, page, total, result>>

\* Mutation: the handler waits until the thread can be stopped.
TimesOutWhenStopped(q) ==
  /\ task[q] = "waiting" /\ q \notin Running
  /\ task' = [task EXCEPT ![q] = "timed_out"]
  /\ job' = [job EXCEPT ![q] = IF @ = "queued" THEN "cancelled" ELSE @]
  /\ UNCHANGED <<queue, size, page, total, result>>

TimesOut(q) ==
  /\ task[q] = "waiting"
  /\ task' = [task EXCEPT ![q] = "timed_out"]
  /\ job' = [job EXCEPT ![q] = IF @ = "queued" THEN "cancelled" ELSE @]
  /\ UNCHANGED <<queue, size, page, total, result>>

-----------------------------------------------------------------------------
(* The worker thread: _execute_sync. *)

\* A free thread takes the job whose turn it is.
Starts(q) ==
  /\ queue # <<>> /\ Head(queue) = q /\ job[q] = "queued"
  /\ Cardinality(Running) < Workers
  /\ queue' = Tail(queue)
  /\ job' = [job EXCEPT ![q] = "connecting"]
  /\ UNCHANGED <<task, size, page, total, result>>

Skips(q) ==
  /\ queue # <<>> /\ Head(queue) = q /\ job[q] = "cancelled"
  /\ Cardinality(Running) < Workers
  /\ queue' = Tail(queue)
  /\ UNCHANGED <<task, job, size, page, total, result>>

Finishes(q, r) ==
  /\ job' = [job EXCEPT ![q] = "finished"]
  /\ result' = [result EXCEPT ![q] = r]
  /\ UNCHANGED <<task, queue, size, page>>

\* The connection, a statement that may not fail, or fetching its rows: the
\* exception ends the job.
Breaks(q) ==
  /\ job[q] \in {"connecting", "paging", "fetching_all"}
  /\ \E e \in Error : Finishes(q, [Nothing EXCEPT !.error = e])
  /\ UNCHANGED total

Connects(q) ==
  /\ job[q] = "connecting"
  /\ job' = [job EXCEPT ![q] = "counting"]
  /\ UNCHANGED <<task, queue, size, page, total, result>>

\* SELECT COUNT(*) FROM (sql), which may be refused.
Counts(q) ==
  /\ job[q] = "counting"
  /\ job' = [job EXCEPT ![q] = "paging"]
  /\ \E n \in {size[q], -1} : total' = [total EXCEPT ![q] = n]
  /\ UNCHANGED <<task, queue, size, page, result>>

\* sql OFFSET .. FETCH NEXT ..
Offset(q) == (page[q] - 1) * PageSize

Fetched(q) == {i \in 1 .. size[q] : Offset(q) < i /\ i <= Offset(q) + PageSize}

PageReturned(q) ==
  /\ job[q] = "paging"
  /\ Finishes(q, [rows |-> Fetched(q), total |-> total[q], error |-> "none"])
  /\ UNCHANGED total

PageRefused(q) ==
  /\ job[q] = "paging"
  /\ job' = [job EXCEPT ![q] = "fetching_all"]
  /\ UNCHANGED <<task, queue, size, page, total, result>>

\* Mutation: the slice starts at the page's number times the size.
SlicedLate(q) == {i \in 1 .. size[q] : Offset(q) + PageSize < i /\ i <= Offset(q) + 2 * PageSize}

\* all_rows[start_idx : start_idx + page_size]
Sliced(q) == {i \in 1 .. size[q] : Offset(q) + 1 <= i /\ i < Offset(q) + 1 + PageSize}

\* The length of the whole result is the total.
AllFetched(q) ==
  /\ job[q] = "fetching_all"
  /\ total' = [total EXCEPT ![q] = size[q]]
  /\ Finishes(q, [rows |-> Sliced(q), total |-> size[q], error |-> "none"])

-----------------------------------------------------------------------------
Handler(q) == Execute(q) \/ Returns(q) \/ TimesOut(q)

Thread(q) == \/ Starts(q) \/ Skips(q) \/ Connects(q) \/ Counts(q) \/ Breaks(q)
             \/ PageReturned(q) \/ PageRefused(q) \/ AllFetched(q)

Next == \E q \in Query : Handler(q) \/ Thread(q)

Spec == Init /\ [][Next]_executorVars

\* Only the event loop's timer is relied upon; the database may hang for ever.
FairSpec == Spec /\ \A q \in Query : WF_executorVars(TimesOut(q))

-----------------------------------------------------------------------------
\* Mutation: a full page is taken for a sign of more.
HasMoreWhenFull(q) == page[q] * PageSize <= result[q].total

\* has_more of the response (orchestrator.py:198).
HasMore(q) == page[q] * PageSize < result[q].total

\* Type invariant; only a job whose handler waits stands in line.
TypeOK ==
  /\ task \in [Query -> {"idle", "waiting", "returned", "failed", "timed_out"}]
  /\ job \in [Query -> {"none", "queued", "cancelled", "connecting", "counting", "paging",
                        "fetching_all", "finished"}]
  /\ queue \in Seq(Query)
  /\ size \in [Query -> Size] /\ page \in [Query -> Page]
  /\ total \in [Query -> Int]
  /\ \A q \in Query : /\ job[q] = "queued" => task[q] = "waiting"
                      /\ task[q] = "idle" => job[q] = "none"

Got == {q \in Query : task[q] = "returned"}

\* Every page has its own rows, and no other, whichever of the two ways the rows
\* were fetched (query_executor.py:104-145).
PageIsExact ==
  \A q \in Got : result[q].rows =
    {i \in 1 .. size[q] : (i - 1) \div PageSize = page[q] - 1}

\* No client is sent to a page that has no row (orchestrator.py:198).
NextPageExists ==
  \A q \in Got : HasMore(q) => \E i \in 1 .. size[q] : i > page[q] * PageSize

\* A query whose client was told that it timed out while it waited for a thread does
\* not burden the database afterwards (query_executor.py:58-64).
CancelledNeverRuns ==
  [][\A q \in Query : q \in Running' \ Running => task[q] = "waiting"]_executorVars

\* Every query is answered or refused, though threads may hang (query_executor.py:58-78).
EveryQueryEnds == \A q \in Query : task[q] = "waiting" ~> task[q] # "waiting"

\* "runs a COUNT(*) subquery first to support has_more pagination"
\* (query_executor.py:14): when there are rows after this page, has_more says so.
HasMoreTells ==
  \A q \in Got : (\E i \in 1 .. size[q] : i > page[q] * PageSize) => HasMore(q)
=============================================================================

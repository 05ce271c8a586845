--------------------------- MODULE QueryExecutorProofs ---------------------------
(***************************************************************************)
(* Proofs about QueryExecutor: a page is exact, whichever way it was       *)
(* fetched; has_more leads to rows; a query that timed out in line never   *)
(* runs.                                                                   *)
(***************************************************************************)
EXTENDS QueryExecutor, SequenceTheorems, TLAPS

\* The bounds of a page, as the code computes them and as a division.
LEMMA PageOfRow ==
  ASSUME NEW i \in Nat \ {0}, NEW p \in Nat \ {0}, NEW k \in Nat \ {0}
  PROVE  (i - 1) \div k = p - 1 <=> (p - 1) * k < i /\ i <= (p - 1) * k + k
BY SMTT(30)

LEMMA PageEnd ==
  ASSUME NEW p \in Nat \ {0}, NEW k \in Nat \ {0}
  PROVE  p * k \in Nat /\ (p - 1) * k \in Nat /\ p * k = (p - 1) * k + k
BY SMTT(30)

-----------------------------------------------------------------------------
(***************************************************************************)
(* The inductive invariant: what a finished job holds, and what of it the  *)
(* handler has returned.  total is trusted only between the count and the  *)
(* end of the job.                                                         *)
(***************************************************************************)
Good(q) == result[q].rows = Fetched(q) /\ result[q].total \in {size[q], -1}

Finished ==
  \A q \in Query : /\ job[q] = "paging" => total[q] \in {size[q], -1}
                   /\ job[q] = "finished" => result[q].error \in Error \/ Good(q)

Returned == \A q \in Got : job[q] = "finished" /\ result[q].error \notin Error

Shaped == result \in [Query -> [rows : SUBSET Nat, total : Int, error : Error \cup {"none"}]]

IInv == TypeOK /\ Shaped /\ Finished /\ Returned

LEMMA Sizes ==
  ASSUME TypeOK, NEW q \in Query
  PROVE  /\ size[q] \in Nat /\ page[q] \in Nat \ {0}
         /\ Offset(q) \in Nat /\ Offset(q) + PageSize = page[q] * PageSize
         /\ Sliced(q) = Fetched(q) /\ Fetched(q) \subseteq Nat
<1>1. size[q] \in Nat /\ page[q] \in Nat \ {0} BY ExecutorAssumption DEF TypeOK
<1>2. Offset(q) \in Nat /\ Offset(q) + PageSize = page[q] * PageSize
  BY <1>1, PageEnd, ExecutorAssumption DEF Offset
<1>3. Sliced(q) = Fetched(q) /\ Fetched(q) \subseteq Nat
  BY <1>1, <1>2, ExecutorAssumption DEF Sliced, Fetched
<1>4. QED BY <1>1, <1>2, <1>3

LEMMA InvInit == Init => IInv
<1> SUFFICES ASSUME Init PROVE IInv
  OBVIOUS
<1> USE DEF Init
<1>1. queue \in Seq(Query) BY EmptySeq
<1>2. TypeOK BY <1>1 DEF TypeOK
<1>3. Shaped BY DEF Shaped, Nothing
<1>4. Finished /\ Returned BY DEF Finished, Returned, Got
<1>5. QED BY <1>2, <1>3, <1>4 DEF IInv

\* A job ends with a result r.
LEMMA FinishesOK ==
  ASSUME IInv, NEW q \in Query, job[q] \in {"connecting", "paging", "fetching_all"},
         NEW r \in [rows : SUBSET Nat, total : Int, error : Error \cup {"none"}],
         r.error \in Error \/ (r.rows = Fetched(q) /\ r.total \in {size[q], -1}),
         Finishes(q, r), total' \in [Query -> Int],
         \A d \in Query : d # q => total'[d] = total[d]
  PROVE  IInv'
<1> USE DEF IInv, Finishes
<1>1. TypeOK' BY DEF TypeOK
<1>2. Shaped' BY DEF Shaped
<1>3. result'[q] = r /\ job'[q] = "finished" /\ \A d \in Query : d # q => result'[d] = result[d] /\ job'[d] = job[d]
  BY DEF Shaped, TypeOK
<1>4. \A d \in Query : Fetched(d)' = Fetched(d) /\ size'[d] = size[d]
  BY DEF Fetched, Offset
<1>5. Finished' BY <1>3, <1>4 DEF Finished, Good
<1>6. Returned' BY <1>3 DEF Returned, Got
<1>7. QED BY <1>1, <1>2, <1>5, <1>6

LEMMA InvStep == IInv /\ [Next]_executorVars => IInv'
<1> SUFFICES ASSUME IInv, [Next]_executorVars PROVE IInv'
  OBVIOUS
<1>1. ASSUME NEW q \in Query, Execute(q) PROVE IInv'
  <2> USE <1>1 DEF IInv, Execute
  <2>1. queue' \in Seq(Query) BY AppendProperties DEF TypeOK
  <2>2. TypeOK' BY <2>1 DEF TypeOK
  <2>3. QED BY <2>2 DEF TypeOK, Shaped, Finished, Returned, Good, Got, Fetched, Offset
<1>2. ASSUME NEW q \in Query, Returns(q) PROVE IInv'
  BY <1>2 DEF IInv, Returns, TypeOK, Shaped, Finished, Returned, Good, Got, Fetched, Offset
<1>3. ASSUME NEW q \in Query, TimesOut(q) PROVE IInv'
  BY <1>3 DEF IInv, TimesOut, TypeOK, Shaped, Finished, Returned, Good, Got, Fetched, Offset
<1>4. ASSUME NEW q \in Query, Starts(q) \/ Skips(q) PROVE IInv'
  <2> USE <1>4 DEF IInv, Starts, Skips
  <2>1. queue' \in Seq(Query) BY HeadTailProperties DEF TypeOK
  <2>2. TypeOK' BY <2>1 DEF TypeOK
  <2>3. QED BY <2>2 DEF TypeOK, Shaped, Finished, Returned, Good, Got, Fetched, Offset
<1>5. ASSUME NEW q \in Query, Connects(q) \/ PageRefused(q) PROVE IInv'
  BY <1>5 DEF IInv, Connects, PageRefused, TypeOK, Shaped, Finished, Returned, Good, Got,
              Fetched, Offset
<1>6. ASSUME NEW q \in Query, Counts(q) PROVE IInv'
  <2> USE <1>6 DEF IInv, Counts
  <2>1. size[q] \in Int BY Sizes
  <2>2. TypeOK' BY <2>1 DEF TypeOK
  <2>3. QED BY <2>2 DEF TypeOK, Shaped, Finished, Returned, Good, Got, Fetched, Offset
<1>7. ASSUME NEW q \in Query, Breaks(q) PROVE IInv'
  <2> DEFINE failed(e) == [rows |-> {}, total |-> 0, error |-> e]
  <2>1. PICK e \in Error : Finishes(q, failed(e))
    <3>1. \A e : [Nothing EXCEPT !.error = e] = failed(e) BY DEF Nothing
    <3>2. QED BY <1>7, <3>1 DEF Breaks
  <2>2. failed(e) \in [rows : SUBSET Nat, total : Int, error : Error \cup {"none"}]
        /\ failed(e).error \in Error
    OBVIOUS
  <2>3. job[q] \in {"connecting", "paging", "fetching_all"} /\ total' = total BY <1>7 DEF Breaks
  <2>4. total' \in [Query -> Int] /\ \A d \in Query : d # q => total'[d] = total[d]
    BY <2>3 DEF IInv, TypeOK
  <2> HIDE DEF failed
  <2>5. QED BY <2>1, <2>2, <2>3, <2>4, FinishesOK
<1>8. ASSUME NEW q \in Query, PageReturned(q) PROVE IInv'
  <2>1. Fetched(q) \subseteq Nat /\ total[q] \in Int /\ total[q] \in {size[q], -1}
    BY <1>8, Sizes DEF PageReturned, IInv, TypeOK, Finished
  <2>2. QED BY <1>8, <2>1, FinishesOK DEF PageReturned, IInv, TypeOK
<1>9. ASSUME NEW q \in Query, AllFetched(q) PROVE IInv'
  <2>1. Sliced(q) = Fetched(q) /\ Fetched(q) \subseteq Nat /\ size[q] \in Nat
    BY Sizes DEF IInv
  <2>2. total' \in [Query -> Int] /\ \A d \in Query : d # q => total'[d] = total[d]
    BY <1>9, <2>1 DEF AllFetched, IInv, TypeOK
  <2>3. QED BY <1>9, <2>1, <2>2, FinishesOK DEF AllFetched
<1>10. CASE UNCHANGED executorVars
  BY <1>10 DEF executorVars, IInv, TypeOK, Shaped, Finished, Returned, Good, Got, Fetched, Offset
<1>11. QED
  BY <1>1, <1>2, <1>3, <1>4, <1>5, <1>6, <1>7, <1>8, <1>9, <1>10 DEF Next, Handler, Thread

LEMMA Inductive == Spec => []IInv
BY InvInit, InvStep, PTL DEF Spec

-----------------------------------------------------------------------------
\* Every reachable state is well typed, and only jobs with a waiting handler are in line.
THEOREM TypeCorrect == Spec => []TypeOK
<1>1. IInv => TypeOK BY DEF IInv
<1>2. QED BY <1>1, Inductive, PTL

\* A page holds its own rows and no other, for every size of page and result and for
\* both ways of fetching it (query_executor.py:104-145).
THEOREM PageIsExactHolds == Spec => []PageIsExact
<1>1. IInv => PageIsExact
  <2> SUFFICES ASSUME IInv, NEW q \in Got
               PROVE  result[q].rows = {i \in 1 .. size[q] : (i - 1) \div PageSize = page[q] - 1}
    BY DEF PageIsExact
  <2>1. q \in Query /\ result[q].rows = Fetched(q) BY DEF IInv, Finished, Returned, Good, Got
  <2>2. size[q] \in Nat /\ page[q] \in Nat \ {0} BY <2>1, Sizes DEF IInv
  <2>3. ASSUME NEW i \in 1 .. size[q]
        PROVE  (i - 1) \div PageSize = page[q] - 1
                 <=> Offset(q) < i /\ i <= Offset(q) + PageSize
    <3>1. i \in Nat \ {0} BY <2>2
    <3>2. QED BY <2>2, <3>1, PageOfRow, ExecutorAssumption DEF Offset
  <2>4. QED BY <2>1, <2>3 DEF Fetched
<1>2. QED BY <1>1, Inductive, PTL

\* Whoever is told that there is more finds a row on the next page
\* (orchestrator.py:198).
THEOREM NextPageExistsHolds == Spec => []NextPageExists
<1>1. IInv => NextPageExists
  <2> SUFFICES ASSUME IInv, NEW q \in Got, HasMore(q)
               PROVE  \E i \in 1 .. size[q] : i > page[q] * PageSize
    BY DEF NextPageExists
  <2>1. q \in Query /\ result[q].total \in {size[q], -1}
    BY DEF IInv, Finished, Returned, Good, Got
  <2>2. size[q] \in Nat /\ page[q] * PageSize \in Nat
    BY <2>1, Sizes, PageEnd, ExecutorAssumption DEF IInv
  <2>3. page[q] * PageSize < size[q] BY <2>1, <2>2 DEF HasMore
  <2>4. size[q] \in 1 .. size[q] BY <2>2, <2>3
  <2>5. QED BY <2>2, <2>3, <2>4
<1>2. QED BY <1>1, Inductive, PTL

\* A query that timed out before a thread was free never runs
\* (query_executor.py:58-64).
THEOREM CancelledNeverRunsHolds == Spec => CancelledNeverRuns
<1>1. ASSUME IInv, [Next]_executorVars, NEW q \in Query, q \in Running' \ Running
      PROVE  task[q] = "waiting"
  <2> USE <1>1 DEF IInv, TypeOK, Running
  <2>1. ASSUME NEW d \in Query, Starts(d) PROVE task[q] = "waiting"
    BY <2>1 DEF Starts
  <2>2. ASSUME NEW d \in Query, Handler(d) PROVE FALSE
    BY <2>2 DEF Handler, Execute, Returns, TimesOut
  <2>3. ASSUME NEW d \in Query, Connects(d) \/ Counts(d) \/ PageRefused(d) \/ Skips(d) PROVE FALSE
    BY <2>3 DEF Connects, Counts, PageRefused, Skips
  <2>4. ASSUME NEW d \in Query, Breaks(d) \/ PageReturned(d) \/ AllFetched(d) PROVE FALSE
    BY <2>4 DEF Breaks, PageReturned, AllFetched, Finishes
  <2>5. CASE UNCHANGED executorVars BY <2>5 DEF executorVars
  <2>6. QED BY <2>1, <2>2, <2>3, <2>4, <2>5 DEF Next, Thread
<1>2. IInv /\ [Next]_executorVars =>
        [\A q \in Query : q \in Running' \ Running => task[q] = "waiting"]_executorVars
  BY <1>1
<1>3. QED BY <1>2, Inductive, PTL DEF Spec, CancelledNeverRuns
=============================================================================

------------------------------- MODULE ClaudeCalls -------------------------------
(***************************************************************************)
(* The two Claude calls of one request, from the question to the           *)
(* commentary: NLToSQLEngine.generate_sql, SQLValidator.validate and       *)
(* CommentaryGenerator.generate around ClaudeClient.complete.  Where       *)
(* QueryOrchestrator chooses an outcome, this module computes it from the  *)
(* data: from the tables, the history and what the question mentions,      *)
(* from Claude's answer token by token, and from the rows.                 *)
(*                                                                         *)
(* These steps read no state that other requests write: the request has    *)
(* its list of tables and formats its history in one go.  `input` and      *)
(* `output` hold what the last step worked on and what it made of it.      *)
(***************************************************************************)
EXTENDS SQLValidator, TemplateCommentary, ClaudeClient

CONSTANTS
  Questions,     \* [question, tables, history, template]
  Answers,       \* what Claude may write, token by token
  Results        \* [ask, query, result, insight]

\* Turns in the order of the history; tokens; rows of cells, as many as there are
\* columns, in a page that may hold rows even where the count said 0 or failed.  A
\* column of a SQL result has one type: it holds numbers or texts, and NULLs.
ASSUME QuestionsAssumption ==
  \A q \in Questions : q.history \in Seq([turn : Nat, names : SUBSET Name])

ASSUME AnswersAssumption == Answers \subseteq Seq(Token)

ASSUME ResultsAssumption ==
  \A c \in Results :
    /\ c.ask \in [comparison : BOOLEAN, topic : BOOLEAN, entity : BOOLEAN, years : Nat,
                  saysEntity : BOOLEAN, yearNamed : BOOLEAN]
    /\ c.query \in [groupBy : BOOLEAN, top : BOOLEAN, entity : BOOLEAN, year : BOOLEAN,
                    month : BOOLEAN, tag : BOOLEAN]
    /\ c.result.columns \in Nat \ {0} /\ c.result.total \in Nat \cup {-1}
    /\ c.result.rows \in Seq([1 .. c.result.columns -> Cell])
    /\ \A column \in 1 .. c.result.columns :
         \/ \A i \in DOMAIN c.result.rows : c.result.rows[i][column] \in Number \cup {Null}
         \/ \A i \in DOMAIN c.result.rows : c.result.rows[i][column] \in Text \cup {Null}

VARIABLES step, input, output

callVars == <<step, input, output, phase, attempts, error, waited>>

Nothing == [none |-> TRUE]

Step == {"question", "asking", "accepted", "executing", "commenting", "commented", "refused"}

Init ==
  /\ step = "question" /\ input \in Questions /\ output = Nothing
  /\ ClientInit

-----------------------------------------------------------------------------
(* Call 1. *)

PromptFails(q) == FilterRaises(q.question, q.history) \/ q.template = "broken"

PromptRefused ==
  /\ step = "question" /\ PromptFails(input)
  /\ step' = "refused"
  /\ UNCHANGED <<input, output, clientVars>>

AskClaude ==
  /\ step = "question" /\ ~PromptFails(input)
  /\ step' = "asking"
  /\ output' = Prompt(input.question, input.tables, input.history)
  /\ Start
  /\ UNCHANGED input

\* Either call is under way; nothing reads its input again, and the state drops it.
Waiting ==
  /\ Works
  /\ input' = Nothing /\ output' = Nothing
  /\ UNCHANGED step

\* The answer is read, cleaned and validated, or says that the question is out of scope.
Judged[sql \in Seq(Token)] == [verdict |-> Verdict(sql), sql |-> Validated(sql)]

Reading(raw) ==
  IF OutOfScope(raw) THEN [verdict |-> "out_of_scope", reply |-> ScopeAnswer(raw)]
  ELSE Judged[CleanSql(raw)]

Readings == {[answer |-> [raw |-> raw], reading |-> Reading(raw)] : raw \in Answers}

AnswerComes ==
  /\ step = "asking" /\ phase = "returned" /\ Taken
  /\ \E r \in Readings :
       /\ input' = r.answer /\ output' = r.reading
       /\ step' = IF r.reading.verdict = "valid" THEN "accepted" ELSE "refused"

\* generate_sql does not catch what the client raises.
CallFails ==
  /\ step = "asking" /\ phase = "raised" /\ Taken
  /\ step' = "refused"
  /\ UNCHANGED <<input, output>>

\* The validated text goes to the executor.
Execute ==
  /\ step = "accepted"
  /\ step' = "executing" /\ input' = Nothing /\ output' = Nothing
  /\ UNCHANGED clientVars

\* The executor raises, or times out; the handler answers with an error.
QueryFails ==
  /\ step = "executing"
  /\ step' = "refused"
  /\ UNCHANGED <<input, output, clientVars>>

-----------------------------------------------------------------------------
(* Call 2.  The rows are back; the handler goes on without a suspension to *)
(* a text or to the call.                                                  *)

Template(c) ==
  IF c.insight = "custom" THEN NoCommentary ELSE Commentary(c.ask, c.query, c.result)

Unanswered == {c \in Results : c.result.rows = <<>>}
Treated == {[case |-> c, says |-> Template(c)] : c \in Results \ Unanswered}
Untemplated == {t \in Treated : t.says = NoCommentary}
Templated == Treated \ Untemplated

\* The request did not want a commentary, and its answer has none.
NotWanted ==
  /\ step = "executing"
  /\ step' = "commented" /\ output' = [kind |-> "not_wanted"]
  /\ UNCHANGED <<input, clientVars>>

NoRows ==
  /\ step = "executing"
  /\ input' \in Unanswered
  /\ step' = "commented" /\ output' = [kind |-> "no_rows"]
  /\ UNCHANGED clientVars

FromTemplate ==
  /\ step = "executing"
  /\ \E t \in Templated :
       /\ input' = t.case
       /\ output' = [kind |-> t.says.kind, says |-> t.says,
                     followups |-> Followups(t.case.ask, t.case.query, t.case.result, t.says.kind)]
  /\ step' = "commented"
  /\ UNCHANGED clientVars

AskForCommentary ==
  /\ step = "executing"
  /\ \E t \in Untemplated :
       input' = t.case /\ output' = PromptTable(t.case.result)
  /\ step' = "commenting"
  /\ Start

CommentaryComes ==
  /\ step = "commenting" /\ phase = "returned" /\ Taken
  /\ step' = "commented" /\ output' = [kind |-> "llm"]
  /\ UNCHANGED input

\* Mutation: the exception is not caught.
CommentaryRaises ==
  /\ step = "commenting" /\ phase = "raised" /\ Taken
  /\ step' = "refused"
  /\ UNCHANGED <<input, output>>

\* Every exception becomes a text.
CommentaryFails ==
  /\ step = "commenting" /\ phase = "raised" /\ Taken
  /\ step' = "commented" /\ output' = [kind |-> "unavailable"]
  /\ UNCHANGED input

-----------------------------------------------------------------------------
Next ==
  \/ PromptRefused \/ AskClaude \/ Waiting \/ AnswerComes \/ CallFails
  \/ Execute \/ QueryFails \/ NotWanted \/ NoRows \/ FromTemplate \/ AskForCommentary
  \/ CommentaryComes \/ CommentaryFails

Spec == Init /\ [][Next]_callVars

\* A call of the API returns or fails in the end, the SDK having a timeout; so does
\* the query, by the executor's; and a timer goes off.
FairSpec == Spec /\ WF_callVars(Next)
=============================================================================

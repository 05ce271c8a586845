--------------------------- MODULE ClaudeCallProperties ---------------------------
(***************************************************************************)
(* What one request's Claude calls must keep true: what Claude is shown,   *)
(* what of its answer is executed, and what is said about the rows.        *)
(***************************************************************************)
EXTENDS ClaudeCalls

\* The client is at work exactly where a call is awaited.
TypeOK ==
  /\ step \in Step /\ phase \in Phase
  /\ phase # "idle" <=> step \in {"asking", "commenting"}
  /\ attempts \in 0 .. MaxAttempts /\ waited \in Nat
  /\ error \in Transient \cup Permanent \cup {"none"}

-----------------------------------------------------------------------------
(* Claude call 1. *)

Asked == step = "asking" /\ output # Nothing

\* However keywords, foreign keys and history play together, the schema that Claude
\* sees holds every table that the question names, and is narrowed only when the
\* question names one, or when a table has the name of a schema or of one letter,
\* which the links and the history are taken for; there is an example to go by
\* (nl_to_sql.py:259-263, 312, 321).
SchemaSound ==
  Asked =>
    /\ output.tables \subseteq input.tables
    /\ Matched(input.question, input.tables) \subseteq output.tables
    /\ output.tables # input.tables =>
         \/ Matched(input.question, input.tables) # {}
         \/ \E t \in output.tables : t.name \in Letter \cup ForeignTargets(input.tables)
    /\ output.examples # {}

\* The history keeps all turns in their order; the SQL is there for exactly the
\* most recent ones, and only the last one is marked as the base to modify
\* (nl_to_sql.py:220, 228-239).
BaseShown ==
  Asked =>
    LET lines == output.history
        full == {i \in DOMAIN lines : lines[i].full}
    IN /\ [i \in DOMAIN lines |-> lines[i].turn] =
            [i \in DOMAIN input.history |-> input.history[i].turn]
       /\ Cardinality(full) <= FullTurns
       /\ \A i \in full, j \in DOMAIN lines : i < j => j \in full
       /\ Cardinality(full) < FullTurns => full = DOMAIN lines
       /\ {i \in DOMAIN lines : lines[i].base} = DOMAIN lines \ 1 .. Len(lines) - 1

\* Claude call 1 is shown what it needs: a schema with what the question names, and a
\* history whose base query is there (nl_to_sql.py:206-241, 249-321).
PromptSound == SchemaSound /\ BaseShown

\* A permanent error ends a call at once, a transient one is tried again until the
\* attempts are used up, and a call sleeps only between attempts: no call costs more
\* than MaxAttempts attempts and the waits between them (claude_client.py:18-19, 56-63).
AttemptsJustified ==
  /\ phase = "sleeping" => error \in Transient /\ attempts < MaxAttempts
  /\ phase = "raised" => error \in Permanent \/ attempts = MaxAttempts
  /\ attempts > 0 =>
       LET sleeps == IF phase = "sleeping" THEN attempts ELSE attempts - 1
       IN waited \in sleeps * MinWait .. sleeps * MaxWait

\* Type invariant, with what justifies each attempt.
ClientSound == TypeOK /\ AttemptsJustified

Read == "verdict" \in DOMAIN output

\* What goes around a statement and what separates its lines is not what it says, and
\* neither is a comment, which goes from its dashes to the end of the line.
Around == {"newline", "semi", "fence", "fence_sql"}

Remark(s, i) == \E j \in 1 .. i : s[j] = "dashes" /\ \A k \in j .. i : s[k] # "newline"

Spoken(s) == {i \in DOMAIN s : ~Remark(s, i)}

PlainWords == {"select", "with", "close", "word", "quoted"}

Meaning(s) == Chosen(s, {i \in Spoken(s) : s[i] \notin Around})

\* A text of plain words that begins like a statement, with comments wherever a line
\* may have them, perhaps a semicolon at its end, in a fence or not.
Ordinary(raw) ==
  /\ \A i \in Spoken(raw) : raw[i] \in Around \cup PlainWords
  /\ ValidStart(Meaning(raw))
  /\ \A i, j \in Spoken(raw) : i < j /\ raw[i] = "semi" => raw[j] \in {"newline", "fence"}
  /\ \A i \in DOMAIN raw : raw[i] \in {"fence", "fence_sql"} =>
       \/ \A j \in 1 .. i - 1 : raw[j] = "newline"
       \/ raw[i] = "fence" /\ \A j \in i + 1 .. Len(raw) : raw[j] = "newline"
  /\ Cardinality(Spoken(raw)) <= MaxQueryLength

\* An ordinary answer passes the validator and is executed as it was meant, without a
\* line lost (nl_to_sql.py:324-332, sql_validator.py:59-93).
OrdinaryAnswerRuns ==
  Read /\ Ordinary(input.raw) =>
    /\ output.verdict = "valid"
    /\ Chosen(output.sql, {i \in DOMAIN output.sql : output.sql[i] # "newline"}) =
         Meaning(input.raw)

\* The text is judged before its last semicolons and the space around it are taken
\* away, and what is executed would be judged the same: every check that it has passed
\* holds of it, with no semicolon and no dashes left in it (sql_validator.py:59-93).
\* That it is a single statement, or has no comment between slashes and asterisks, it
\* does not say: the answer "select", "word", "select", "word" passes, as it does in the
\* code, for SQL Server needs no semicolon between two statements, although the file
\* speaks of protection from "concatenated statements" (sql_validator.py:8, 83-85).
ExecutedIsValid ==
  step = "accepted" =>
    /\ Verdict(output.sql) = "valid"
    /\ ~Has(output.sql, {"semi", "parted", "dashes"})

-----------------------------------------------------------------------------
(* What is said about the rows. *)

Commented(kind) == step = "commented" /\ output.kind = kind

\* A comparison lists every group that has a value once, in falling order, adds them
\* up, and names as ahead and behind groups that no other surpasses, with the
\* distance of their values, for negative values too (template_commentary.py:314-392).
ComparisonHonest ==
  Commented("comparison") =>
    LET said == output.says
        pairs == Pairs(input.result)
        values == {pairs[i].value : i \in DOMAIN pairs}
    IN /\ \A p \in {pairs[i] : i \in DOMAIN pairs} \cup
                   {said.breakdown[i] : i \in DOMAIN said.breakdown} :
            Cardinality({i \in DOMAIN pairs : pairs[i] = p}) =
              Cardinality({i \in DOMAIN said.breakdown : said.breakdown[i] = p})
       /\ \A i \in 2 .. Len(said.breakdown) :
            said.breakdown[i].value <= said.breakdown[i - 1].value
       /\ said.total = Total([i \in DOMAIN said.breakdown |-> said.breakdown[i].value])
       /\ \A i \in DOMAIN said.contrast :
            LET c == said.contrast[i]
            IN /\ \A v \in values : c.behind.value <= v /\ v <= c.ahead.value
               /\ c.gap = c.ahead.value - c.behind.value /\ c.gap >= 0

Change(move) == IF move.direction = "increased" THEN move.by ELSE -move.by

\* Where all labels are years, the trend is told.  It goes from each year to the next,
\* and what it says of two years, up or down and by how much, is how far apart values
\* of these years are; the changes, with their signs, add up to the change over all
\* years (template_commentary.py:394-416).  An unchanged year counts as down by 0.
TrendHonest ==
  Commented("comparison") =>
    LET trend == output.says.trend
        groups == output.says.breakdown
        Of(label) == {groups[i].value : i \in {j \in DOMAIN groups : groups[j].label = label}}
        Distances(from, to) == {v - w : v \in Of(to), w \in Of(from)}
    IN /\ \/ Len(trend) = Len(groups) - 1
          \/ trend = <<>> /\ \E i \in DOMAIN groups : groups[i].label \notin FourDigits
       /\ \A i \in 2 .. Len(trend) : trend[i].from = trend[i - 1].to
       /\ \A i \in DOMAIN trend :
            /\ TextRank[trend[i].from] <= TextRank[trend[i].to]
            /\ Change(trend[i]) \in Distances(trend[i].from, trend[i].to)
       /\ trend # <<>> =>
            Total([i \in DOMAIN trend |-> Change(trend[i])]) \in
              Distances(trend[1].from, Last(trend).to)

Value(result, i) == result.rows[i][ValueColumn(result)]

Values(result) == {Value(result, i) : i \in DOMAIN result.rows} \cap Number

\* No row has a larger value than one before it; rows without a value do not matter.
Falling(result) ==
  \A i, j \in DOMAIN result.rows :
    i < j /\ {Value(result, i), Value(result, j)} \subseteq Number =>
      Value(result, j) <= Value(result, i)

\* The range of a top-N listing is made of values of the page; where the values fall from
\* row to row, they bound all of the page, with the rows that are not named and around
\* those that have no value (template_commentary.py:441-466).  Where they do not fall,
\* the code says "highest" and "lowest" all the same, of the first row and the last:
\* of rows that rise this is false, and the property leaves it open.
TopRangeHonest ==
  Commented("top_n") =>
    \A i \in DOMAIN output.says.range :
      LET range == output.says.range[i]
          values == Values(input.result)
      IN /\ {range.highest, range.lowest} \subseteq values
         /\ Falling(input.result) => \A v \in values : range.lowest <= v /\ v <= range.highest

\* Rows are never commented with nothing: by default Claude is asked exactly for the
\* one shape in which the templates would have nothing to show, a single row of
\* several NULLs, few enough for key figures, and for rows that the count missed; and
\* always for a custom prompt (commentary.py:47-59, template_commentary.py:246-480).
NothingUnsaid ==
  LET c == input.result
      allNull == /\ Len(c.rows) = 1 /\ c.columns \in 2 .. KpiColumns
                 /\ \A column \in 1 .. c.columns : c.rows[1][column] = Null
  IN /\ step = "commenting" /\ output # Nothing =>
          input.insight = "custom" \/ allNull \/ c.total = 0
     /\ step = "commented" /\ "says" \in DOMAIN output => input.insight # "custom" /\ ~allNull

\* A template's text ends with suggestions to go on with, no two alike, at least one
\* and at most MostFollowups, and none that asks for a breakdown that the result
\* already has (template_commentary.py:112-221).  The two that line 114 promises there
\* are not always: what is to fill up the list has conditions of its own (:214-218).
SuggestsFollowups ==
  step = "commented" /\ "followups" \in DOMAIN output =>
    LET said == ToSet(output.followups)
    IN /\ Cardinality(said) = Len(output.followups)
       /\ Len(output.followups) \in 1 .. MostFollowups
       /\ input.query.entity => {"split by entity", "total per entity"} \cap said = {}
       /\ input.query.year => "split by year" \notin said
       /\ input.query.month => "split by month" \notin said

\* What a template says of groups, of years and of a listing is true of the rows, as far
\* as the four parts go, and leads on (template_commentary.py:238-482).  They judge the
\* columns that the code takes for label and value, which for rows of numbers only are
\* the same one, and leave open the range of a listing whose values do not fall.
TemplatesHonest == ComparisonHonest /\ TrendHonest /\ TopRangeHonest /\ SuggestsFollowups

\* Every request comes to an end, and one that waits for a commentary is answered with
\* its rows and some text, whatever happens to the second call (commentary.py:67-80).
RowsGetCommentary ==
  /\ step = "question" ~> step \in {"refused", "commented"}
  /\ step = "commenting" ~> step = "commented"

-----------------------------------------------------------------------------
(* A statement of the repository that the code does not keep. *)

\* "Table was referenced in conversation history SQL (for follow-ups)" is one of the
\* reasons for which a table is included (nl_to_sql.py:262).
HistoryTablesIncluded ==
  Asked => \A t \in input.tables :
    (\E i \in DOMAIN input.history : t.name \in input.history[i].names) => t \in output.tables
=============================================================================

---------------------------- MODULE TemplateCommentary ----------------------------
(***************************************************************************)
(* app/services/template_commentary.py: what the templates say about a     *)
(* page of rows without a call to Claude, and which follow-up questions    *)
(* they suggest; also ResultFormatter.format_for_commentary, which makes   *)
(* the table for Claude when no template is used.                          *)
(*                                                                         *)
(* A result is [columns |-> how many, rows |-> tuples of cells, total |->  *)
(* total_rows].  A cell is a number, a text or Null.  Of a commentary the  *)
(* model keeps what it claims: which template, which rows in which order   *)
(* and role, and the numbers it computes; wording and scaling are left     *)
(* out.  The literals of the code are constants: 8, 50, 5, 4 and 20.       *)
(***************************************************************************)
EXTENDS Arrangements

CONSTANTS
  Number, Text, Null,   \* what a cell may hold
  Blank,                \* the empty text
  TextRank,             \* the alphabetical order of str(cell)
  FourDigits,           \* the cells, numbers or texts, whose text is four digits
  KpiColumns,           \* most columns of a row that is shown as key figures
  TopRows, TopItems,    \* most rows of a top-N listing, and how many it names
  MostFollowups,        \* most suggestions
  PromptRows            \* rows that Claude gets to see

Cell == Number \cup Text \cup {Null}

ASSUME TemplateAssumption ==
  /\ Number \subseteq Int /\ Null \notin Number \cup Text
  /\ Blank \in Text /\ FourDigits \subseteq (Number \cup Text) \ {Blank}
  /\ TextRank \in [Cell -> Nat]
  /\ KpiColumns \in Nat \ {0} /\ TopRows \in Nat /\ MostFollowups \in Nat \ {0}
  /\ TopItems \in Nat \ {0, 1} /\ PromptRows \in Nat

NoCommentary == [kind |-> "none"]

-----------------------------------------------------------------------------
(* The shape of a result. *)

RowCount(result) == IF result.total >= 0 THEN result.total ELSE Len(result.rows)

\* Judged by the first row only: a column that begins with NULL is not numeric.
NumericColumns(result) == {c \in 1 .. result.columns : result.rows[1][c] \in Number}

First(columns) == CHOOSE c \in columns : \A d \in columns : c <= d

\* The first numeric column, whatever it counts; the first other one, or column 1.
ValueColumn(result) == First(NumericColumns(result))

LabelColumn(result) ==
  LET others == 1 .. result.columns \ NumericColumns(result)
  IN IF others = {} THEN 1 ELSE First(others)

\* The rows as label and value, without those that have no value.
Pairs(result) ==
  LET all == [i \in DOMAIN result.rows |->
                [label |-> result.rows[i][LabelColumn(result)],
                 value |-> result.rows[i][ValueColumn(result)]]]
  IN Chosen(all, {i \in DOMAIN all : all[i].value \in Number})

-----------------------------------------------------------------------------
(* Comparison of groups. *)

Absolute(n) == IF n < 0 THEN -n ELSE n

\* Larger values first; the sort is stable.
Outranks(pairs) ==
  {e \in (DOMAIN pairs) \X (DOMAIN pairs) :
     \/ pairs[e[1]].value > pairs[e[2]].value
     \/ pairs[e[1]].value = pairs[e[2]].value /\ e[1] < e[2]}

Ranked(pairs) == Arranged(pairs, DOMAIN pairs, Outranks(pairs))

Precedes(pairs) ==
  LET rank(i) == TextRank[pairs[i].label]
  IN {e \in (DOMAIN pairs) \X (DOMAIN pairs) :
        rank(e[1]) < rank(e[2]) \/ (rank(e[1]) = rank(e[2]) /\ e[1] < e[2])}

ByLabel(pairs) == Arranged(pairs, DOMAIN pairs, Precedes(pairs))

\* min and max with key=abs: the first of the pairs that qualify.
Nearest(pairs) ==
  pairs[First({i \in DOMAIN pairs : \A j \in DOMAIN pairs :
                 Absolute(pairs[i].value) <= Absolute(pairs[j].value)})]

Farthest(pairs) ==
  pairs[First({i \in DOMAIN pairs : \A j \in DOMAIN pairs :
                 Absolute(pairs[i].value) >= Absolute(pairs[j].value)})]

AllNegative(pairs) == \A i \in DOMAIN pairs : pairs[i].value < 0

\* Which two groups are contrasted, and by how much they are said to differ.
\* Mutation: the case of negative values is forgotten when the gap is computed.
NegativeGapSigned(pairs) ==
  IF AllNegative(pairs)
  THEN [ahead |-> Nearest(pairs), behind |-> Farthest(pairs),
        gap |-> Farthest(pairs).value - Nearest(pairs).value]
  ELSE [ahead |-> Ranked(pairs)[1], behind |-> Ranked(pairs)[Len(pairs)],
        gap |-> Ranked(pairs)[1].value - Ranked(pairs)[Len(pairs)].value]

Contrast(pairs) ==
  IF AllNegative(pairs)
  THEN [ahead |-> Nearest(pairs), behind |-> Farthest(pairs),
        gap |-> Absolute(Farthest(pairs).value) - Absolute(Nearest(pairs).value)]
  ELSE [ahead |-> Ranked(pairs)[1], behind |-> Ranked(pairs)[Len(pairs)],
        gap |-> Ranked(pairs)[1].value - Ranked(pairs)[Len(pairs)].value]

\* _is_year_column: by the column's name, or because all labels are years, be they
\* texts or whole numbers.
IsYearColumn(named, pairs) ==
  named \/ \A i \in DOMAIN pairs : pairs[i].label \in FourDigits

\* What is said of two years: a year that stays the same has "decreased" by 0.
Move(before, after) ==
  [from |-> before.label, to |-> after.label,
   direction |-> IF after.value > before.value THEN "increased" ELSE "decreased",
   by |-> Absolute(after.value - before.value)]

\* Mutation: the rows are taken in their order, not in that of the years.
TrendUnsorted(pairs) ==
  [i \in 1 .. Len(pairs) - 1 |-> Move(pairs[i], pairs[i + 1])]

Trend(pairs) ==
  LET years == ByLabel(pairs)
  IN [i \in 1 .. Len(years) - 1 |-> Move(years[i], years[i + 1])]

Compared(pairs, named) ==
  [kind |-> "comparison", breakdown |-> Ranked(pairs),
   total |-> Total([i \in DOMAIN pairs |-> pairs[i].value]),
   contrast |-> IF Len(pairs) >= 2 THEN <<Contrast(pairs)>> ELSE <<>>,
   trend |-> IF IsYearColumn(named, pairs) THEN Trend(pairs) ELSE <<>>]

Comparison(ask, result) == Compared(Pairs(result), ask.yearNamed)

-----------------------------------------------------------------------------
(* Top-N listing. *)

\* Of the first rows, those that have a value.
Items(result) ==
  LET head == SubSeq(result.rows, 1,
                IF Len(result.rows) < TopItems THEN Len(result.rows) ELSE TopItems)
  IN Chosen(head, {i \in DOMAIN head : head[i][ValueColumn(result)] \in Number})

\* float(None) raises TypeError when the last row has no value; the template is
\* then given up for the generic one.  A column has one type, so a cell of the value
\* column that is not a number is Null: float of a text, a ValueError that would not
\* be caught here, does not occur.
RangeRaises(result) ==
  /\ Len(Items(result)) >= 2
  /\ result.rows[Len(result.rows)][ValueColumn(result)] \notin Number

\* The first row's value is called the highest and the last one's the lowest.
\* Mutation: the lowest is looked for among the rows that are named.
RangeOfNamed(result) ==
  LET value(row) == row[ValueColumn(result)]
  IN IF Len(Items(result)) < 2 THEN <<>>
     ELSE <<[highest |-> value(result.rows[1]), lowest |-> value(Last(Items(result)))]>>

ValueRange(result) ==
  LET value(row) == row[ValueColumn(result)]
  IN IF Len(Items(result)) < 2 THEN <<>>
     ELSE <<[highest |-> value(result.rows[1]), lowest |-> value(Last(result.rows))]>>

TopListing(result) ==
  [kind |-> "top_n", size |-> Len(result.rows), items |-> Items(result),
   range |-> ValueRange(result)]

-----------------------------------------------------------------------------
(* Which template. *)

\* One row, few columns: shown as key figures, with a note when the question asks
\* for a comparison and the query groups.
KeyFigures(ask, query, result) ==
  LET shown == {c \in 1 .. result.columns : result.rows[1][c] # Null}
  IN [kind |-> "single_row", shown |-> shown,
      note |-> ask.comparison /\ query.groupBy /\ shown # {}]

\* Mutation: a row of key figures without any value gets a template as well.
KeyFiguresAlways(result) ==
  Len(result.rows) = 1 /\ result.columns \in 2 .. KpiColumns

HasKeyFigures(result) ==
  /\ Len(result.rows) = 1 /\ result.columns \in 2 .. KpiColumns
  /\ \E c \in 1 .. result.columns : result.rows[1][c] # Null

HasGroups(query, result) ==
  query.groupBy /\ NumericColumns(result) # {} /\ Len(result.rows) >= 2

HasListing(query, result) ==
  /\ query.top /\ NumericColumns(result) # {} /\ Len(result.rows) <= TopRows
  /\ ~RangeRaises(result)

\* generate: the first template that fits.
Commentary(ask, query, result) ==
  IF result.rows = <<>> THEN NoCommentary
  ELSE IF Len(result.rows) = 1 /\ result.columns = 1
  THEN [kind |-> "single_value", value |-> result.rows[1][1]]
  ELSE IF Len(result.rows) = 1 /\ result.columns <= KpiColumns
  THEN IF HasKeyFigures(result) THEN KeyFigures(ask, query, result) ELSE NoCommentary
  ELSE IF HasGroups(query, result) THEN Comparison(ask, result)
  ELSE IF HasListing(query, result) THEN TopListing(result)
  ELSE IF RowCount(result) > 0 THEN [kind |-> "generic", records |-> RowCount(result)]
  ELSE NoCommentary

-----------------------------------------------------------------------------
(***************************************************************************)
(* _suggest_followups.  `ask` says what the question mentions (a topic, an *)
(* entity, how many years, the words "legal entity"), `query` what the SQL *)
(* or the columns of its result mention; a suggestion is named for what it *)
(* proposes.                                                               *)
(***************************************************************************)
When(condition, suggestion) == IF condition THEN <<suggestion>> ELSE <<>>

ForValue(ask, query) ==
  When(~query.entity, "split by entity")
    \o (IF ~query.year /\ ask.years = 0 THEN <<"compare years">>
        ELSE When(ask.years = 1, "compare with other year"))
    \o When(~query.month, "split by month")
    \o When(ask.topic, "total of opposite")

ForRow(ask, query) ==
  When(~query.entity, "split by entity")
    \o When(~query.year, "split by year")
    \o When(ask.entity, "accounts of entity")
    \o When(ask.topic, "opposite in same period")

ForComparison(ask, query, result) ==
  When(Len(result.rows) >= 2 /\ result.rows[1][1] # Blank, "accounts of first row")
    \o (IF ask.entity THEN <<"compare all entities">>
        ELSE When(~query.entity, "split by entity"))
    \o When(query.year /\ ~query.month, "split by month")
    \o When(ask.topic, "opposite in same periods")
    \o When(~query.tag /\ ~ask.topic, "split by category")

ForListing(ask, query, result) ==
  When(result.rows[1][1] # Blank, "transactions of first row")
    \o <<"bottom instead">>
    \o When(~query.year /\ ask.years = 0, "one year only")
    \o When(ask.entity, "top accounts of entity")

ForGeneric(ask, query) ==
  When(~query.entity, "split by entity") \o When(~query.year, "split by year")
    \o <<"total of these">>

\* Mutation: only the question is asked whether it is about entities.
UniversalForAnyQuery(ask, query) ==
  When(~ask.saysEntity, "total per entity") \o When(~ask.topic, "total liabilities")

Universal(ask, query) ==
  When(~query.entity /\ ~ask.saysEntity, "total per entity")
    \o When(~ask.topic, "total liabilities")

Followups(ask, query, result, kind) ==
  LET special == CASE kind = "single_value" -> ForValue(ask, query)
                   [] kind = "single_row" -> ForRow(ask, query)
                   [] kind = "comparison" -> ForComparison(ask, query, result)
                   [] kind = "top_n" -> ForListing(ask, query, result)
                   [] kind = "generic" -> ForGeneric(ask, query)
      all == IF Len(special) < 2 THEN special \o Universal(ask, query) ELSE special
  IN SubSeq(all, 1, IF Len(all) < MostFollowups THEN Len(all) ELSE MostFollowups)

-----------------------------------------------------------------------------
(* format_for_commentary: the rows Claude sees, and how many more it is told of. *)
PromptTable(result) ==
  [seen |-> SubSeq(result.rows, 1,
              IF Len(result.rows) < PromptRows THEN Len(result.rows) ELSE PromptRows),
   more |-> IF result.total > PromptRows THEN result.total - PromptRows ELSE 0]
=============================================================================

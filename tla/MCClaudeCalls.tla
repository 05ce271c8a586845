------------------------------ MODULE MCClaudeCalls ------------------------------
(***************************************************************************)
(* Small instances of the two calls: questions over up to five tables;     *)
(* answers of up to four tokens, or four after WITH, and ordinary ones;    *)
(* groups of up to three rows, listings of up to five.                     *)
(***************************************************************************)
EXTENDS ClaudeCallProperties, TLC

CONSTANTS
  dbo, hr, account, payroll, region,    \* names
  lb, lc, la, le, lh, lr,               \* names of one character
  amount, salary, show,                 \* words
  y1, y2, t, blank                      \* texts of cells

MCLetter == {lb, lc, la, le, lh, lr}

\* The second characters of dbo, hr, account, payroll, region.
MCSecond == (dbo :> lb) @@ (hr :> lr) @@ (account :> lc) @@ (payroll :> la) @@ (region :> le)

Ledger == [schema |-> dbo, name |-> account, words |-> {amount}, refs |-> {}]
Staff == [schema |-> hr, name |-> payroll, words |-> {amount, salary}, refs |-> {dbo}]
Place == [schema |-> dbo, name |-> region, words |-> {}, refs |-> {dbo}]

\* Tables that a link or a turn of the history may be taken for: named like a schema,
\* and by one letter.
Namesake == [schema |-> hr, name |-> dbo, words |-> {}, refs |-> {}]
Short == [schema |-> hr, name |-> lc, words |-> {}, refs |-> {}]

Turn(i, names) == [turn |-> i, names |-> names]

\* Up to four turns; one of them may hold a name of a single character.
MCHistories ==
  {[i \in 1 .. n |-> Turn(i, names)] : n \in 0 .. 4, names \in {{}, {account}, {region, payroll}}}
    \cup {<<Turn(1, {account}), Turn(2, {lh})>>}

MCQuestions ==
  [question : SUBSET {amount, salary, show}, tables : SUBSET {Ledger, Staff, Place, Namesake, Short},
   history : MCHistories, template : {"usable"}]
    \cup [question : {{amount}}, tables : {{Ledger}}, history : {<<>>}, template : {"broken"}]

-----------------------------------------------------------------------------
\* Every answer of up to four of these tokens, and what may follow WITH.
FewTokens == {"fence", "newline", "scope", "colon", "select", "word", "semi", "dashes", "parted"}

Wild ==
  BoundedSeq(FewTokens, 4)
    \cup {<<"with">> \o s : s \in BoundedSeq({"newline", "close", "select", "word", "semi"}, 4)}
    \cup {<<"select", token, "word">> : token \in {"forbidden", "tautology", "dashed", "quoted", "block"}}
    \cup {<<"select">> \o [i \in 1 .. n |-> "word"] : n \in {MaxQueryLength - 1, MaxQueryLength}}

Body == {<<"select", "word">>, <<"with", "word", "close", "select", "quoted", "word">>}

\* The body's lines with comments at their ends.
Lines(body, comment, between) ==
  Front(body) \o (IF between THEN comment \o <<"newline">> ELSE <<>>) \o <<Last(body)>>

Statements ==
  {open \o Lines(body, <<"dashes", "word">>, between) \o semis \o trail \o close :
     open \in {<<>>, <<"newline">>, <<"fence_sql", "newline">>, <<"fence", "newline", "newline">>},
     body \in Body, between \in BOOLEAN,
     semis \in {<<>>, <<"semi">>},
     trail \in {<<>>, <<"dashes", "word">>, <<"newline">>},
     close \in {<<>>, <<"newline", "fence">>, <<"newline", "fence", "newline">>}}

MCAnswers == Wild \cup Statements

-----------------------------------------------------------------------------
\* The years 2021 and 2022 as texts and as numbers.
MCNumber == {-2, -1, 3, 2021, 2022}
MCText == {y1, y2, t, blank}
MCFourDigits == {y1, y2, 2021, 2022}

Alphabet == <<{blank}, {-1}, {-2}, {y1, 2021}, {y2, 2022}, {3}, {Null}, {t}>>

MCRank == [x \in MCNumber \cup MCText \cup {Null} |->
             CHOOSE i \in DOMAIN Alphabet : x \in Alphabet[i]]

Ask(comparison, topic, entity, years, saysEntity, yearNamed) ==
  [comparison |-> comparison, topic |-> topic, entity |-> entity, years |-> years,
   saysEntity |-> saysEntity, yearNamed |-> yearNamed]

Query(groupBy, top, entity, year, month, tag) ==
  [groupBy |-> groupBy, top |-> top, entity |-> entity, year |-> year, month |-> month,
   tag |-> tag]

Page(columns, rows, total) == [columns |-> columns, rows |-> rows, total |-> total]

Plain == Ask(FALSE, FALSE, FALSE, 0, FALSE, FALSE)

\* Pages of two columns, with every order of values.
Labelled(labels, values, sizes, query, yearNamed) ==
  {[ask |-> [Plain EXCEPT !.yearNamed = yearNamed], query |-> query,
    result |-> Page(2, rows, -1), insight |-> "default"] :
     rows \in UNION {[1 .. n -> labels \X values] : n \in sizes}}

Grouped == Query(TRUE, FALSE, FALSE, FALSE, FALSE, FALSE)
Top == Query(FALSE, TRUE, FALSE, FALSE, FALSE, FALSE)

Figures == {-2, -1, 3, Null}

\* Labels that are texts, whole numbers, or numbers after a NULL (which makes the
\* column one of labels), under a name that says that they are years or not.
Groups ==
  Labelled({y1, y2, t}, Figures, 1 .. 3, Grouped, FALSE)
    \cup Labelled({y1, t, Null}, {-1, 3}, 1 .. 3, Grouped, TRUE)
    \cup UNION {Labelled({2021, 2022, Null}, {-1, 3, Null}, 2 .. 3, Grouped, named) :
                 named \in BOOLEAN}

Listings == Labelled({t}, Figures, 1 .. 5, Top, FALSE)

\* Everything that questions and queries mention, for one result of each shape.
Shapes == {[groupBy |-> FALSE, top |-> FALSE, result |-> Page(1, << <<3>> >>, 1)],
           [groupBy |-> TRUE, top |-> FALSE, result |-> Page(2, << <<t, 3>> >>, 1)],
           [groupBy |-> TRUE, top |-> TRUE, result |-> Page(2, << <<t, 3>>, <<y1, -1>> >>, 2)],
           [groupBy |-> TRUE, top |-> FALSE, result |-> Page(2, << <<blank, 3>>, <<y1, -1>> >>, 2)],
           [groupBy |-> FALSE, top |-> TRUE, result |-> Page(2, << <<blank, 3>>, <<y1, -1>> >>, 2)],
           [groupBy |-> FALSE, top |-> FALSE, result |-> Page(2, << <<t, 3>>, <<y1, -1>> >>, 2)]}

EveryContext ==
  {[ask |-> Ask(TRUE, topic, entity, years, saysEntity, FALSE),
    query |-> Query(shape.groupBy, shape.top, named, year, month, tag),
    result |-> shape.result, insight |-> "default"] :
     topic \in BOOLEAN, entity \in BOOLEAN, years \in 0 .. 2, saysEntity \in BOOLEAN,
     named \in BOOLEAN, year \in BOOLEAN, month \in BOOLEAN, tag \in BOOLEAN,
     shape \in Shapes}

Others ==
  {[ask |-> Plain, query |-> Query(FALSE, FALSE, FALSE, FALSE, FALSE, FALSE),
    result |-> result, insight |-> insight] :
     result \in {Page(1, <<>>, 0), Page(2, << <<Null, Null>> >>, 1), Page(2, << <<t, 3>> >>, 1),
                 Page(2, << <<t, t>>, <<t, t>> >>, 2),
                 Page(3, << <<t, 3, 3>> >>, 5), Page(3, << <<Null, Null, Null>> >>, 1),
                 Page(3, << <<t, 3, 3>> >>, 0)},
     insight \in {"default", "custom"}}

MCResults ==
  EveryContext \cup Others \cup Groups \cup Listings
=============================================================================

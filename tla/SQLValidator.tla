--------------------------------- MODULE SQLValidator ---------------------------------
(***************************************************************************)
(* app/services/sql_validator.py, over the tokens of module NLToSQL: the   *)
(* order of the checks and the text that validate returns.                 *)
(***************************************************************************)
EXTENDS NLToSQL

CONSTANT MaxQueryLength      \* in tokens, where the code counts characters

ASSUME LengthAssumption == MaxQueryLength \in Nat

Has(sql, tokens) == \E i \in DOMAIN sql : sql[i] \in tokens

\* Nothing but white space from position a to position b.
Space(sql, a, b) == \A k \in a .. b : sql[k] = "newline"

\* VALID_START_PATTERN: SELECT, or WITH name AS ( and later some ) before a SELECT.
ValidStart(sql) ==
  \E i \in DOMAIN sql :
    /\ sql[i] = "select"
    /\ \/ Space(sql, 1, i - 1)
       \/ \E j, l \in 1 .. i - 1 :
            /\ j < l /\ sql[j] = "with" /\ sql[l] = "close"
            /\ Space(sql, 1, j - 1) /\ Space(sql, l + 1, i - 1)

\* A semicolon with anything but white space after it, in a literal too.
\* Mutation: only a semicolon directly before other text counts.
SeparatorsAdjacent(sql) ==
  \/ Has(sql, {"parted"})
  \/ \E i \in 1 .. Len(sql) - 1 : sql[i] = "semi" /\ sql[i + 1] # "newline"

SeveralStatements(sql) ==
  \/ Has(sql, {"parted"})
  \/ \E i, j \in DOMAIN sql : i < j /\ sql[i] = "semi" /\ sql[j] # "newline"

\* The first check that fails, in the code's order.  Of the two signatures at the
\* end the first needs a semicolon followed by two dashes, which SeveralStatements
\* has refused by then.
Verdict(sql) ==
  IF Space(sql, 1, Len(sql)) THEN "empty"
  ELSE IF Len(sql) > MaxQueryLength THEN "too_long"
  ELSE IF ~ValidStart(sql) THEN "no_select"
  ELSE IF Has(sql, {"forbidden"}) THEN "forbidden"
  ELSE IF SeveralStatements(sql) THEN "several"
  ELSE IF Has(sql, {"tautology"}) THEN "signature"
  ELSE "valid"

\* What is returned to be executed.
Validated(sql) == DropSemicolons[Strip(sql)]
=============================================================================

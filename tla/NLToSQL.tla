---------------------------------- MODULE NLToSQL ----------------------------------
(***************************************************************************)
(* app/services/nl_to_sql.py around Claude call 1: what goes into the      *)
(* prompt (tables, examples, history) and how the answer is read.          *)
(*                                                                         *)
(* A name of the database is a model value of Name.  A table is            *)
(*   [schema, name, words, refs]                                           *)
(* with the tokens of its name and of its columns' names, and the schemas  *)
(* that foreign keys of its columns refer to.  Of a turn of the history    *)
(* the filter needs the names that stand right of a dot in its SQL.        *)
(* Claude's answer is a sequence of tokens; see the second half.           *)
(***************************************************************************)
EXTENDS Arrangements

CONSTANTS
  Word, Stop,         \* words of questions, and those without meaning
  Name, Letter,       \* names, and those of one character
  Second,             \* the second character of the other names
  Example,            \* the few-shot examples, each the set of its tables
  FullTurns           \* how many turns of the history keep their SQL

ASSUME FilterAssumption ==
  /\ Stop \subseteq Word /\ Letter \subseteq Name
  /\ Second \in [Name \ Letter -> Letter]
  /\ Example \subseteq SUBSET Name /\ Example # {}
  /\ FullTurns \in Nat \ {0}

-----------------------------------------------------------------------------
(* _filter_relevant_tables. *)

Keywords(question) == question \ Stop

Matched(question, tables) == {t \in tables : Keywords(question) \cap t.words # {}}

\* fk_parts[0] of "schema.table.column": what is collected is the schema, and from
\* all tables, not only from the matched ones.
ForeignTargets(tables) == UNION {t.refs : t \in tables}

\* _extract_tables_from_sql: m is the captured name itself, so m[1] is its second
\* character; a name of one character has none and raises IndexError.
HistoryRaises(history) == \E i \in DOMAIN history : history[i].names \cap Letter # {}

HistoryTables(history) ==
  {Second[n] : n \in (UNION {history[i].names : i \in DOMAIN history}) \ Letter}

FilterRaises(question, history) == Keywords(question) # {} /\ HistoryRaises(history)

\* Mutation: without the last safety net, when the history names tables but none is kept.
RelevantWithoutNet(question, tables, history) ==
  IF Keywords(question) = {}
     \/ (Matched(question, tables) = {} /\ HistoryTables(history) = {})
  THEN tables
  ELSE {t \in tables : \/ t \in Matched(question, tables)
                       \/ t.name \in ForeignTargets(tables)
                       \/ t.name \in HistoryTables(history)}

Relevant(question, tables, history) ==
  LET kept == {t \in tables : \/ t \in Matched(question, tables)
                              \/ t.name \in ForeignTargets(tables)
                              \/ t.name \in HistoryTables(history)}
      nothing == Matched(question, tables) = {} /\ HistoryTables(history) = {}
  IN IF Keywords(question) = {} \/ nothing \/ kept = {} THEN tables ELSE kept

-----------------------------------------------------------------------------
(* _select_relevant_examples and _format_history. *)

SelectedExamples(tables) ==
  LET names == {t.name : t \in tables}
      fitting == {e \in Example : e \cap names # {}}
  IN IF fitting = {} THEN Example ELSE fitting

\* One entry per turn: its question, its SQL if it is recent, and whether it is
\* marked as the base for modifications.
HistoryLines(history) ==
  LET cutoff == IF Len(history) > FullTurns THEN Len(history) - FullTurns ELSE 0
  IN [i \in DOMAIN history |->
        [turn |-> history[i].turn, full |-> i > cutoff,
         base |-> i > cutoff /\ i = Len(history)]]

Prompt(question, tables, history) ==
  LET relevant == Relevant(question, tables, history)
  IN [tables |-> relevant, examples |-> SelectedExamples(relevant),
      history |-> HistoryLines(history)]

-----------------------------------------------------------------------------
(***************************************************************************)
(* Claude's answer, token by token:                                        *)
(*   "fence", "fence_sql"  ``` and ```sql                                  *)
(*   "newline"             white space (between other tokens it is         *)
(*                         implied)                                        *)
(*   "scope", "colon"      OUT_OF_SCOPE and a colon                        *)
(*   "select"              SELECT where a statement may begin: one within  *)
(*                         parentheses or after UNION, EXCEPT or INTERSECT *)
(*                         belongs to a "word"                             *)
(*   "with"                WITH name AS and an opening parenthesis         *)
(*   "close"               other text that ends with a closing parenthesis *)
(*   "word"                any other text without the tokens of this list  *)
(*   "block"               a comment between slashes and asterisks         *)
(*   "forbidden"           a word that the validator forbids, like DROP    *)
(*   "semi", "dashes"      a semicolon, and -- as the start of a comment   *)
(*   "tautology"           the comparison ' OR '1'='1                      *)
(*   "quoted"              a string literal                                *)
(*   "dashed", "parted"    a literal that contains -- or a semicolon       *)
(* and "cut", what is left of a "dashed" literal before its dashes.        *)
(***************************************************************************)
Token == {"fence", "fence_sql", "newline", "scope", "colon", "select", "with", "close", "word",
          "block", "forbidden", "tautology", "semi", "dashes", "quoted", "dashed", "parted", "cut"}

\* str.strip and str.rstrip, for the characters of one token.
DropRight(s, token) == SubSeq(s, 1, SelectLastInSeq(s, LAMBDA t : t # token))

DropLeft(s, token) ==
  LET first == SelectInSeq(s, LAMBDA t : t # token)
  IN IF first = 0 THEN <<>> ELSE SubSeq(s, first, Len(s))

TrimEnd[s \in Seq(Token)] == DropRight(s, "newline")
TrimStart[s \in Seq(Token)] == DropLeft(s, "newline")
DropSemicolons[s \in Seq(Token)] == DropRight(s, "semi")

Strip(s) == TrimStart[TrimEnd[s]]

\* generate_sql: OUT_OF_SCOPE, and what it says after the first colon.
OutOfScope(raw) == Strip(raw) # <<>> /\ Head(Strip(raw)) = "scope"

ScopeAnswer(raw) ==
  LET colon == SelectInSeq(raw, LAMBDA t : t = "colon")
  IN IF colon = 0 THEN <<>> ELSE Strip(SubSeq(raw, colon + 1, Len(raw)))

OpenFence[s \in Seq(Token)] ==
  IF s # <<>> /\ Head(s) \in {"fence", "fence_sql"} THEN TrimStart[Tail(s)] ELSE s

CloseFence[s \in Seq(Token)] ==
  IF s # <<>> /\ Last(s) = "fence" THEN TrimEnd[Front(s)] ELSE s

\* re.sub(r"--.*$") with MULTILINE: each line is cut at the first two dashes, those
\* inside a literal included.
\* Mutation: DOTALL where the code says MULTILINE; all that follows is a comment.
InCommentToEnd(s, i) == \E j \in 1 .. i : s[j] = "dashes" \/ (s[j] = "dashed" /\ j < i)

InComment(s, i) ==
  \E j \in 1 .. i : /\ s[j] = "dashes" \/ (s[j] = "dashed" /\ j < i)
                    /\ \A k \in j .. i : s[k] # "newline"

WithoutComments[s \in Seq(Token)] ==
  Chosen([i \in DOMAIN s |-> IF s[i] = "dashed" THEN "cut" ELSE s[i]],
         {i \in DOMAIN s : ~InComment(s, i)})

\* _clean_sql.
CleanSql(raw) ==
  Strip(WithoutComments[Strip(DropSemicolons[CloseFence[OpenFence[Strip(raw)]]])])
=============================================================================

------------------------------- MODULE Arrangements -------------------------------
(***************************************************************************)
(* What list comprehensions, sorted() and sum() make of a sequence.  The   *)
(* elements that stay, and where they go, are told by their positions:     *)
(* the community modules do this with folds, of which the proofs in        *)
(* ClaudeCallProofs could say nothing.                                     *)
(***************************************************************************)
EXTENDS Integers, SequencesExt

\* The elements of s at `positions`, in the order in which the pairs of `before` put
\* these.
Arranged(s, positions, before) ==
  LET Place(i) == 1 + Cardinality({j \in positions : <<j, i>> \in before})
  IN [k \in 1 .. Cardinality(positions) |-> s[CHOOSE i \in positions : Place(i) = k]]

\* The elements of s at `positions`, in the order of s.
Chosen(s, positions) == Arranged(s, positions, {e \in positions \X positions : e[1] < e[2]})

Total(values) ==
  LET sum[n \in 0 .. Len(values)] == IF n = 0 THEN 0 ELSE sum[n - 1] + values[n]
  IN sum[Len(values)]
=============================================================================

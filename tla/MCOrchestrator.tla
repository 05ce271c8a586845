------------------------------ MODULE MCOrchestrator ------------------------------
(***************************************************************************)
(* Small instances of the pipeline.  "q1 in capitals" is another spelling  *)
(* of q1; q2 is a follow-up; q3 has no keywords.                           *)
(***************************************************************************)
EXTENDS OrchestratorProperties, TLC

CONSTANTS r1, r2, r3, q1, Q1, q2, q3, p1, p2, s1, s2

MCQuestion == {q1, Q1, q2, q3}
MCNormal == [q \in MCQuestion |-> IF q = Q1 THEN q1 ELSE q]

Body(q, p, s, insight) ==
  [question |-> q, page |-> p, session |-> s, insight |-> insight, template |-> "usable"]

\* Two users, two spellings of one question, and a page 2.
SharedAsks == {Body(q1, p1, s1, "default"), Body(Q1, p1, s2, "custom"),
               Body(q1, p2, s1, "none")}

\* A conversation and the same follow-up asked by another user.
FollowUpAsks == {Body(q1, p1, s1, "none"), Body(q2, p1, s1, "none"), Body(q2, p1, s2, "none")}

Symmetric == Permutations(Request)
=============================================================================

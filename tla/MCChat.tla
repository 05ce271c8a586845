---------------------------------- MODULE MCChat ----------------------------------
(***************************************************************************)
(* A small chat with one question, a follow-up, of two pages; the prompt   *)
(* settings hold a usable or a broken template.                            *)
(***************************************************************************)
EXTENDS ChatSystem, TLC

CONSTANTS r1, r2, q2, p1, p2, s1, s2

MCNormal == [q \in {q2} |-> q]

MCFollowing == (p1 :> {p2}) @@ (p2 :> {})

MCSetting == [insight : {"default"}, template : {"usable", "broken"}]

MCAsks == [question : Question, page : Page, session : Session,
           insight : Insight, template : Template]
===============================================================================

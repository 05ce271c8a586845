-------------------------- MODULE MCConversationMemory --------------------------
(* Two sessions, one handler suspended with a history in hand, windows of two. *)
EXTENDS ConversationMemory, TLC

CONSTANTS s1, s2, r1, t1, t2

MCSession == {s1, s2}
MCReader == {r1}
MCTurn == {t1, t2}
Symmetric == Permutations(MCSession) \cup Permutations(MCTurn)
=============================================================================

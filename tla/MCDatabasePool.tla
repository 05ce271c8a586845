---------------------------- MODULE MCDatabasePool ----------------------------
(* More users than the pool has room for, and connections to spare. *)
EXTENDS DatabasePool, TLC

CONSTANTS u1, u2, u3, u4, d1, d2, d3, d4, d5, d6

MCUser == {u1, u2, u3, u4}
MCConn == {d1, d2, d3, d4, d5, d6}
Symmetric == Permutations(MCUser) \cup Permutations(MCConn)
=============================================================================

---------------------------- MODULE MCQueryExecutor ----------------------------
(* Two queries for one worker thread, and results that end on, before and after the
   end of a page. *)
EXTENDS QueryExecutor

CONSTANTS q1, q2
=============================================================================

----------------------------- MODULE MCRateLimiter -----------------------------
(* Two addresses, and time for three windows. *)
EXTENDS RateLimiter, TLC

CONSTANTS c1, c2

MCClient == {c1, c2}
Symmetric == Permutations(MCClient)
=============================================================================

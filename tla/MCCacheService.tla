----------------------------- MODULE MCCacheService -----------------------------
(* Three keys compete for a cache of two entries. *)
EXTENDS CacheService, TLC

CONSTANTS k1, k2, k3, v1, v2

MCKey == {k1, k2, k3}
MCValue == {v1, v2}
Symmetric == Permutations(MCKey) \cup Permutations(MCValue)
=============================================================================

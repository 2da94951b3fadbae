--------------------------- MODULE MCRateLimiter ---------------------------
(* RateLimiter on small instances.                                         *)
EXTENDS RateLimiter, TLC

CONSTANTS c1, r1, r2, r3, r4, r5

MCClients == {c1}
MCRequests == {r1, r2, r3, r4, r5}
RequestsAreAlike == Permutations(MCRequests)
=============================================================================

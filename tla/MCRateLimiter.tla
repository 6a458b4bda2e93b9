----------------------------- MODULE MCRateLimiter -----------------------------
(* Small instances of RateLimiter. *)
EXTENDS RateLimiter, TLC

CONSTANTS ip1, ip2

symmetry == Permutations({ip1, ip2})
==============================================================================

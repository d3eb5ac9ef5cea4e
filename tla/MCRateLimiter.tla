--------------------------- MODULE MCRateLimiter ---------------------------
(* TLC instances of RateLimiter.  Checks differ in nothing but their name,  *)
(* so they may be permuted.                                                 *)
EXTENDS RateLimiter, TLC

CheckSymmetry == Permutations(Checks)
=============================================================================

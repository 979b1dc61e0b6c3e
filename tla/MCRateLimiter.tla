--------------------------- MODULE MCRateLimiter ---------------------------
(***************************************************************************)
(* TLC instances of RateLimiter: a few calls, a clock of a few windows.    *)
(***************************************************************************)
EXTENDS RateLimiter, TLC

\* Sound: the properties checked with it say nothing of one call in particular.
CallSymmetry == Permutations(Calls)
=============================================================================

--------------------------- MODULE MCRateLimiter ---------------------------
(***************************************************************************)
(* Instances of RateLimiter for TLC.  The calls are interchangeable.       *)
(***************************************************************************)
EXTENDS RateLimiter, TLC

CONSTANTS c1, c2, c3, c4

Symmetry == Permutations(Call)

=============================================================================

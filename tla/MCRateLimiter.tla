--------------------------- MODULE MCRateLimiter ---------------------------
(***************************************************************************)
(* Instances of RateLimiter for TLC.                                       *)
(***************************************************************************)
EXTENDS RateLimiter, TLC

MCSymmetry == Permutations(Process) \cup Permutations(Address)
=============================================================================

------------------------- MODULE MCStreamLifecycle -------------------------
(***************************************************************************)
(* Instances of StreamLifecycle for TLC.                                   *)
(***************************************************************************)
EXTENDS StreamLifecycle, TLC

MCSymmetry ==
  Permutations(Live) \cup Permutations(Session) \cup Permutations(Process)
=============================================================================

----------------------------- MODULE MCProgramme -----------------------------
(***************************************************************************)
(* Instances of Programme for TLC.                                         *)
(***************************************************************************)
EXTENDS Programme, TLC

MCSymmetry == Permutations(Request) \cup Permutations(Speaker) \cup Permutations(Schedule)
=============================================================================

------------------------- MODULE MCWatchSessions -------------------------
(***************************************************************************)
(* Instances of WatchSessions for TLC.                                     *)
(***************************************************************************)
EXTENDS WatchSessions, TLC

\* One second of the talk, and one and a half more.
MCPositions == {2, 5}
MCFewPositions == {0, 2}

MCSymmetry == Permutations(Process) \cup Permutations(Session)
=============================================================================

\* A player that waits for each answer, on two processes of the API and next to the clean-up.
SPECIFICATION FairSpec
CONSTANTS
  Client = {c1}
  Session = {s1, s2}
  Process = {w1, w2}
  Absent = Absent
  Null = Null
  Positions <- MCPositions
  Second = 2
  Cap = 1
  Qualify = 1
  Timeout = 2
  Overlap = FALSE
  LastRequest = 4
  MaxTime = 7
INVARIANTS
  OneActiveSession
  CreditIsEarned
  QualifiedMeansWatched
PROPERTIES
  NothingIsTakenBack
  EndedStaysEnded
  EverySessionEnds
\* The clock stops at its bound; the program does not.
CHECK_DEADLOCK FALSE

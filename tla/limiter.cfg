\* Two callers on two addresses, a window of three ticks.
SPECIFICATION Spec
SYMMETRY MCSymmetry
CONSTANTS
  Process = {w1}
  User = {u1}
  Address = {a1, a2}
  Browser = {b1}
  Nobody = Nobody
  UseFingerprint = FALSE
  Limit = 2
  Window = 3
  Maintained = TRUE
  MaxRequests = 5
  MaxTime = 7
INVARIANTS
  WindowHoldsLimit
  UserHoldsLimit
  ComingAgainIsEnough
\* The clock stops at its bound.
CHECK_DEADLOCK FALSE

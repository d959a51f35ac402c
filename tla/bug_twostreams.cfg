\* One manager, one process, which dies at the wrong moment.
SPECIFICATION Spec
SYMMETRY MCSymmetry
CONSTANTS
  Schedule = {x1}
  Live = {m1, m2, m3}
  Session = {}
  Process = {w1}
  None = None
  Absent = Absent
  OnAir = 0
  MaxStrays = 0
INVARIANTS
  OneStreamAtRest
CHECK_DEADLOCK FALSE

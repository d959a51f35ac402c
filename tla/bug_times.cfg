\* One manager moves the end of a talk while another moves its start.
SPECIFICATION Spec
SYMMETRY MCSymmetry
CONSTANTS
  Schedule = {s1}
  Speaker = {x1}
  Person = {u1}
  Order = {1}
  Request = {r1, r2}
  MaxTime = 3
  Absent = Absent
  Gone = Gone
  Null = Null
INVARIANTS
  EndAfterStart

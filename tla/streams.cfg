\* Two managers' requests, webhooks and viewers overlap, fail and die.
SPECIFICATION Spec
SYMMETRY MCSymmetry
CONSTANTS
  Schedule = {x1}
  Live = {m1, m2, m3}
  Session = {s1}
  Process = {w1, w2}
  None = None
  Absent = Absent
  OnAir = 1
  MaxStrays = 1
INVARIANTS
  NoStreamIsForgotten
PROPERTIES
  StreamIsReplaced
  RecordingIsKept
\* Ids of live streams run out.
CHECK_DEADLOCK FALSE

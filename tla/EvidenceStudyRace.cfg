\* Two registrations of the same study that overlap.
SPECIFICATION Spec
CONSTANTS
  Writers = {w1, w2}
  Kinds = {"study"}
  None = None
  QuietStudies = FALSE
INVARIANT
  RowsBacked
CHECK_DEADLOCK FALSE

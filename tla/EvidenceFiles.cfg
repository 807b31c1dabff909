\* Two writers of any kind, one backup, and restores of its bundle.
\* Every attempt is made once, and the system then stops.
SPECIFICATION Spec
CONSTANTS
  Writers = {w1, w2}
  Kinds = {"catalog", "sec", "price", "intake", "batch", "issue", "proof", "claimant", "study",
           "frequency"}
  None = None
  QuietStudies = TRUE
INVARIANTS
  RowsBacked
  NoOrphanLeft
  BundleComplete
  RestoreComplete
CHECK_DEADLOCK FALSE

SPECIFICATION Spec
CONSTANTS
  p1 = p1
  p2 = p2
  Callers = {p1, p2}
  Workers = {p1, p2}
  StudySessions = {0}
  ScanDates = {1, 2}
  MaxJobs = 4
  None = None
  LastSession = 2
  HorizonSessions = 1
  MaxVintages = 3
  MaxAttempts = 2
  Histories <- MCHistories
INVARIANTS
  RecordStaysReadable
  OutcomeReplays
PROPERTIES
  CommittedStands
SYMMETRY MCSymmetry
CHECK_DEADLOCK FALSE

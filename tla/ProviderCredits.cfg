\* Two Twelve Data jobs, one of which records its success while the other is quiet, or
\* two SEC jobs that record under the row lock.
\* The clock stops at MaxClock, and a system whose jobs are all asleep then stops.
SPECIFICATION CreditSpec
CONSTANTS
  Jobs = {j1, j2}
  RecordingJobs = {j1}
  Limit = 2
  Gap = 2
  DayLength = 3
  MaxClock = 5
  QuietRecording = TRUE
  QuietMidnight = TRUE
INVARIANTS
  CreditTypeOK
  DailyLimitKept
  CountExact
PROPERTIES
  SlotsSpaced
CHECK_DEADLOCK FALSE

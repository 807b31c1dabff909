\* A Twelve Data job records its success while another one charges a credit.
SPECIFICATION CreditSpec
CONSTANTS
  Jobs = {j1, j2}
  RecordingJobs = {j1}
  Limit = 2
  Gap = 2
  DayLength = 4
  MaxClock = 3
  QuietRecording = FALSE
  QuietMidnight = TRUE
INVARIANT
  CountExact
CHECK_DEADLOCK FALSE

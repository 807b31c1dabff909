SPECIFICATION Spec
CONSTANTS
  a1 = a1
  a2 = a2
  Accessions = {a1, a2}
  First = a1
  Values = {1, 2}
  None = None
  Payloads <- MCPayloads
  AcceptedAt <- MCAcceptedAt
  FiledDayAfter <- MCFiledDayAfter
  ReconcileDays = 3
  RetryDays = 1
  DayLength = 1
  MaxTime = 5
  Legacy <- MCLegacy
INVARIANTS
  ReadsAreObserved
  NewestIsRead
PROPERTIES
  PastReadsStand

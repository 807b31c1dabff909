SPECIFICATION Spec
CONSTANTS
  None = None
  LastSession = 2
  HorizonSessions = 1
  MaxVintages = 2
  MaxEvaluations = 3
  MaxChanges = 1
  Histories <- MCHistories
INVARIANTS
  ChildrenStayVerifiable
  AttestedIsWhole
CHECK_DEADLOCK FALSE

SPECIFICATION FairSpec
CONSTANTS
  NoProc = NoProc
  Procs = {p1, p2, p3}
  MaxAttempts = 4
INVARIANTS
  TypeOK
  LiveAttemptAuthoritative
PROPERTIES
  AfterSuccessOnlySkips
  FinishedAttemptsFrozen
  ImplementsTargetOutcome
  EveryCallReturns

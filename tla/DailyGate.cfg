\* One operator beside the scheduler, one upgrade; deaths are not bounded.
SPECIFICATION FairSpec
CONSTANTS
  Operators = {op1}
  Sched = sched
  Ids = {i1, i2}
  None = None
  MaxUpgrades = 1
INVARIANTS
  TypeOK
  OneGatePerTarget
  ParentSuccessBacked
PROPERTIES
  ReservationRespected
  MarketEventuallySucceeds
  RefreshEventuallySucceeds

\* One portfolio on three ledger rows, one market update or new analysis, one reading page.
SPECIFICATION Spec
CONSTANTS
  Spy = spy
  Others = {stock}
  Readers = {r1}
  Keys = {k1}
  Amounts = {4}
  StartCash = {3}
  MaxShares = 1
  Closes = {2, 3}
  MaxEvents = 3
  MaxMoves = 1
  MaxSnaps = 1
  QuietPages = TRUE
  None = None
INVARIANTS
  TypeOK
  ProfitIsMarketMove
  LedgerReconciles
  PageShowsMarketMove
PROPERTIES
  ExecutedAsShown

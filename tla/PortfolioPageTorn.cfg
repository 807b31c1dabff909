\* The same portfolio, whose owner deposits or changes a holding while the page is read.
SPECIFICATION Spec
CONSTANTS
  Spy = spy
  Others = {stock}
  Readers = {r1}
  Keys = {k1}
  Amounts = {4}
  StartCash = {0, 3}
  MaxShares = 1
  Closes = {2, 3}
  MaxEvents = 3
  MaxMoves = 1
  MaxSnaps = 1
  QuietPages = FALSE
  None = None
INVARIANT
  PageShowsMarketMove

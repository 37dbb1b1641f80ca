\* The pipeline as the only order path: two signals, pyramiding, limit entries.
CONSTANTS
  s1 = s1
  s2 = s2
  xau = xau
  None = None
  Signals <- MCSignals
  SymbolOf <- MCSymbolOf
  SideOf <- MCSameSide
  LimitEntry = {s1}
  Bankbot = {}
  MaxOpenPerSymbol = 2
  AllowPyramiding = TRUE
  RegimeFlipReplace = FALSE
  FastLive = FALSE
  FastMaxOpen = 1
  ReviewLive = TRUE
  MaxTickets = 3
  QueueBound = 1
  DrainMax = 50
  MaxCrashes = 0
  MaxGlitches = 0
SPECIFICATION Spec
INVARIANTS
  AtMostOnce
  LedgerComplete

\* Both paths live: the same signal_id is executed twice.
CONSTANTS
  s1 = s1
  s2 = s2
  xau = xau
  None = None
  Signals <- MCSignals
  SymbolOf <- MCSymbolOf
  SideOf <- MCSameSide
  LimitEntry = {}
  Bankbot = {}
  MaxOpenPerSymbol = 1
  AllowPyramiding = FALSE
  RegimeFlipReplace = FALSE
  FastLive = TRUE
  FastMaxOpen = 1
  ReviewLive = FALSE
  MaxTickets = 2
  QueueBound = 1
  DrainMax = 50
  MaxCrashes = 0
  MaxGlitches = 0
SPECIFICATION Spec
INVARIANT AtMostOnce


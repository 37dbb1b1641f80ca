\* Limit entries: pending orders do not count towards the cap.
CONSTANTS
  s1 = s1
  s2 = s2
  xau = xau
  None = None
  Signals <- MCSignals
  SymbolOf <- MCSymbolOf
  SideOf <- MCSameSide
  LimitEntry = {s1,s2}
  Bankbot = {}
  MaxOpenPerSymbol = 1
  AllowPyramiding = FALSE
  RegimeFlipReplace = FALSE
  FastLive = FALSE
  FastMaxOpen = 1
  ReviewLive = FALSE
  MaxTickets = 2
  QueueBound = 1
  DrainMax = 50
  MaxCrashes = 0
  MaxGlitches = 0
SPECIFICATION Spec
INVARIANT CapRespected


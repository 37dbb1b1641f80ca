\* Both paths live, opposite-side signals, one position per symbol, a crash.
CONSTANTS
  s1 = s1
  s2 = s2
  xau = xau
  None = None
  Signals <- MCSignals
  SymbolOf <- MCSymbolOf
  SideOf <- MCOpposite
  LimitEntry = {}
  Bankbot = {s1}
  MaxOpenPerSymbol = 1
  AllowPyramiding = FALSE
  RegimeFlipReplace = TRUE
  FastLive = TRUE
  FastMaxOpen = 1
  ReviewLive = FALSE
  MaxTickets = 2
  QueueBound = 1
  DrainMax = 50
  MaxCrashes = 1
  MaxGlitches = 0
SPECIFICATION Spec
INVARIANT CapRespected
PROPERTY ImplementsGate

\* Larger than exec_paths: both paths live, two same-side signals, room for two positions, one crash.
CONSTANTS
  s1 = s1
  s2 = s2
  xau = xau
  None = None
  Signals <- MCSignals
  SymbolOf <- MCSymbolOf
  SideOf <- MCSameSide
  LimitEntry = {}
  Bankbot = {}
  MaxOpenPerSymbol = 2
  AllowPyramiding = FALSE
  RegimeFlipReplace = FALSE
  FastLive = TRUE
  FastMaxOpen = 2
  ReviewLive = FALSE
  MaxTickets = 2
  QueueBound = 1
  DrainMax = 50
  MaxCrashes = 1
  MaxGlitches = 0
SPECIFICATION Spec
INVARIANT NoStacking


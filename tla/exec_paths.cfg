\* Both paths, closers, the reviewer and a terminal failure; one signal, room for two positions.
CONSTANTS
  s1 = s1
  s2 = s2
  xau = xau
  None = None
  Signals <- MCOne
  SymbolOf <- MCOneSymbol
  SideOf <- MCOneSide
  LimitEntry = {}
  Bankbot = {}
  MaxOpenPerSymbol = 2
  AllowPyramiding = FALSE
  RegimeFlipReplace = TRUE
  FastLive = TRUE
  FastMaxOpen = 2
  ReviewLive = TRUE
  MaxTickets = 2
  QueueBound = 1
  DrainMax = 50
  MaxCrashes = 0
  MaxGlitches = 1
SPECIFICATION FairSpec
INVARIANTS
  NoStacking
  SingleMutator
  SessionKeepsTerminal
PROPERTIES
  SessionReleased

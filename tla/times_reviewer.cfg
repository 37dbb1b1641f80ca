\* A crash loses an open time; the reviewer closes.
CONSTANTS
  GuardEnabled = FALSE
  FastLive = FALSE
  ReviewLive = TRUE
  ClockAhead = TRUE
  MaxTickets = 2
  MaxCrashes = 1
  MaxGlitches = 0
SPECIFICATION Spec
INVARIANTS
  HoldRespected

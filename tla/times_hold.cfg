\* Larger than times_pruned: both order paths, everything on, a crash and an empty list.
CONSTANTS
  GuardEnabled = TRUE
  FastLive = TRUE
  ReviewLive = TRUE
  ClockAhead = FALSE
  MaxTickets = 2
  MaxCrashes = 1
  MaxGlitches = 1
SPECIFICATION Spec
INVARIANTS
  HoldRespected

\* One order path, Blue Guardian, manager and live reviewer; a crash and an empty list.
CONSTANTS
  GuardEnabled = TRUE
  FastLive = FALSE
  ReviewLive = TRUE
  ClockAhead = TRUE
  MaxTickets = 2
  MaxCrashes = 1
  MaxGlitches = 1
SPECIFICATION FairSpec
INVARIANTS
  TimesKept
  HoldRespected
PROPERTIES
  ClosedForgotten

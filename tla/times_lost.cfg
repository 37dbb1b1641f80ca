\* Blue Guardian prunes while fast mode opens.
CONSTANTS
  GuardEnabled = TRUE
  FastLive = TRUE
  ReviewLive = FALSE
  ClockAhead = TRUE
  MaxTickets = 2
  MaxCrashes = 0
  MaxGlitches = 0
SPECIFICATION Spec
INVARIANTS
  TimesKept

\* Fast mode on a day whose profit halt has been written.
CONSTANTS
  RiskHold = FALSE
  GuardEnabled = TRUE
  PlanActive = FALSE
  FastLive = TRUE
  MaxDay = 1
  MaxHolds = 0
  MaxUnblocks = 0
  MaxFaults = 0
SPECIFICATION Spec
PROPERTIES
  HaltStopsEntries

\* A manual hold races the profit halt.
CONSTANTS
  RiskHold = FALSE
  GuardEnabled = TRUE
  PlanActive = FALSE
  FastLive = FALSE
  MaxDay = 1
  MaxHolds = 1
  MaxUnblocks = 0
  MaxFaults = 0
SPECIFICATION Spec
PROPERTIES
  KeepsManualHold

\* An unblock while the risk loop's verdict stands.
CONSTANTS
  RiskHold = FALSE
  GuardEnabled = TRUE
  PlanActive = FALSE
  FastLive = FALSE
  MaxDay = 1
  MaxHolds = 0
  MaxUnblocks = 1
  MaxFaults = 0
SPECIFICATION Spec
PROPERTIES
  UnblockOpensGates

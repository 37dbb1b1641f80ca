\* Both configurations over two days; everyone at work: a hold (only where the
\* configuration does not hold the switch), an unblock and two faults.
CONSTANTS
  RiskHold = FALSE
  GuardEnabled = TRUE
  PlanActive = FALSE
  FastLive = TRUE
  MaxDay = 2
  MaxHolds = 1
  MaxUnblocks = 1
  MaxFaults = 2
SPECIFICATION MCSpec
INVARIANTS
  VerdictBlocks
  OrdersBelowTarget
PROPERTIES
  ClearsOldHaltsOnly
  HaltEndsWithDay
  TradesAgainUnheld

\* Paper: two signals, two positions, partials, one crash. Live: two deals, one fault.
SPECIFICATION MCSpec
CONSTANTS
  Signals = {s1, s2}
  None = None
  MaxPrice = 2
  Risk = 1
  TP1 = 1
  TP2 = 2
  Size = 2
  BETrigger = 1
  Lock = 0
  ArmAt = 1
  Trail = 1
  RunnerLock = 0
  PartialEnabled = TRUE
  Lifts = {0, 2}
  MaxOpenPerSymbol = 2
  MaxFills = 2
  MaxCrashes = 1
  Deals = {1, 2}
  FastLive = TRUE
  MaxFaults = 1
INVARIANTS OnePositionPerSignal BankedOnce ClosesRecorded
PROPERTIES StopHonoured DealsLearnedOnce
CHECK_DEADLOCK FALSE

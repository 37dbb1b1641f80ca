\* One position of one or two lots, one refusal, one crash.
SPECIFICATION FairSpec
CONSTANTS
  Tickets = {t1}
  OpenLots = {1, 2}
  Locks = {0, 1}
  Trails = {1, 2}
  None = None
  Risk = 2
  Target = 3
  Top = 4
  Spread = 0
  MinDist = 1
  BETrigger = 2
  PctTrigger = 2
  Progress70 = 2
  ArmAt = 2
  MinWin = 1
  RunnerLock = 3
  TimeLock = 1
  MaxFails = 1
  MaxCrashes = 1
  PartialEnabled = TRUE
INVARIANTS PartialOnce
PROPERTIES ManagedRatchet FreeStaysFree RunnerProtected
CHECK_DEADLOCK FALSE

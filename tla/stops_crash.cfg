\* The stop after a partial close; a crash after one: keep one
\* name at a time.
SPECIFICATION Spec
CONSTANTS
  Tickets = {t1}
  OpenLots = {1, 2}
  Locks = {0, 1}
  Trails = {1, 2}
  None = None
  Risk = 2
  Target = 3
  Top = 4
  Spread = 1
  MinDist = 1
  BETrigger = 2
  PctTrigger = 2
  Progress70 = 2
  ArmAt = 2
  MinWin = 1
  RunnerLock = 1
  TimeLock = 1
  MaxFails = 1
  MaxCrashes = 1
  PartialEnabled = TRUE
INVARIANTS
  PartialOnceEver
PROPERTIES
  StopNeverLoosens
CHECK_DEADLOCK FALSE

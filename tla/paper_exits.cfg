\* An exit recorded twice, a signal filled again, two partial profits, a reversal
\* that leaves nothing, a result booked twice after a crash, a stop nobody looks
\* at: keep one name at a time.
SPECIFICATION FairSpec
CONSTANTS
  Signals = {s1, s2}
  None = None
  MaxPrice = 3
  Risk = 1
  TP1 = 1
  TP2 = 2
  Size = 2
  BETrigger = 1
  Lock = 0
  ArmAt = 1
  Trail = 1
  RunnerLock = 0
  PartialEnabled = TRUE
  Lifts = {0, 2}
  MaxOpenPerSymbol = 2
  MaxFills = 2
  MaxCrashes = 1
INVARIANTS
  ClosedOnce
  SignalOnce
  PartialOnce
  NothingDropped
  BankedEver
PROPERTIES
  StopCloses
CHECK_DEADLOCK FALSE

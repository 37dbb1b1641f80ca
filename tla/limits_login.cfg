\* The terminal is switched to another account. Keep one name at a time.
CONSTANTS
  Logins = {1, 2}
  Money = {86, 95, 100, 108}
  GuardEnabled = FALSE
  LockOnTarget = TRUE
  FastLive = TRUE
  PracticeReset = TRUE
  StartingCash = 100
  MaxDrawdownPct = 8
  MaxLossPct = 4
  TargetPct = 8
  LossBuffer = 6
  MaxLoss = 15
  ProfitTarget = 8
  LockOnProfit = FALSE
  TrailPct = 6
  Shield = 9
  AccountSize = 100
  MaxDay = 2
  MaxSwitches = 1
  MaxBreaches = 2
SPECIFICATION Spec
INVARIANTS
  DayOfAccount
PROPERTIES
  RebaselinesForward

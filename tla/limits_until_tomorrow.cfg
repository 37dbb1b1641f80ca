\* The equity recovers within the day, and a restart sees it.
CONSTANTS
  Logins = {1, 2}
  Money = {86, 95, 100, 108}
  GuardEnabled = FALSE
  LockOnTarget = TRUE
  FastLive = TRUE
  PracticeReset = TRUE
  StartingCash = 100
  MaxDrawdownPct = 8
  MaxLossPct = 4
  TargetPct = 8
  LossBuffer = 6
  MaxLoss = 15
  ProfitTarget = 8
  LockOnProfit = FALSE
  TrailPct = 6
  Shield = 9
  AccountSize = 100
  MaxDay = 2
  MaxSwitches = 0
  MaxBreaches = 2
SPECIFICATION Spec
PROPERTIES
  PausedUntilTomorrow

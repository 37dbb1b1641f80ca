\* With Blue Guardian: the loss pause, the shield breaches, the watermark:
\* keep one name at a time.
CONSTANTS
  Logins = {1, 2}
  Money = {86, 95, 100, 108}
  GuardEnabled = TRUE
  LockOnTarget = TRUE
  FastLive = TRUE
  PracticeReset = TRUE
  StartingCash = 100
  MaxDrawdownPct = 8
  MaxLossPct = 4
  TargetPct = 8
  LossBuffer = 6
  MaxLoss = 15
  ProfitTarget = 8
  LockOnProfit = FALSE
  TrailPct = 6
  Shield = 9
  AccountSize = 100
  MaxDay = 2
  MaxSwitches = 0
  MaxBreaches = 2
SPECIFICATION Spec
INVARIANTS
  LossPauseEnforced
PROPERTIES
  BreachesKept
  WatermarkKept

\* The loss comes during the run: no cycle reads the account again.
CONSTANTS
  Logins = {1}
  Money = {90, 100}
  GuardEnabled = FALSE
  LockOnTarget = TRUE
  FastLive = FALSE
  PracticeReset = TRUE
  StartingCash = 100
  MaxDrawdownPct = 8
  MaxLossPct = 4
  TargetPct = 8
  LossBuffer = 6
  MaxLoss = 15
  ProfitTarget = 8
  LockOnProfit = FALSE
  TrailPct = 6
  Shield = 9
  AccountSize = 100
  MaxDay = 1
  MaxSwitches = 0
  MaxBreaches = 2
SPECIFICATION LiveSpec
PROPERTIES
  LossReachesVerdict

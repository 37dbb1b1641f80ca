\* A Blue Guardian account (real: performance gates, only the pipeline runs
\* broker calls) and a growth account (demo: practice sessions, fast mode), over
\* two days and an account switch.
CONSTANTS
  Logins = {1, 2}
  Money = {90, 100, 108}
  GuardEnabled = TRUE
  LockOnTarget = FALSE
  FastLive = FALSE
  PracticeReset = FALSE
  StartingCash = 100
  MaxDrawdownPct = 8
  MaxLossPct = 4
  TargetPct = 8
  LossBuffer = 12
  MaxLoss = 15
  ProfitTarget = 8
  LockOnProfit = TRUE
  TrailPct = 12
  Shield = 9
  AccountSize = 100
  MaxDay = 2
  MaxSwitches = 1
  MaxBreaches = 2
  GrowthBuffer = 6
  GrowthTrail = 6
SPECIFICATION MCSpec
INVARIANTS
  GuardianEnforced
PROPERTIES
  BaselineKept
  DayStartKept
  EvaluationsAgree
  StaticKill

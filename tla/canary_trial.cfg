\* Two overlapping runs, an operator, four days.
CONSTANTS
  Symbols = {btc, oil}
  Runs = {cron, manual}
  Window = 2
  HistoryCap = 3
  None = None
  Veto = Veto
  MaxDay = 4
  MaxOps = 2
SPECIFICATION TrialFairSpec
INVARIANTS
  HistoryPerDay
  PromotionEarned
PROPERTIES
  DisableTakesEffect

\* A promoted canary is given up.
CONSTANTS
  Symbols = {btc, oil}
  Runs = {cron}
  Window = 2
  HistoryCap = 3
  None = None
  Veto = Veto
  MaxDay = 4
  MaxOps = 0
SPECIFICATION TrialSpec
PROPERTIES
  PromotedKept

\* Five cycles with two failures anywhere, one fast order an hour.
CONSTANTS
  Store = TRUE
  FastLive = TRUE
  Confirm = 1
  Keep = 2
  MaxHour = 1
  MaxCycles = 5
  MaxFaults = 2
SPECIFICATION Spec
INVARIANTS
  MirrorsAgree
  RateKept
  ConfirmedSteadily
PROPERTIES
  FreshOrders
  FastChecked

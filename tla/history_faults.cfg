\* An unreadable document, a crash, an older copy over a newer one.
CONSTANTS
  Deals = {1, 2}
  FastLive = TRUE
  MaxFaults = 1
SPECIFICATION Spec
INVARIANTS TypeOK ScoredOnce RecordedIngested OldTradesKept
PROPERTIES HistoryGrows
CHECK_DEADLOCK FALSE

\* A signal gone for a cycle keeps its timer; a fast entry of a dropped signal:
\* keep one name at a time.
CONSTANTS
  Store = TRUE
  FastLive = TRUE
  Confirm = 1
  Keep = 2
  MaxHour = 1
  MaxCycles = 4
  MaxFaults = 0
SPECIFICATION Spec
INVARIANTS
  ContinuouslyValid
PROPERTIES
  EntryStillValid

\* Two processes, one of them with --once, and one fault.
CONSTANTS
  Agents = {a, b}
  Once = {b}
  Services = {pipeline, fast}
  OnceSkips = {}
  Pipeline = pipeline
  MaxWorkers = 1
  MaxFaults = 1
SPECIFICATION FairSpec
INVARIANTS
  DemotedFallsSilent
PROPERTIES
  OwnerReports
CHECK_DEADLOCK FALSE

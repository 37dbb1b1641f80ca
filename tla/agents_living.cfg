\* A living process that nothing reports. Alone, RunsAgain passes.
CONSTANTS
  Agents = {a, b}
  Once = {b}
  Services = {pipeline, history}
  OnceSkips = {history}
  Pipeline = pipeline
  MaxWorkers = 1
  MaxFaults = 1
SPECIFICATION FairSpec
PROPERTIES
  LivingReported
  RunsAgain
CHECK_DEADLOCK FALSE

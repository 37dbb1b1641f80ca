\* A second event worker; runtime_mode.json after the lock is lost: keep one
\* name at a time.
CONSTANTS
  Agents = {a, b}
  Once = {b}
  Services = {pipeline, history}
  OnceSkips = {history}
  Pipeline = pipeline
  MaxWorkers = 2
  MaxFaults = 1
SPECIFICATION Spec
INVARIANTS
  OneWorker
  ModeOfOwner
CHECK_DEADLOCK FALSE

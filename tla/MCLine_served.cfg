SPECIFICATION EndSpec
CONSTANTS
  Tools = {b1, b2}
  Lookups = {l1}
  Tenants = {k1, k2, k3, k4}
  Priority = {}
  Cap = 2
  MaxGhosts = 1
  Stages = {e1}
  Delays = {0, 1}
  MaxEvents = 12
  SuiteLength = 2
  MaxTurns = 2
  MaxCalls = 1
  Seeders = {r1, r2}
INVARIANTS
  LatencyKept
PROPERTIES
  CallsKept
  LineKept
  EvalSound
  SeedingKept
CHECK_DEADLOCK FALSE

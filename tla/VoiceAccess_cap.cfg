SPECIFICATION Spec
CONSTANTS
  Tenants = {1, 2}
  Priority = {}
  Reqs = {r1, r2}
  Cap = 1
  TTL = 1
  MaxClock = 1
INVARIANT
  CapRespected

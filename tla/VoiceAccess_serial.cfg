SPECIFICATION Spec
CONSTANTS
  Tenants = {1, 2, 3, 4}
  Priority = {4}
  Reqs = {r1}
  Cap = 2
  TTL = 2
  MaxClock = 3
INVARIANTS
  CapRespected
  OnlyLiveCounted
PROPERTIES
  AdmittedInOrder
  ImplementsPool

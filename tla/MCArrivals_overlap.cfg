SPECIFICATION ArrivalsSpec
CONSTANTS
  Tenants = {1, 2, 3}
  Priority = {}
  Reqs = {r1, r2}
  Cap = 1
  TTL = 1
  MaxClock = 2
  Messages = {m1, m2}
  Handlers = {h1, h2}
  MaxConnections = 2
  MaxOutages = 1
SYMMETRY Symmetry
INVARIANTS
  TypeOK
  HoldersBounded
  AnswersKept
PROPERTIES
  PlaceKept
  HeartbeatNeverClaims

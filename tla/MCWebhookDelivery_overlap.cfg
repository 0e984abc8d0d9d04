SPECIFICATION Spec
CONSTANTS
  Endpoints = {e1, e2}
  Lanes = {l1, l2}
  Managers = {m1}
  Managed = {e1}
  DisableAfter = 1
  MaxAttempts = 2
  MaxFailures = 1
INVARIANTS
  TypeOK
  CountBackedByLog
  EveryPostRecorded
PROPERTIES
  PausedStaysPaused
  EveryDeliveryEnds

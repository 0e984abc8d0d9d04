SPECIFICATION LineSpec
CONSTANTS
  Tenants = {k1, k2, k3}
  Priority = {}
  Cap = 1
  MaxGhosts = 1
PROPERTY
  EveryWaiterServed
CHECK_DEADLOCK FALSE

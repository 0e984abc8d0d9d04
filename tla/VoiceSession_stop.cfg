SPECIFICATION SessionSpec
CONSTANTS
  Flows = {f1, f2}
PROPERTIES
  StopEndsPolling
CHECK_DEADLOCK FALSE

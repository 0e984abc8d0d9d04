SPECIFICATION CallSpec
CONSTANTS
  Tools = {b1}
  Lookups = {}
INVARIANTS
  RecordIsBestEffort
CHECK_DEADLOCK FALSE

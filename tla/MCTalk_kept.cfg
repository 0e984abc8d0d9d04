SPECIFICATION TalkSpec
CONSTANTS
  Flows = {f1, f2}
  Turns = {t1, t2}
  Slots = {s1}
  MaxRounds = 2
  Exchanges = {x1, x2, x3}
  Kept = 2
  Shown = 1
PROPERTIES
  SessionKept
  TurnsKept
  MemoryKept
CHECK_DEADLOCK FALSE

SPECIFICATION Spec
CONSTANTS
  Desks = {d1, d2}
  MaxTime = 3
  Slot = 2
INVARIANTS
  NoDoubleBooking

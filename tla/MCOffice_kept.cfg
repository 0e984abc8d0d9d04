SPECIFICATION OfficeSpec
CONSTANTS
  Submissions = {s1, s2}
  Texts = {plain, stuffed}
  LinkStuffed = {stuffed}
  AdminCalls = {a1, a2}
  Requests = {r1, r2, r3}
  Subjects = {t1, t2}
  Limit = 1
  Window = 2
  LastTick = 3
  Gateways = {g1, g2}
  Connects = {m1, m2}
  Disconnects = {x1}
  Saves = {w1, w2, w3}
  Parts = {"notifications", "other"}
  Alerts = {e1}
  DayLength = 4
  Horizon = 2
  Timetables <- WeekdayHours
  SlotLength = 2
  Most = 2
  MaxBookings = 2
  Desks = {d1, d2}
  MaxTime = 3
  Slot = 2
SYMMETRY Symmetry
INVARIANTS
  TypeOK
  OneDeskNeverOverlaps
  OverbookingBounded
  LimitsHold
  LinkSound
  SettingsStand
  OffersAreRight
PROPERTIES
  DeskKept
CHECK_DEADLOCK FALSE

----------------------------- MODULE SlotSearch -----------------------------
(***************************************************************************)
(* check_availability in services/booking.py: a walk over the opening      *)
(* hours of the next days, or of one day that was asked for, in steps of a *)
(* slot.  Each step asks the database anew, and awaits the answer: others  *)
(* book and cancel in between.  Time zones are left out: all times are the *)
(* workspace's own.                                                        *)
(***************************************************************************)
EXTENDS Integers, Sequences, FiniteSets

CONSTANTS
  DayLength,  \* units of time in a day
  Horizon,    \* horizon_days
  Timetables, \* the opening and closing times that a weekday may have, or Closed
  SlotLength, \* slot_minutes
  Most,       \* limit
  MaxBookings \* a bound on the bookings there ever are, for TLC

ASSUME SearchAssumption ==
  /\ DayLength \in Nat \ {0} /\ Horizon \in Nat \ {0}
  /\ SlotLength \in Nat \ {0} /\ Most \in Nat \ {0}
  /\ MaxBookings \in Nat

Shut == <<>>
\* Both times are of the day; nothing says that the first is the earlier one.
ASSUME TimetablesAssumption ==
  Timetables \subseteq {Shut} \union {<<opens, closes>> : opens, closes \in 0 .. DayLength}

NoDay == -1
Days == 0 .. Horizon - 1   \* day 0 is today
Instants == 0 .. Horizon * DayLength - 1

VARIABLES
  hours,    \* _hours_for of each day
  asked,    \* on_date, or NoDay
  present,  \* now, when the search began
  place,    \* the day, the cursor and what comes next
  offered,  \* out
  taken,    \* the starts of confirmed bookings
  ever,     \* history: those that were there at some time
  always    \* history: those that were there all the time

searchVars == <<hours, asked, present, place, offered, taken, ever, always>>

SearchInit ==
  /\ hours \in [Days -> Timetables]
  /\ asked \in Days \union {NoDay} /\ present \in 0 .. DayLength - 1
  /\ place = [pc |-> "day", day |-> IF asked = NoDay THEN 0 ELSE asked, cursor |-> 0]
  /\ offered = <<>>
  /\ taken \in {{}} \union {{s} : s \in Instants} /\ ever = taken /\ always = taken

Instant(d, c) == d * DayLength + c
Opens(d) == hours[d][1]
Closes(d) == hours[d][2]
FitsBefore(c, d) == c + SlotLength <= Closes(d)

\* A day that was asked for is the only one.
NextDay(d) == IF asked = NoDay THEN d + 1 ELSE Horizon

SearchDay ==
  LET d == place.day IN
    /\ place.pc = "day" /\ d < Horizon
    /\ place' = IF hours[d] = Shut THEN [place EXCEPT !.day = NextDay(d)]
                                   ELSE [place EXCEPT !.pc = "slot", !.cursor = Opens(d)]
    /\ UNCHANGED <<hours, asked, present, offered, taken, ever, always>>

\* _existing
Clash(a, b) == a < b + SlotLength /\ b < a + SlotLength
IsFree_SameStart(s) == s \notin taken
IsFree(s) == \A b \in taken : ~Clash(b, s)

\* Only what begins after now is offered.
TrySlot ==
  LET d == place.day
      c == place.cursor
      found == IF Instant(d, c) > present /\ IsFree(Instant(d, c))
                 THEN Append(offered, Instant(d, c)) ELSE offered IN
    /\ place.pc = "slot" /\ FitsBefore(c, d)
    /\ offered' = found
    /\ place' = IF Len(found) >= Most THEN [place EXCEPT !.pc = "done"]
                                      ELSE [place EXCEPT !.cursor = c + SlotLength]
    /\ UNCHANGED <<hours, asked, present, taken, ever, always>>

DayIsOver ==
  /\ place.pc = "slot" /\ ~FitsBefore(place.cursor, place.day)
  /\ place' = [pc |-> "day", day |-> NextDay(place.day), cursor |-> 0]
  /\ UNCHANGED <<hours, asked, present, offered, taken, ever, always>>

Finished ==
  /\ place.pc = "day" /\ place.day = Horizon
  /\ place' = [place EXCEPT !.pc = "done"]
  /\ UNCHANGED <<hours, asked, present, offered, taken, ever, always>>

\* Other sessions, at any time during the search
OthersBook(s) ==
  /\ place.pc # "done" /\ IsFree(s)
  /\ s \notin ever /\ Cardinality(ever) < MaxBookings
  /\ taken' = taken \union {s} /\ ever' = ever \union {s}
  /\ UNCHANGED <<hours, asked, present, place, offered, always>>

OthersCancel(s) ==
  /\ place.pc # "done" /\ s \in taken
  /\ taken' = taken \ {s} /\ always' = always \ {s}
  /\ UNCHANGED <<hours, asked, present, place, offered, ever>>

SearchStep == SearchDay \/ TrySlot \/ DayIsOver \/ Finished

SearchNext ==
  \/ SearchStep
  \/ \E s \in Instants : OthersBook(s) \/ OthersCancel(s)

SearchSpec == SearchInit /\ [][SearchNext]_searchVars

----------------------------------------------------------------------------
(* Properties                                                              *)

Slots(d) ==
  IF hours[d] = Shut THEN {}
  ELSE {Instant(d, c) : c \in {Opens(d) + k * SlotLength : k \in 0 .. DayLength} \cap 0 .. Closes(d) - SlotLength}
Searched == IF asked = NoDay THEN Days ELSE {asked}
Candidates == {s \in UNION {Slots(d) : d \in Searched} : s > present}
Offers == {offered[i] : i \in DOMAIN offered}

\* Types, and: no more is offered than was asked for, in order.
SearchTypeOK ==
  /\ place.pc \in {"day", "slot", "done"} /\ place.day \in 0 .. Horizon
  /\ Len(offered) <= Most
  /\ \A i, j \in DOMAIN offered : i < j => offered[i] + SlotLength <= offered[j]
  /\ always \subseteq taken /\ taken \subseteq ever

\* Nothing is offered that the caller could not book: it lies in the hours of a
\* day that was asked for, has not begun, and overlaps no booking that was there all the
\* time.
OffersAreOpen ==
  Offers \subseteq {s \in Candidates : \A b \in always : ~Clash(b, s)}

\* A list that was not cut off has every slot that was free all the time.
NothingMissed ==
  place.pc = "done" /\ Len(offered) < Most =>
    {s \in Candidates : \A b \in ever : ~Clash(b, s)} \subseteq Offers

\* The list is right with respect to all that happened while it was made.
OffersAreRight == SearchTypeOK /\ OffersAreOpen /\ NothingMissed

============================================================================

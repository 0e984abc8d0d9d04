---------------------------- MODULE BookingDesk ----------------------------
(***************************************************************************)
(* Appointments of one workspace (services/booking.py) as they are booked  *)
(* by chat turns, voice calls and API clients at the same time.            *)
(*                                                                         *)
(* A desk is a place where one database session at a time is open.  A      *)
(* session reads what is committed and what it wrote itself (Postgres READ *)
(* COMMITTED); book() checks for an overlap, may call Cal.com, inserts and *)
(* leaves the commit to the end of the session, with awaits in between.    *)
(***************************************************************************)
EXTENDS Integers, FiniteSets

CONSTANTS
  Desks,      \* sessions that can be open at the same time
  MaxTime,    \* bound on the times at which an appointment can start
  Slot        \* slot_minutes, in units of time

ASSUME DesksAssumption  == IsFiniteSet(Desks)
ASSUME TimesAssumption  == MaxTime \in Nat /\ Slot \in Nat \ {0}

VARIABLES
  clock,     \* datetime.now(UTC)
  bookings,  \* committed rows: desk that made it, start_at, status
  desk       \* the session of each desk

vars == <<clock, bookings, desk>>

Starts == 0 .. MaxTime
Row_Pending(d, s, status) == [desk |-> d, start |-> s, status |-> "pending"]
Row(d, s, status) == [desk |-> d, start |-> s, status |-> status]

\* pc: "closed", "ready" for a tool call, or the next step of book().
\* turn: a chat turn survives a refused tool call, a single call does not.
\* start: the start_at of the call.  mine: rows flushed and not committed.
Closed == [pc |-> "closed", turn |-> "single", start |-> 0, mine |-> {}]

Init ==
  /\ clock = 0
  /\ bookings = {}
  /\ desk = [d \in Desks |-> Closed]

At(d, label) == desk[d].pc = label
Close(d) == desk' = [desk EXCEPT ![d] = Closed]

----------------------------------------------------------------------------
(* book(), one step between two awaits                                     *)

Overlap(r, s) == r < s + Slot /\ s < r + Slot

\* _existing: any overlap with a confirmed row this session can see.
Visible_CommittedOnly(d) == bookings
Visible(d) == bookings \union desk[d].mine
Taken_StartOnly(d, s) == \E b \in Visible(d) : b.status = "confirmed" /\ b.start = s
Taken(d, s) == \E b \in Visible(d) : b.status = "confirmed" /\ Overlap(b.start, s)

Begin(d, turn) ==
  /\ At(d, "closed")
  /\ desk' = [desk EXCEPT ![d] = [Closed EXCEPT !.pc = "ready", !.turn = turn]]
  /\ UNCHANGED <<clock, bookings>>

\* The error ends a chat's tool call, and any other session with a rollback.
Refuse(d) ==
  IF desk[d].turn = "chat"
  THEN desk' = [desk EXCEPT ![d].pc = "ready", ![d].start = 0]
  ELSE Close(d)

Ask(d, s) ==
  /\ At(d, "ready")
  /\ desk[d].turn = "chat" \/ desk[d].mine = {}
  /\ IF s <= clock
     THEN Refuse(d)
     ELSE desk' = [desk EXCEPT ![d].pc = "check", ![d].start = s]
  /\ UNCHANGED <<clock, bookings>>

\* Then Cal.com may be asked; whatever it answers, the booking goes on.
CheckFree(d) ==
  /\ At(d, "check")
  /\ IF Taken(d, desk[d].start)
     THEN Refuse(d)
     ELSE desk' = [desk EXCEPT ![d].pc = "insert"]
  /\ UNCHANGED <<clock, bookings>>

Insert(d) ==
  /\ At(d, "insert")
  /\ desk' = [desk EXCEPT ![d].mine = @ \union {Row(d, desk[d].start, "confirmed")},
                          ![d].pc = "ready", ![d].start = 0]
  /\ UNCHANGED <<clock, bookings>>

Commit(d) ==
  /\ At(d, "ready")
  /\ bookings' = bookings \union desk[d].mine
  /\ Close(d)
  /\ UNCHANGED clock

\* The language model fails, the client is gone, the flush or the process dies.
Rollback(d) ==
  /\ ~At(d, "closed")
  /\ Close(d)
  /\ UNCHANGED <<clock, bookings>>

----------------------------------------------------------------------------

Cancel(b) ==
  /\ bookings' = (bookings \ {b}) \union {[b EXCEPT !.status = "cancelled"]}
  /\ UNCHANGED <<clock, desk>>

Tick ==
  /\ clock < MaxTime
  /\ clock' = clock + 1
  /\ UNCHANGED <<bookings, desk>>

Book(d) ==
  \/ \E s \in Starts : Ask(d, s)
  \/ CheckFree(d) \/ Insert(d)

Next ==
  \/ \E d \in Desks :
       \/ \E turn \in {"chat", "single"} : Begin(d, turn)
       \/ Book(d) \/ Commit(d) \/ Rollback(d)
  \/ \E b \in bookings : Cancel(b)
  \/ Tick

Spec == Init /\ [][Next]_vars

----------------------------------------------------------------------------
(* Properties                                                              *)

Rows == [desk : Desks, start : Starts, status : {"confirmed", "cancelled"}]

\* Rows are well formed and a session holds only rows of its own desk.
TypeOK ==
  /\ clock \in Starts
  /\ bookings \subseteq Rows
  /\ desk \in [Desks -> [pc : {"closed", "ready", "check", "insert"},
                         turn : {"chat", "single"}, start : Starts, mine : SUBSET Rows]]
  /\ \A d \in Desks : \A b \in desk[d].mine : b.desk = d /\ b.status = "confirmed"

Confirmed(d) == {b \in Visible(d) : b.desk = d /\ b.status = "confirmed"}

\* What one desk books, over all its sessions and turns, never overlaps.
OneDeskNeverOverlaps ==
  \A d \in Desks : \A b, c \in Confirmed(d) : b # c => ~Overlap(b.start, c.start)

Covering(t) == {b \in bookings : b.status = "confirmed" /\ b.start <= t /\ t < b.start + Slot}

\* However sessions interleave, at no moment do more confirmed appointments
\* lie over each other than there are sessions open at the same time.
OverbookingBounded == \A t \in Starts : Cardinality(Covering(t)) <= Cardinality(Desks)

\* A confirmed time is not booked again ("That time is no longer available").
NoDoubleBooking ==
  \A b, c \in bookings :
    b.status = "confirmed" /\ c.status = "confirmed" /\ b # c => ~Overlap(b.start, c.start)

============================================================================

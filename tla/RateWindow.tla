----------------------------- MODULE RateWindow -----------------------------
(***************************************************************************)
(* The fixed-window limits of services/quota.py.  A request takes the      *)
(* window it falls into from its own clock, counts itself with INCR and,   *)
(* when it is the first, gives the counter a time to live.  Redis may fail *)
(* at either command, which lets the request in.                           *)
(***************************************************************************)
EXTENDS Integers, FiniteSets

CONSTANTS
  Requests,
  Subjects,   \* tenants' resources and hashed addresses
  Limit,
  Window,     \* window_seconds
  LastTick    \* a bound on the clock, for TLC

ASSUME LimitAssumption == Limit \in Nat \ {0} /\ IsFiniteSet(Requests)
ASSUME WindowAssumption == Window \in Nat \ {0} /\ LastTick \in Nat

VARIABLES
  tick,     \* the time
  counter,  \* the value of each counter: 0 when there is no such key
  expiry,   \* when each counter is removed: Never before EXPIRE
  hit       \* each request

rateVars == <<tick, counter, expiry, hit>>

Never == -1
Bucket(t) == t \div Window
Keys == Subjects \X (0 .. Bucket(LastTick))
NoKey == <<>>
NewHit == [pc |-> "idle", key |-> NoKey, count |-> 0, at |-> 0]

RateInit ==
  /\ tick = 0
  /\ counter = [k \in Keys |-> 0]
  /\ expiry = [k \in Keys |-> Never]
  /\ hit = [r \in Requests |-> NewHit]

KeyOf(s) == <<s, Bucket(tick)>>

Arrive(r, s) ==
  /\ hit[r].pc = "idle"
  /\ hit' = [hit EXCEPT ![r].pc = "counting", ![r].key = KeyOf(s)]
  /\ UNCHANGED <<tick, counter, expiry>>

\* INCR.  The window may have ended since the request looked at the clock.
Count(r) ==
  LET k == hit[r].key
      n == counter[k] + 1 IN
    /\ hit[r].pc = "counting"
    /\ counter' = [counter EXCEPT ![k] = n]
    /\ hit' = [hit EXCEPT ![r].pc = IF n = 1 THEN "expiring" ELSE "counted",
                          ![r].count = n, ![r].at = tick]
    /\ UNCHANGED <<tick, expiry>>

Lifetime_Half == Window \div 2
Lifetime == Window

\* EXPIRE, by the request that counted 1
Expire(r) ==
  /\ hit[r].pc = "expiring"
  /\ expiry' = [expiry EXCEPT ![hit[r].key] = tick + Lifetime]
  /\ hit' = [hit EXCEPT ![r].pc = "counted"]
  /\ UNCHANGED <<tick, counter>>

Admitted(n) == n <= Limit

Answer(r) ==
  /\ hit[r].pc = "counted"
  /\ hit' = [hit EXCEPT ![r].pc = IF Admitted(hit[r].count) THEN "allowed" ELSE "refused"]
  /\ UNCHANGED <<tick, counter, expiry>>

\* Either command fails, the INCR possibly after Redis has done it.
FailOpen(r) ==
  /\ hit[r].pc \in {"counting", "expiring"}
  /\ \E n \in IF hit[r].pc = "counting" THEN {0, 1} ELSE {0} :
       counter' = [counter EXCEPT ![hit[r].key] = @ + n]
  /\ hit' = [hit EXCEPT ![r].pc = "open"]
  /\ UNCHANGED <<tick, expiry>>

\* Time passes, and takes the counters that are due.
Pass ==
  /\ tick < LastTick
  /\ tick' = tick + 1
  /\ counter' = [k \in Keys |-> IF expiry[k] = tick + 1 THEN 0 ELSE counter[k]]
  /\ expiry' = [k \in Keys |-> IF expiry[k] = tick + 1 THEN Never ELSE expiry[k]]
  /\ UNCHANGED hit

RateNext ==
  \/ \E r \in Requests :
       \/ \E s \in Subjects : Arrive(r, s)
       \/ Count(r) \/ Expire(r) \/ Answer(r) \/ FailOpen(r)
  \/ Pass

RateSpec == RateInit /\ [][RateNext]_rateVars

----------------------------------------------------------------------------
(* Properties                                                              *)

InTime(r) == hit[r].pc = "allowed" /\ hit[r].key[2] = Bucket(hit[r].at)
Admissions(k) == {r \in Requests : InTime(r) /\ hit[r].key = k}
AdmittedIn(s, span) == {r \in Requests : InTime(r) /\ hit[r].key[1] = s /\ hit[r].at \in span}

\* Types, and: a counter that has a time to live has been counted, and is
\* removed at the end of its window or later.
RateTypeOK ==
  /\ tick \in 0 .. LastTick
  /\ counter \in [Keys -> Nat]
  /\ expiry \in [Keys -> Int]
  /\ hit \in [Requests -> [pc : {"idle", "counting", "expiring", "counted", "allowed", "refused", "open"},
                           key : Keys \union {NoKey}, count : Nat, at : Nat]]
  /\ \A r \in Requests : hit[r].pc # "idle" => hit[r].key \in Keys
  /\ \A k \in Keys : expiry[k] # Never => expiry[k] >= (k[2] + 1) * Window

\* No window admits more than the limit, whatever the order of the commands of
\* its requests, except those that Redis failed and those that counted
\* themselves after the window.
WindowBounded == \A k \in Keys : Cardinality(Admissions(k)) <= Limit

\* Windows are aligned to the clock, so that a caller may use up two of them
\* around a boundary: no span of one window's length admits more than that.
SpanBounded ==
  \A s \in Subjects, t \in 0 .. LastTick :
    Cardinality(AdmittedIn(s, t .. t + Window - 1)) <= 2 * Limit

\* Nobody is refused because of other subjects or other windows: the window
\* of a refused request has counted its limit, with or without an answer.
RefusedWindowWasFull ==
  \A r \in Requests :
    hit[r].pc = "refused" =>
      Cardinality({q \in Requests \ {r} : hit[q].key = hit[r].key /\ hit[q].pc # "counting"}) >= Limit

\* The limits hold, in a window and across two, and refuse nobody else.
LimitsHold == RateTypeOK /\ WindowBounded /\ SpanBounded /\ RefusedWindowWasFull

============================================================================

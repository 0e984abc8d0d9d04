--------------------------- MODULE VoiceWaitlist ---------------------------
(***************************************************************************)
(* The callers of the access engine, and what they wait for.               *)
(*                                                                         *)
(* One operation of services/access.py is one step here (VoiceAccess has   *)
(* their Redis commands), driven by the browser hook of the test console   *)
(* (use-voice-session.ts): it polls acquire while queued, heartbeats while *)
(* live and releases when the caller stops.  A browser may also vanish: no *)
(* release is sent, the lease runs out, and nothing removes a queue entry. *)
(* Time is left out: a lease expires only once its caller has vanished,    *)
(* because 45 s heartbeats keep a 360 s lease alive.                       *)
(***************************************************************************)
EXTENDS Integers, Sequences, FiniteSets, SequencesExt

CONSTANTS
  Tenants,
  Priority,   \* allowlisted tenants
  Cap,        \* MAX_CONCURRENT_VOICE
  MaxGhosts   \* how many callers may be vanished and still queued at a time

ASSUME WaitlistAssumption ==
  /\ IsFiniteSet(Tenants) /\ Priority \subseteq Tenants
  /\ Cap \in Nat /\ MaxGhosts \in Nat

VARIABLES
  browser,  \* phase of the hook: "away", "queued", "live", or "vanished"
  holders,  \* members of voice:active
  expired,  \* the holders whose score has passed, until some call purges them
  waiting   \* voice:queue in rank order

lineVars == <<browser, holders, expired, waiting>>

LineInit ==
  /\ browser = [k \in Tenants |-> "away"]
  /\ holders = {}
  /\ expired = {}
  /\ waiting = <<>>

Set(k, phase) == browser' = [browser EXCEPT ![k] = phase]

\* What acquire, heartbeat and status leave of voice:active before they act.
AfterPurge == holders \ expired

\* The queue once k is in it, at its old place if it had one.
Joined_AtFront(k) == IF k \in ToSet(waiting) THEN waiting ELSE <<k>> \o waiting
Joined(k) == IF k \in ToSet(waiting) THEN waiting ELSE Append(waiting, k)
RankIn(q, k) == (CHOOSE i \in DOMAIN q : q[i] = k) - 1

\* ZREM: a member has one place.
LeaveLine(k) ==
  waiting' = IF k \in ToSet(waiting) THEN RemoveAt(waiting, RankIn(waiting, k) + 1) ELSE waiting

Grant(k) ==
  /\ Set(k, "live")
  /\ holders' = AfterPurge \union {k}
  /\ LeaveLine(k)
  /\ expired' = {}

Acquire(k) ==
  IF \/ k \in AfterPurge
     \/ k \in Priority
     \/ RankIn(Joined(k), k) < Cap - Cardinality(AfterPurge)
  THEN Grant(k)
  ELSE /\ Set(k, "queued")
       /\ holders' = AfterPurge
       /\ waiting' = Joined(k)
       /\ expired' = {}

\* start() asks at once, and then every POLL_MS until it is granted.
Start(k) == browser[k] \in {"away", "vanished"} /\ Acquire(k)
Poll(k)  == browser[k] = "queued" /\ Acquire(k)

\* stop(), or leaving the page: the hook releases the slot or the place it has.
Stop(k) ==
  /\ browser[k] \in {"queued", "live"}
  /\ Set(k, "away")
  /\ holders' = holders \ {k}
  /\ expired' = expired \ {k}
  /\ LeaveLine(k)

Ghosts == {k \in ToSet(waiting) : browser[k] = "vanished"}

\* The browser or its network dies; the server learns nothing of it.
Vanish(k) ==
  /\ \/ browser[k] = "live"
     \/ browser[k] = "queued" /\ Cardinality(Ghosts) < MaxGhosts
  /\ Set(k, "vanished")
  /\ UNCHANGED <<holders, expired, waiting>>

Expire(k) ==
  /\ browser[k] = "vanished"
  /\ k \in holders
  /\ expired' = expired \union {k}
  /\ UNCHANGED <<browser, holders, waiting>>

LineNext ==
  \E k \in Tenants : Start(k) \/ Poll(k) \/ Stop(k) \/ Vanish(k) \/ Expire(k)

\* The hook polls every 5 s until it has an answer and a lease runs out by
\* itself.  Of the environment: calls end, even those that drop and reconnect
\* under the same lease (hence SF).  Nobody has to start, give up or return.
LineFairness ==
  \A k \in Tenants :
    /\ WF_lineVars(Poll(k))
    /\ WF_lineVars(Expire(k))
    /\ SF_lineVars(browser[k] = "live" /\ Stop(k))

LineSpec == LineInit /\ [][LineNext]_lineVars /\ LineFairness

----------------------------------------------------------------------------
(* Properties                                                              *)

\* A tenant has one place in the queue, a slot or a place but not both, and a
\* caller whose browser is live has a slot.
LineTypeOK ==
  /\ browser \in [Tenants -> {"away", "queued", "live", "vanished"}]
  /\ holders \subseteq Tenants
  /\ expired \subseteq holders
  /\ waiting \in Seq(Tenants) /\ IsInjective(waiting)
  /\ holders \intersect ToSet(waiting) = {}
  /\ \A k \in Tenants : browser[k] = "live" => k \in holders

HasRoom(k) ==
  /\ k \in ToSet(waiting)
  /\ RankIn(waiting, k) < Cap - Cardinality(holders \ expired)

PastTheLine == \E p \in Priority \ AfterPurge : p \in AfterPurge'

\* Once there is room for a waiter it stays so until the waiter is served:
\* those behind cannot take it, unless they are allowlisted, and those ahead make
\* up for what they take.
RoomStays ==
  \A k \in Tenants : HasRoom(k) => HasRoom(k)' \/ k \notin ToSet(waiting') \/ PastTheLine

RoomIsKept == [][RoomStays]_lineVars

\* access.py: "Extra users wait in a FIFO queue and are admitted as slots free
\* up."  A caller that keeps polling gets a slot, though callers hold slots,
\* vanish with them and wait ahead of it.  This needs fewer than Cap ghosts.
EveryWaiterServed ==
  \A k \in Tenants : browser[k] = "queued" ~> browser[k] # "queued"

\* The line moves on, in order.
LineKept == []LineTypeOK /\ RoomIsKept /\ EveryWaiterServed

============================================================================

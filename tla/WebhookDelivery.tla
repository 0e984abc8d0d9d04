-------------------------- MODULE WebhookDelivery --------------------------
(***************************************************************************)
(* Delivery of one workspace's events to its webhook endpoints             *)
(* (services/webhooks.py).  A lane is a place where one delivery at a time *)
(* runs: the background task of an event, or a "Test" request.  A delivery *)
(* is one database transaction around all its HTTP posts, so what it read  *)
(* at the start may be long stale when it writes, and a row it has written *)
(* stays locked until its last post is done (Postgres READ COMMITTED).     *)
(***************************************************************************)
EXTENDS Integers

CONSTANTS
  Endpoints,      \* ids of webhook_endpoint rows
  Lanes,          \* deliveries that can overlap
  Managers,       \* requests of owners and admins that can overlap
  Managed,        \* bound: the endpoints they change, in any way
  DisableAfter,   \* WEBHOOK_DISABLE_AFTER_FAILURES
  MaxAttempts,    \* WEBHOOK_MAX_ATTEMPTS
  MaxFailures     \* bound: with so many failures on record receivers answer 2xx

ASSUME ManagedAssumption == Managed \subseteq Endpoints
ASSUME LimitsAssumption ==
  DisableAfter \in Nat \ {0} /\ MaxAttempts \in Nat \ {0} /\ MaxFailures \in Nat

VARIABLES
  ep,       \* committed webhook_endpoint rows: exists, is_active, failure_count
  log,      \* failed rows in webhook_delivery, by endpoint
  lane,     \* the delivery of each lane
  manager   \* the PATCH each manager is in

vars == <<ep, log, lane, manager>>

Fresh == [exists |-> TRUE, active |-> TRUE, count |-> 0]
Gone  == [exists |-> FALSE, active |-> FALSE, count |-> 0]

\* todo: the endpoints it has yet to record, at: the one it is at, with its
\* tries and their outcome.  loaded: their rows, as read.  sent: those posted to.
\* wrote, row, failed: those flushed, with what was written, and which failed.
NoDelivery ==
  [pc |-> "idle", sent |-> {}, todo |-> {}, at |-> {}, tries |-> 0, ok |-> FALSE,
   loaded |-> [e \in Endpoints |-> Gone], row |-> [e \in Endpoints |-> Gone],
   wrote |-> {}, failed |-> {}]
NoPatch == [pc |-> "idle", target |-> {}, old |-> Gone, want |-> FALSE]

Init ==
  /\ ep = [e \in Endpoints |-> Fresh]
  /\ log = [e \in Endpoints |-> 0]
  /\ lane = [l \in Lanes |-> NoDelivery]
  /\ manager = [m \in Managers |-> NoPatch]

Idle(l) == lane[l].pc = "idle"

\* Another transaction has written the row and not ended.
LockedFor(l, e) == \E k \in Lanes \ {l} : ~Idle(k) /\ e \in lane[k].wrote
Locked(e) == \E k \in Lanes : ~Idle(k) /\ e \in lane[k].wrote

----------------------------------------------------------------------------
(* _deliver_event and send_test                                            *)

\* The delivery starts with the rows it reads now; later ones are not seen.
Deliver(l, targets) ==
  /\ Idle(l)
  /\ \E first \in targets :
       lane' = [lane EXCEPT ![l] = [NoDelivery EXCEPT
                  !.pc = "post", !.todo = targets, !.at = {first},
                  !.loaded = [e \in Endpoints |-> IF e \in targets THEN ep[e] ELSE Gone]]]
  /\ UNCHANGED <<ep, log, manager>>

\* An event goes to the active endpoints, or those of them that subscribe to it.
Emit(l) == \E targets \in SUBSET {e \in Endpoints : ep[e].active} : Deliver(l, targets)

\* The dashboard's "Test" goes to one endpoint, active or not.
SendTest(l) == \E e \in Endpoints : ep[e].exists /\ Deliver(l, {e})

\* A 2xx is a success; what may be temporary is tried again, up to a limit.
RetryBound_Off(tries) == TRUE
RetryBound(tries) == tries < MaxAttempts

\* What is final is recorded, whether it is a success or not.
AfterPost_PermanentDropped(again, answer) ==
  IF again THEN "post" ELSE IF answer = "permanent" THEN "commit" ELSE "record"
AfterPost(again, answer) == IF again THEN "post" ELSE "record"

\* A URL that may not be called is found out first, and not posted to at all.
Post(l, answer) ==
  /\ lane[l].pc = "post"
  /\ answer = "blocked" => lane[l].tries = 0
  /\ answer = "2xx" \/ \A e \in lane[l].at : log[e] < MaxFailures
  /\ LET tries == lane[l].tries + 1
         again == answer = "temporary" /\ RetryBound(tries)
     IN lane' = [lane EXCEPT ![l].pc = AfterPost(again, answer),
                             ![l].tries = IF again /\ tries < MaxAttempts THEN tries ELSE 0,
                             ![l].ok = answer = "2xx",
                             ![l].sent = IF answer = "blocked" THEN @ ELSE @ \union lane[l].at]
  /\ UNCHANGED <<ep, log, manager>>

\* failure_count after a delivery, from the row that was read before it.
NextCount_Decay(old, ok) == IF ok THEN old.count - 1 ELSE old.count + 1
NextCount_PerAttempt(old, ok) == IF ok THEN 0 ELSE old.count + MaxAttempts
NextCount(old, ok) == IF ok THEN 0 ELSE old.count + 1

\* The session writes the columns it has changed, and only those.
Written_WholeRow(old, now, ok) ==
  [old EXCEPT !.active = @ /\ (ok \/ NextCount(old, ok) < DisableAfter),
              !.count = NextCount(old, ok)]
Written(old, now, ok) ==
  [exists |-> now.exists,
   active |-> now.active /\ ~(old.active /\ ~ok /\ NextCount(old, ok) >= DisableAfter),
   count  |-> IF NextCount(old, ok) = old.count THEN now.count ELSE NextCount(old, ok)]

\* A delivery once the log row and the endpoint of e are flushed.
Recorded(d, e) ==
  [d EXCEPT !.todo = @ \ {e}, !.wrote = @ \union {e}, !.ok = FALSE,
            !.failed = IF d.ok THEN @ ELSE @ \union {e},
            !.loaded = [@ EXCEPT ![e] = Gone],
            !.row = [@ EXCEPT ![e] = Written(d.loaded[e], ep[e], d.ok)]]

\* The flush waits for the row's lock; then comes the next endpoint, if any.
Record(l) ==
  /\ lane[l].pc = "record"
  /\ \E e \in lane[l].at :
       /\ ep[e].exists
       /\ ~LockedFor(l, e)
       /\ LET next == Recorded(lane[l], e) IN
          \/ /\ next.todo = {}
             /\ lane' = [lane EXCEPT ![l] = [next EXCEPT !.pc = "commit", !.at = {}]]
          \/ \E f \in next.todo : lane' = [lane EXCEPT ![l] = [next EXCEPT !.pc = "post", !.at = {f}]]
  /\ UNCHANGED <<ep, log, manager>>

End(l) == lane' = [lane EXCEPT ![l] = NoDelivery]

Commit(l) ==
  /\ lane[l].pc = "commit"
  /\ LET d == lane[l] IN
       /\ ep' = [e \in Endpoints |-> IF e \in d.wrote THEN d.row[e] ELSE ep[e]]
       /\ log' = [e \in Endpoints |-> IF e \in d.failed THEN log[e] + 1 ELSE log[e]]
  /\ End(l)
  /\ UNCHANGED manager

\* An error in any step is logged, and rolls the whole transaction back.
Abort(l) == End(l) /\ UNCHANGED <<ep, log, manager>>

\* The row to be written is gone: the flush fails and the transaction with it.
RowIsGone(l) ==
  /\ lane[l].pc = "record"
  /\ \A e \in lane[l].at : ~ep[e].exists
  /\ Abort(l)

\* Transactions wait for each other in a circle: Postgres aborts one of them.
DeadlockVictim(l) ==
  /\ \E circle \in SUBSET Lanes :
       /\ l \in circle
       /\ \A k \in circle :
            /\ lane[k].pc = "record"
            /\ \E other \in circle \ {k} : lane[k].at \subseteq lane[other].wrote
  /\ Abort(l)

\* The process is killed, or shuts down before the task is done (drain).
Kill(l) == ~Idle(l) /\ Abort(l)

----------------------------------------------------------------------------
(* The dashboard                                                           *)

\* update_endpoint: reads the row, and may resolve the new URL's host.
OpenPatch(m, e, want) ==
  /\ manager[m].pc = "idle"
  /\ ep[e].exists
  /\ manager' = [manager EXCEPT ![m] =
                   [pc |-> "saving", target |-> {e}, old |-> ep[e], want |-> want]]
  /\ UNCHANGED <<ep, log, lane>>

\* ... and writes the columns it has changed, if the row still exists,
Patched(now, old, want) ==
  [exists |-> now.exists,
   active |-> IF want = old.active \/ ~now.exists THEN now.active ELSE want,
   count  |-> IF want /\ old.count # 0 THEN 0 ELSE now.count]

\* when the row's lock is free.
SavePatch(m) ==
  /\ manager[m].pc = "saving"
  /\ \E e \in Endpoints :
       /\ manager[m].target = {e} /\ ~Locked(e)
       /\ ep' = [ep EXCEPT ![e] = Patched(@, manager[m].old, manager[m].want)]
  /\ manager' = [manager EXCEPT ![m] = NoPatch]
  /\ UNCHANGED <<log, lane>>

\* The log rows of the endpoint go with it.
Delete(m, e) ==
  /\ manager[m].pc = "idle"
  /\ ep[e].exists /\ ~Locked(e)
  /\ ep' = [ep EXCEPT ![e] = Gone]
  /\ log' = [log EXCEPT ![e] = 0]
  /\ UNCHANGED <<lane, manager>>

\* A new endpoint has a new id, which nothing in flight refers to.
Create(m, e) ==
  /\ manager[m].pc = "idle"
  /\ ~ep[e].exists
  /\ \A l \in Lanes : Idle(l) \/ e \notin lane[l].todo \union lane[l].wrote
  /\ \A n \in Managers : e \notin manager[n].target
  /\ ep' = [ep EXCEPT ![e] = Fresh]
  /\ UNCHANGED <<log, lane, manager>>

Manage(m) ==
  \/ \E e \in Managed :
       \/ \E want \in BOOLEAN : OpenPatch(m, e, want)
       \/ Delete(m, e) \/ Create(m, e)
  \/ SavePatch(m)

\* The steps that a delivery takes by itself once it has started.
Advance(l) ==
  \/ \E answer \in {"2xx", "temporary", "permanent", "blocked"} : Post(l, answer)
  \/ Record(l) \/ Commit(l) \/ RowIsGone(l) \/ DeadlockVictim(l)

Next ==
  \/ \E l \in Lanes : Emit(l) \/ SendTest(l) \/ Advance(l) \/ Kill(l)
  \/ \E m \in Managers : Manage(m)

\* Posts time out, backoff sleeps end, and Postgres breaks deadlocks; it also
\* queues those that wait for a row's lock, so each gets it in the end (SF).
Fairness == \A l \in Lanes : WF_vars(Advance(l)) /\ SF_vars(Record(l))

Spec == Init /\ [][Next]_vars /\ Fairness

----------------------------------------------------------------------------
(* Properties                                                              *)

RowType == [exists : BOOLEAN, active : BOOLEAN, count : Nat]

\* Rows and deliveries are well formed; no row is written by two open
\* transactions, and one that is being written is not deleted.
TypeOK ==
  /\ ep \in [Endpoints -> RowType]
  /\ log \in [Endpoints -> Nat]
  /\ lane \in [Lanes -> [pc : {"idle", "post", "record", "commit"},
                         sent : SUBSET Endpoints, todo : SUBSET Endpoints,
                         at : SUBSET Endpoints, tries : 0 .. MaxAttempts, ok : BOOLEAN,
                         loaded : [Endpoints -> RowType], row : [Endpoints -> RowType],
                         wrote : SUBSET Endpoints, failed : SUBSET Endpoints]]
  /\ manager \in [Managers -> [pc : {"idle", "saving"}, target : SUBSET Endpoints,
                               old : RowType, want : BOOLEAN]]
  /\ \A l \in Lanes : ~Idle(l) =>
       \A e \in lane[l].wrote : ep[e].exists /\ ~LockedFor(l, e)

\* Only a manager who enables an endpoint makes it active: a delivery that has
\* read the row before it was paused does not bring it back.
PausedStaysPaused ==
  [][\A e \in Endpoints :
       ep[e].exists /\ ~ep[e].active /\ ep'[e].active =>
         \E m \in Managers : manager[m].target = {e} /\ manager[m].want /\ manager' # manager]_vars

\* Updates may be lost or come late, yet failure_count never exceeds the
\* failed deliveries the log shows, so none disables an endpoint too early
\* that has failed fewer than DisableAfter times in all.
CountBackedByLog == \A e \in Endpoints : ep[e].count <= log[e]

\* docs/17: "Every delivery is recorded in webhook_delivery".  A delivery that
\* gets to its commit has a row for each endpoint it has posted to, whatever
\* the receivers answered, however often they were tried, and whichever
\* endpoints were deleted or paused meanwhile.
EveryPostRecorded ==
  \A l \in Lanes : lane[l].pc = "commit" => lane[l].sent \subseteq lane[l].wrote

\* No lane is busy for ever: deliveries end, whatever receivers answer and however
\* they lock each other's rows.
EveryDeliveryEnds == \A l \in Lanes : []<>Idle(l)

============================================================================

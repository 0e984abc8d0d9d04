----------------------- MODULE WebhookDelivery_proofs -----------------------
(***************************************************************************)
(* Theorems about WebhookDelivery, for any number of endpoints, of         *)
(* overlapping deliveries and of managers, and all limits.                 *)
(***************************************************************************)
EXTENDS WebhookDelivery, TLAPS

USE LimitsAssumption, ManagedAssumption

LaneType == [pc : {"idle", "post", "record", "commit"},
             sent : SUBSET Endpoints, todo : SUBSET Endpoints,
             at : SUBSET Endpoints, tries : 0 .. MaxAttempts, ok : BOOLEAN,
             loaded : [Endpoints -> RowType], row : [Endpoints -> RowType],
             wrote : SUBSET Endpoints, failed : SUBSET Endpoints]

\* What a delivery in flight has read and written, against the committed rows.
\* A count it read is backed by the log while the row exists: a new row with
\* the same id cannot appear before the delivery ends.  A row that it wrote
\* counts at most its own failure more than the log, and is active only if the
\* committed row is, which its lock keeps as it was.
Sound(d) ==
  /\ d.at \subseteq d.todo
  /\ \A e \in d.todo : ep[e].exists => d.loaded[e].count <= log[e]
  /\ \A e \in d.wrote :
       /\ ep[e].exists /\ d.row[e].exists
       /\ d.row[e].active => ep[e].active
       /\ d.row[e].count <= IF e \in d.failed THEN log[e] + 1 ELSE log[e]

IInv ==
  /\ TypeOK
  /\ CountBackedByLog
  /\ \A l \in Lanes : ~Idle(l) => Sound(lane[l])

LEMMA GoneIsRow == Gone \in RowType /\ Fresh \in RowType /\ Gone.count = 0 /\ Fresh.count = 0
  BY DEF Gone, Fresh, RowType

LEMMA NoDeliveryIsLane ==
  /\ NoDelivery \in LaneType
  /\ NoDelivery.pc = "idle" /\ NoDelivery.wrote = {}
  BY GoneIsRow DEF NoDelivery, LaneType

LEMMA InvInit == Init => IInv
<1> SUFFICES ASSUME Init PROVE IInv
  OBVIOUS
<1>1. \A l \in Lanes : lane[l] = NoDelivery
  BY DEF Init
<1>2. TypeOK
  BY <1>1, GoneIsRow, NoDeliveryIsLane DEF Init, TypeOK, LaneType, NoPatch, Idle
<1>3. CountBackedByLog
  <2>1. \A e \in Endpoints : ep[e] = Fresh /\ log[e] = 0
    BY DEF Init
  <2>2. \A e \in Endpoints : ep[e].count = 0
    BY <2>1, GoneIsRow, Zenon
  <2>3. ASSUME NEW e \in Endpoints PROVE ep[e].count <= log[e]
    <3>1. ep[e].count = 0 /\ log[e] = 0
      BY <2>1, <2>2
    <3> QED
      BY <3>1
  <2> QED
    BY <2>3 DEF CountBackedByLog
<1> QED
  BY <1>1, <1>2, <1>3, NoDeliveryIsLane DEF IInv, Idle

\* A step of one delivery that commits nothing keeps the invariant if what the
\* delivery becomes is sound and shares no written row with another one.
LEMMA OneLane ==
  ASSUME IInv, NEW l \in Lanes, NEW new \in LaneType,
         lane' = [lane EXCEPT ![l] = new], UNCHANGED <<ep, log, manager>>,
         new.pc # "idle" => Sound(new) /\ \A e \in new.wrote : ~LockedFor(l, e)
  PROVE  IInv'
<1>1. \A k \in Lanes : lane'[k] = IF k = l THEN new ELSE lane[k]
  BY DEF IInv, TypeOK
<1>2. lane' \in [Lanes -> LaneType]
  BY <1>1 DEF IInv, TypeOK, LaneType
<1>3. \A k \in Lanes : ~Idle(k)' => Sound(lane[k])'
  BY <1>1 DEF Idle, IInv, Sound
<1>4. ASSUME NEW k \in Lanes, ~Idle(k)', NEW e \in lane'[k].wrote
      PROVE  ep'[e].exists /\ ~LockedFor(k, e)'
  <2>1. CASE k = l
    BY <1>1, <1>4, <2>1 DEF Idle, LockedFor, Sound
  <2>2. CASE k # l
    <3>1. ~Idle(k) /\ e \in lane[k].wrote /\ ep[e].exists /\ ~LockedFor(k, e)
      BY <1>1, <1>4, <2>2 DEF Idle, IInv, TypeOK
    <3>2. ~ (new.pc # "idle" /\ e \in new.wrote)
      BY <3>1, <2>2 DEF LockedFor
    <3> QED
      BY <1>1, <3>1, <3>2 DEF Idle, LockedFor
  <2> QED
    BY <2>1, <2>2
<1>5. TypeOK'
  BY <1>2, <1>4 DEF IInv, TypeOK, LaneType
<1> QED
  BY <1>3, <1>5 DEF IInv, CountBackedByLog

LEMMA AbortKeeps ==
  ASSUME IInv, NEW l \in Lanes, Abort(l)
  PROVE  IInv'
  BY OneLane, NoDeliveryIsLane DEF Abort, End

----------------------------------------------------------------------------
(* The steps of a delivery                                                 *)

LEMMA DeliverKeeps ==
  ASSUME IInv, NEW l \in Lanes, NEW targets \in SUBSET Endpoints, Deliver(l, targets)
  PROVE  IInv'
<1>1. PICK first \in targets :
        lane' = [lane EXCEPT ![l] = [NoDelivery EXCEPT
                   !.pc = "post", !.todo = targets, !.at = {first},
                   !.loaded = [e \in Endpoints |-> IF e \in targets THEN ep[e] ELSE Gone]]]
  BY DEF Deliver
<1> DEFINE read == [e \in Endpoints |-> IF e \in targets THEN ep[e] ELSE Gone]
           new == [NoDelivery EXCEPT !.pc = "post", !.todo = targets, !.at = {first},
                                     !.loaded = read]
<1>2. read \in [Endpoints -> RowType] /\ \A e \in targets : read[e] = ep[e]
  BY GoneIsRow DEF IInv, TypeOK
<1> HIDE DEF read
<1>3. /\ new \in LaneType
      /\ new.at = {first} /\ new.todo = targets /\ new.loaded = read /\ new.wrote = {}
  BY <1>2, NoDeliveryIsLane DEF LaneType
<1>4. lane' = [lane EXCEPT ![l] = new]
  BY <1>1 DEF read
<1> HIDE DEF new
<1>5. Sound(new)
  BY <1>2, <1>3 DEF Sound, IInv, CountBackedByLog
<1> QED
  BY <1>3, <1>4, <1>5, OneLane DEF Deliver

LEMMA PostKeeps ==
  ASSUME IInv, NEW l \in Lanes, NEW answer, Post(l, answer)
  PROVE  IInv'
<1> DEFINE tries == lane[l].tries + 1
           again == answer = "temporary" /\ RetryBound(tries)
           new == [lane[l] EXCEPT
                    !.pc = AfterPost(again, answer),
                    !.tries = IF again /\ tries < MaxAttempts THEN tries ELSE 0,
                    !.ok = answer = "2xx",
                    !.sent = IF answer = "blocked" THEN @ ELSE @ \union lane[l].at]
<1>1. lane[l] \in LaneType
  BY DEF IInv, TypeOK, LaneType
<1>2. lane' = [lane EXCEPT ![l] = new] /\ UNCHANGED <<ep, log, manager>>
  BY <1>1 DEF Post, LaneType, IInv, TypeOK
<1>3. AfterPost(again, answer) \in {"post", "record"}
  BY DEF AfterPost
<1>4. (IF again /\ tries < MaxAttempts THEN tries ELSE 0) \in 0 .. MaxAttempts
  BY <1>1 DEF LaneType
<1>5. /\ new \in LaneType
      /\ new.at = lane[l].at /\ new.todo = lane[l].todo /\ new.loaded = lane[l].loaded
      /\ new.wrote = lane[l].wrote /\ new.row = lane[l].row /\ new.failed = lane[l].failed
  BY <1>1, <1>3, <1>4 DEF LaneType
<1> HIDE DEF new
<1>6. ~Idle(l)
  BY DEF Post, Idle
<1>7. Sound(new) /\ \A e \in new.wrote : ~LockedFor(l, e)
  BY <1>5, <1>6 DEF Sound, IInv, TypeOK
<1> QED
  BY <1>2, <1>5, <1>7, OneLane

\* A row is written from what was read of it long before, and what it is now.
LEMMA WrittenIsBacked ==
  ASSUME NEW old \in RowType, NEW now \in RowType, NEW ok \in BOOLEAN, NEW n \in Nat,
         now.exists, old.count <= n, now.count <= n
  PROVE  /\ Written(old, now, ok) \in RowType
         /\ Written(old, now, ok).exists
         /\ Written(old, now, ok).active => now.active
         /\ Written(old, now, ok).count <= IF ok THEN n ELSE n + 1
<1>1. /\ NextCount(old, ok) \in Nat
      /\ NextCount(old, ok) <= IF ok THEN n ELSE n + 1
  BY DEF NextCount, RowType
<1> DEFINE active == now.active /\ ~(old.active /\ ~ok /\ NextCount(old, ok) >= DisableAfter)
           count == IF NextCount(old, ok) = old.count THEN now.count ELSE NextCount(old, ok)
<1>2. Written(old, now, ok) = [exists |-> now.exists, active |-> active, count |-> count]
  BY DEF Written, RowType
<1>3. active \in BOOLEAN /\ count \in Nat /\ count <= IF ok THEN n ELSE n + 1
  BY <1>1 DEF RowType
<1>4. active => now.active
  OBVIOUS
<1> HIDE DEF active, count
<1> QED
  BY <1>2, <1>3, <1>4 DEF RowType

\* What recording an endpoint does to each part of a delivery.
LEMMA RecordedParts ==
  ASSUME TypeOK, NEW d \in LaneType, NEW e \in Endpoints,
         Written(d.loaded[e], ep[e], d.ok) \in RowType
  PROVE  /\ Recorded(d, e) \in LaneType
         /\ Recorded(d, e).todo = d.todo \ {e}
         /\ Recorded(d, e).wrote = d.wrote \union {e}
         /\ Recorded(d, e).failed = IF d.ok THEN d.failed ELSE d.failed \union {e}
         /\ Recorded(d, e).loaded = [d.loaded EXCEPT ![e] = Gone]
         /\ Recorded(d, e).row = [d.row EXCEPT ![e] = Written(d.loaded[e], ep[e], d.ok)]
<1> DEFINE loaded == [d.loaded EXCEPT ![e] = Gone]
           row == [d.row EXCEPT ![e] = Written(d.loaded[e], ep[e], d.ok)]
           failed == IF d.ok THEN d.failed ELSE d.failed \union {e}
<1>1. loaded \in [Endpoints -> RowType] /\ row \in [Endpoints -> RowType]
      /\ failed \in SUBSET Endpoints
  BY GoneIsRow DEF LaneType
<1>2. Recorded(d, e) = [d EXCEPT !.todo = d.todo \ {e}, !.wrote = d.wrote \union {e},
                                 !.ok = FALSE, !.failed = failed,
                                 !.loaded = loaded, !.row = row]
  BY Zenon DEF Recorded
<1> HIDE DEF loaded, row, failed
<1>3. d = [pc |-> d.pc, sent |-> d.sent, todo |-> d.todo, at |-> d.at, tries |-> d.tries,
           ok |-> d.ok, loaded |-> d.loaded, row |-> d.row, wrote |-> d.wrote,
           failed |-> d.failed]
  BY DEF LaneType
<1>4. Recorded(d, e) =
        [pc |-> d.pc, sent |-> d.sent, todo |-> d.todo \ {e}, at |-> d.at, tries |-> d.tries,
         ok |-> FALSE, loaded |-> loaded, row |-> row, wrote |-> d.wrote \union {e},
         failed |-> failed]
  BY <1>2, <1>3
<1>5. /\ Recorded(d, e) \in LaneType
      /\ Recorded(d, e).todo = d.todo \ {e} /\ Recorded(d, e).wrote = d.wrote \union {e}
      /\ Recorded(d, e).failed = failed
      /\ Recorded(d, e).loaded = loaded /\ Recorded(d, e).row = row
  BY <1>1, <1>4 DEF LaneType
<1> QED
  BY <1>5 DEF loaded, row, failed

LEMMA RecordKeeps ==
  ASSUME IInv, NEW l \in Lanes, Record(l)
  PROVE  IInv'
<1> DEFINE d == lane[l]
<1>1. d \in LaneType /\ ~Idle(l) /\ TypeOK
  BY DEF Record, Idle, IInv, TypeOK, LaneType
<1>2. PICK e \in d.at, pc \in {"post", "commit"}, at \in SUBSET Endpoints :
        /\ at \subseteq Recorded(d, e).todo
        /\ ep[e].exists
        /\ ~LockedFor(l, e)
        /\ lane' = [lane EXCEPT ![l] = [Recorded(d, e) EXCEPT !.pc = pc, !.at = at]]
  <2>1. PICK e \in d.at :
          /\ ep[e].exists /\ ~LockedFor(l, e)
          /\ \/ lane' = [lane EXCEPT ![l] = [Recorded(d, e) EXCEPT !.pc = "commit", !.at = {}]]
             \/ \E f \in Recorded(d, e).todo :
                  lane' = [lane EXCEPT ![l] = [Recorded(d, e) EXCEPT !.pc = "post", !.at = {f}]]
    BY DEF Record
  <2>2. Recorded(d, e).todo \subseteq Endpoints
    BY <1>1 DEF Recorded, LaneType
  <2> QED
    BY <2>1, <2>2
<1>3. e \in Endpoints /\ e \in d.todo /\ d.loaded[e].count <= log[e] /\ Sound(d)
  BY <1>1, <1>2 DEF IInv, Sound, LaneType
<1> DEFINE written == Written(d.loaded[e], ep[e], d.ok)
<1>4. /\ written \in RowType /\ written.exists /\ (written.active => ep[e].active)
      /\ written.count <= IF d.ok THEN log[e] ELSE log[e] + 1
  <2>1. d.loaded[e] \in RowType /\ ep[e] \in RowType /\ d.ok \in BOOLEAN /\ log[e] \in Nat
    BY <1>1, <1>3 DEF LaneType, IInv, TypeOK
  <2>2. ep[e].count <= log[e]
    BY <1>3 DEF IInv, CountBackedByLog
  <2> QED
    BY <1>2, <1>3, <2>1, <2>2, WrittenIsBacked
<1> DEFINE next == Recorded(d, e)
           new == [next EXCEPT !.pc = pc, !.at = at]
<1>5. /\ next \in LaneType
      /\ next.todo = d.todo \ {e}
      /\ next.wrote = d.wrote \union {e}
      /\ next.failed = IF d.ok THEN d.failed ELSE d.failed \union {e}
      /\ next.loaded = [d.loaded EXCEPT ![e] = Gone]
      /\ next.row = [d.row EXCEPT ![e] = written]
  BY <1>1, <1>3, <1>4, RecordedParts
<1>10. at \subseteq next.todo /\ lane' = [lane EXCEPT ![l] = new]
  BY <1>2
<1> HIDE DEF next, written
<1>6. /\ new \in LaneType /\ new.at \subseteq new.todo
      /\ new.todo = next.todo /\ new.wrote = next.wrote /\ new.failed = next.failed
      /\ new.loaded = next.loaded /\ new.row = next.row
  BY <1>5, <1>10 DEF LaneType
<1> HIDE DEF new
<1>7. ASSUME NEW g \in new.wrote
      PROVE  /\ ep[g].exists /\ new.row[g].exists /\ (new.row[g].active => ep[g].active)
             /\ new.row[g].count <= IF g \in new.failed THEN log[g] + 1 ELSE log[g]
             /\ ~LockedFor(l, g)
  <2>1. CASE g = e
    <3>1. new.row[g] = written
      BY <1>1, <1>3, <1>5, <1>6, <2>1 DEF LaneType
    <3>2. d.ok \/ e \in new.failed
      BY <1>5, <1>6
    <3>3. log[e] \in Nat /\ written.count \in Nat
      BY <1>1, <1>3, <1>4 DEF TypeOK, RowType
    <3> QED
      BY <1>2, <1>4, <2>1, <3>1, <3>2, <3>3
  <2>2. CASE g # e
    <3>1. g \in d.wrote /\ new.row[g] = d.row[g] /\ (g \in new.failed <=> g \in d.failed)
      BY <1>1, <1>5, <1>6, <1>7, <2>2 DEF LaneType
    <3> QED
      BY <1>1, <1>3, <3>1 DEF Sound, IInv, TypeOK
  <2> QED
    BY <2>1, <2>2
<1>8. \A g \in new.todo : ep[g].exists => new.loaded[g].count <= log[g]
  BY <1>1, <1>3, <1>5, <1>6 DEF Sound, LaneType
<1>9. Sound(new) /\ \A g \in new.wrote : ~LockedFor(l, g)
  BY <1>6, <1>7, <1>8 DEF Sound
<1> QED
  BY <1>6, <1>9, <1>10, OneLane DEF Record

LEMMA CommitKeeps ==
  ASSUME IInv, NEW l \in Lanes, Commit(l)
  PROVE  IInv'
<1> DEFINE d == lane[l]
<1>1. /\ ep' = [e \in Endpoints |-> IF e \in d.wrote THEN d.row[e] ELSE ep[e]]
      /\ log' = [e \in Endpoints |-> IF e \in d.failed THEN log[e] + 1 ELSE log[e]]
      /\ lane' = [lane EXCEPT ![l] = NoDelivery] /\ manager' = manager
  BY DEF Commit, End
<1>2. d \in LaneType /\ ~Idle(l) /\ Sound(d) /\ TypeOK
  BY DEF Commit, Idle, IInv, TypeOK, LaneType
<1>3. \A k \in Lanes : lane'[k] = IF k = l THEN NoDelivery ELSE lane[k]
  BY <1>1, <1>2 DEF TypeOK
<1>4. \A e \in Endpoints : log[e] \in Nat /\ log'[e] \in Nat /\ log[e] <= log'[e]
  BY <1>1, <1>2 DEF TypeOK
<1>5. ep' \in [Endpoints -> RowType]
  BY <1>1, <1>2 DEF TypeOK, LaneType
<1>6. CountBackedByLog'
  <2>1. ASSUME NEW e \in Endpoints, e \in d.wrote PROVE ep'[e].count <= log'[e]
    BY <1>1, <1>2, <2>1 DEF Sound
  <2>2. ASSUME NEW e \in Endpoints, e \notin d.wrote PROVE ep'[e].count <= log'[e]
    <3>1. ep'[e] = ep[e] /\ ep[e].count <= log[e] /\ ep[e].count \in Nat
      BY <1>1, <1>2, <2>2 DEF IInv, CountBackedByLog, TypeOK, RowType
    <3> QED
      BY <1>4, <3>1
  <2> QED
    BY <2>1, <2>2 DEF CountBackedByLog
\* The other deliveries hold locks on other rows, and see none appear.
<1>7. ASSUME NEW k \in Lanes, ~Idle(k)'
      PROVE  /\ k # l /\ ~Idle(k) /\ lane'[k] = lane[k] /\ Sound(lane[k])
             /\ lane[k] \in LaneType /\ lane[k].wrote \intersect d.wrote = {}
             /\ \A e \in lane[k].wrote : ep[e].exists /\ ~LockedFor(k, e)
  <2>1. k # l /\ lane'[k] = lane[k] /\ ~Idle(k)
    BY <1>3, <1>7, NoDeliveryIsLane DEF Idle
  <2>2. lane[k] \in LaneType /\ Sound(lane[k])
        /\ \A e \in lane[k].wrote : ep[e].exists /\ ~LockedFor(k, e)
    BY <2>1 DEF IInv, TypeOK, LaneType
  <2> QED
    BY <1>2, <2>1, <2>2 DEF LockedFor
<1>8. ASSUME NEW k \in Lanes, ~Idle(k)'
      PROVE  Sound(lane[k])'
  <2> DEFINE c == lane[k]
  <2>1. c \in LaneType /\ Sound(c) /\ lane'[k] = c
    BY <1>7, <1>8
  <2>2. ASSUME NEW e \in c.todo, ep'[e].exists PROVE c.loaded[e].count <= log'[e]
    <3>1. e \in Endpoints /\ c.loaded[e].count \in Nat
      BY <2>1 DEF LaneType, RowType
    <3>2. ep[e].exists
      BY <1>1, <1>2, <2>2, <3>1 DEF Sound
    <3> QED
      BY <1>4, <2>1, <3>1, <3>2 DEF Sound
  <2>3. ASSUME NEW e \in c.wrote
        PROVE  /\ ep'[e].exists /\ c.row[e].exists
               /\ (c.row[e].active => ep'[e].active)
               /\ c.row[e].count <= IF e \in c.failed THEN log'[e] + 1 ELSE log'[e]
    <3>1. e \in Endpoints /\ c.row[e].count \in Nat
      BY <2>1 DEF LaneType, RowType
    <3>2. ep'[e] = ep[e]
      BY <1>1, <1>7, <1>8, <3>1
    <3> QED
      BY <1>4, <2>1, <3>1, <3>2 DEF Sound
  <2> HIDE DEF c
  <2>4. Sound(c)'
    BY <2>1, <2>2, <2>3 DEF Sound, c
  <2> QED
    BY <2>1, <2>2, <2>3 DEF Sound
<1>9. TypeOK'
  <2>1. lane' \in [Lanes -> LaneType]
    BY <1>1, <1>2, NoDeliveryIsLane DEF TypeOK, LaneType
  <2>2. log' \in [Endpoints -> Nat]
    BY <1>1, <1>4
  <2>3. ASSUME NEW k \in Lanes, ~Idle(k)', NEW e \in lane'[k].wrote
        PROVE  ep'[e].exists /\ ~LockedFor(k, e)'
    <3>1. e \in Endpoints /\ e \notin d.wrote /\ ep[e].exists /\ ~LockedFor(k, e)
      BY <1>7, <2>3 DEF LaneType
    <3>2. ~LockedFor(k, e)'
      BY <1>3, <3>1, NoDeliveryIsLane DEF LockedFor, Idle
    <3> QED
      BY <1>1, <3>1, <3>2
  <2> QED
    BY <1>1, <1>2, <1>5, <2>1, <2>2, <2>3 DEF TypeOK, LaneType
<1> QED
  BY <1>6, <1>8, <1>9 DEF IInv

----------------------------------------------------------------------------
(* The dashboard                                                           *)

LEMMA OpenPatchKeeps ==
  ASSUME IInv, NEW m \in Managers, NEW e \in Endpoints, NEW want \in BOOLEAN,
         OpenPatch(m, e, want)
  PROVE  IInv'
<1> DEFINE patch == [pc |-> "saving", target |-> {e}, old |-> ep[e], want |-> want]
<1>1. patch \in [pc : {"idle", "saving"}, target : SUBSET Endpoints, old : RowType, want : BOOLEAN]
  BY DEF IInv, TypeOK
<1>2. manager' = [manager EXCEPT ![m] = patch] /\ UNCHANGED <<ep, log, lane>>
  BY DEF OpenPatch
<1> HIDE DEF patch
<1> QED
  BY <1>1, <1>2 DEF IInv, TypeOK, Idle, LockedFor, Sound, CountBackedByLog

\* A manager replaces one row that no delivery has locked.
LEMMA OneRow ==
  ASSUME IInv, NEW e \in Endpoints, NEW new \in RowType, NEW n \in Nat, ~Locked(e),
         ep' = [ep EXCEPT ![e] = new], log' = [log EXCEPT ![e] = n], lane' = lane,
         manager' \in [Managers -> [pc : {"idle", "saving"}, target : SUBSET Endpoints,
                                    old : RowType, want : BOOLEAN]],
         new.count <= n,
         \A l \in Lanes : ~Idle(l) /\ e \in lane[l].todo /\ new.exists =>
           ep[e].exists /\ n = log[e]
  PROVE  IInv'
<1>1. \A f \in Endpoints \ {e} : ep'[f] = ep[f] /\ log'[f] = log[f]
  BY DEF IInv, TypeOK
<1>2. ep'[e] = new /\ log'[e] = n
  BY DEF IInv, TypeOK
<1>3. \A l \in Lanes : ~Idle(l) =>
        lane[l] \in LaneType /\ Sound(lane[l]) /\ e \notin lane[l].wrote
  BY DEF IInv, TypeOK, LaneType, Locked
<1>4. CountBackedByLog'
  BY <1>1, <1>2 DEF IInv, CountBackedByLog
<1>5. TypeOK'
  <2>1. ep' \in [Endpoints -> RowType] /\ log' \in [Endpoints -> Nat]
    BY DEF IInv, TypeOK
  <2>2. ASSUME NEW l \in Lanes, ~Idle(l)', NEW f \in lane'[l].wrote
        PROVE  ep'[f].exists /\ ~LockedFor(l, f)'
    <3>1. ~Idle(l) /\ f \in lane[l].wrote /\ f \in Endpoints \ {e}
      BY <1>3, <2>2 DEF Idle, LaneType
    <3>2. ep[f].exists /\ ~LockedFor(l, f)
      BY <3>1 DEF IInv, TypeOK
    <3> QED
      BY <1>1, <3>1, <3>2 DEF LockedFor, Idle
  <2> QED
    BY <2>1, <2>2 DEF IInv, TypeOK, Idle
<1>6. ASSUME NEW l \in Lanes, ~Idle(l)' PROVE Sound(lane[l])'
  <2> DEFINE d == lane[l]
  <2>1. ~Idle(l) /\ d \in LaneType /\ Sound(d) /\ e \notin d.wrote /\ lane'[l] = d
    BY <1>3, <1>6 DEF Idle
  <2>2. ASSUME NEW f \in d.todo, ep'[f].exists PROVE d.loaded[f].count <= log'[f]
    BY <1>1, <1>2, <2>1, <2>2 DEF Sound, LaneType
  <2>3. \A f \in d.wrote : f \in Endpoints \ {e}
    BY <2>1 DEF LaneType
  <2> QED
    BY <1>1, <2>1, <2>2, <2>3 DEF Sound
<1> QED
  BY <1>4, <1>5, <1>6 DEF IInv

LEMMA SavePatchKeeps ==
  ASSUME IInv, NEW m \in Managers, SavePatch(m)
  PROVE  IInv'
<1>1. PICK e \in Endpoints :
        ~Locked(e) /\ ep' = [ep EXCEPT ![e] = Patched(ep[e], manager[m].old, manager[m].want)]
  BY DEF SavePatch
<1>2. /\ ep[e] \in RowType /\ log[e] \in Nat /\ ep[e].count <= log[e]
      /\ manager[m].want \in BOOLEAN /\ manager[m].old \in RowType
  BY DEF IInv, TypeOK, CountBackedByLog
<1> DEFINE new == Patched(ep[e], manager[m].old, manager[m].want)
<1>3. new \in RowType /\ new.count <= log[e] /\ new.exists = ep[e].exists
  BY <1>2 DEF Patched, RowType
<1>4. ep' = [ep EXCEPT ![e] = new]
  BY <1>1
<1> HIDE DEF new
<1>5. log' = [log EXCEPT ![e] = log[e]] /\ lane' = lane
  BY DEF SavePatch, IInv, TypeOK
<1>6. manager' \in [Managers -> [pc : {"idle", "saving"}, target : SUBSET Endpoints,
                                 old : RowType, want : BOOLEAN]]
  BY GoneIsRow DEF SavePatch, NoPatch, IInv, TypeOK
<1> QED
  BY <1>1, <1>2, <1>3, <1>4, <1>5, <1>6, OneRow

LEMMA DeleteKeeps ==
  ASSUME IInv, NEW m \in Managers, NEW e \in Endpoints, Delete(m, e)
  PROVE  IInv'
<1>1. ~Gone.exists
  BY DEF Gone
<1>2. /\ ~Locked(e) /\ ep' = [ep EXCEPT ![e] = Gone] /\ log' = [log EXCEPT ![e] = 0]
      /\ lane' = lane /\ manager' = manager
  BY DEF Delete
<1>3. manager' \in [Managers -> [pc : {"idle", "saving"}, target : SUBSET Endpoints,
                                 old : RowType, want : BOOLEAN]]
  BY <1>2 DEF IInv, TypeOK
<1>4. Gone \in RowType /\ Gone.count <= 0
  BY GoneIsRow
<1> QED
  BY <1>1, <1>2, <1>3, <1>4, OneRow

LEMMA CreateKeeps ==
  ASSUME IInv, NEW m \in Managers, NEW e \in Endpoints, Create(m, e)
  PROVE  IInv'
<1>1. /\ \A l \in Lanes : Idle(l) \/ e \notin lane[l].todo \union lane[l].wrote
      /\ ep' = [ep EXCEPT ![e] = Fresh] /\ log' = log
      /\ lane' = lane /\ manager' = manager
  BY DEF Create
<1>2. ~Locked(e)
  BY <1>1 DEF Locked
<1>3. /\ manager' \in [Managers -> [pc : {"idle", "saving"}, target : SUBSET Endpoints,
                                    old : RowType, want : BOOLEAN]]
      /\ log[e] \in Nat /\ log' = [log EXCEPT ![e] = log[e]]
  BY <1>1 DEF IInv, TypeOK
<1>4. Fresh \in RowType /\ Fresh.count <= log[e]
  BY <1>3, GoneIsRow
<1> QED
  BY <1>1, <1>2, <1>3, <1>4, OneRow

----------------------------------------------------------------------------
(* Every step                                                              *)

LEMMA InvStep == IInv /\ [Next]_vars => IInv'
<1> SUFFICES ASSUME IInv, [Next]_vars PROVE IInv'
  OBVIOUS
<1>1. ASSUME NEW l \in Lanes, Emit(l) \/ SendTest(l) PROVE IInv'
  <2>1. CASE Emit(l)
    BY <2>1, DeliverKeeps DEF Emit
  <2>2. CASE SendTest(l)
    BY <2>2, DeliverKeeps DEF SendTest
  <2> QED
    BY <1>1, <2>1, <2>2
<1>2. ASSUME NEW l \in Lanes, Advance(l) PROVE IInv'
  BY <1>2, PostKeeps, RecordKeeps, CommitKeeps, AbortKeeps
  DEF Advance, RowIsGone, DeadlockVictim
<1>3. ASSUME NEW l \in Lanes, Kill(l) PROVE IInv'
  BY <1>3, AbortKeeps DEF Kill
<1>4. ASSUME NEW m \in Managers, Manage(m) PROVE IInv'
  BY <1>4, OpenPatchKeeps, SavePatchKeeps, DeleteKeeps, CreateKeeps DEF Manage
<1>5. CASE UNCHANGED vars
  BY <1>5 DEF vars, IInv, TypeOK, CountBackedByLog, Sound, Idle, LockedFor
<1> QED
  BY <1>1, <1>2, <1>3, <1>4, <1>5 DEF Next

LEMMA InvHolds == Spec => []IInv
<1> QED
  BY InvInit, InvStep, PTL DEF Spec

\* Rows and deliveries keep their shape, and no two open transactions have
\* written the same row.
THEOREM TypeCorrect == Spec => []TypeOK
<1>1. IInv => TypeOK
  BY DEF IInv
<1> QED
  BY <1>1, InvHolds, PTL

\* failure_count never exceeds the failed deliveries in the log, though it is
\* written from what was read before the posts, and rows are deleted, created
\* and changed meanwhile.
THEOREM CountIsBacked == Spec => []CountBackedByLog
<1>1. IInv => CountBackedByLog
  BY DEF IInv
<1> QED
  BY <1>1, InvHolds, PTL

\* Only a manager's own patch makes a paused endpoint active again.
EnabledByManager ==
  \A e \in Endpoints :
    ep[e].exists /\ ~ep[e].active /\ ep'[e].active =>
      \E m \in Managers : manager[m].target = {e} /\ manager[m].want /\ manager' # manager

LEMMA NoneRevives == IInv /\ [Next]_vars => [EnabledByManager]_vars
<1> SUFFICES ASSUME IInv, Next, NEW e \in Endpoints,
                    ep[e].exists, ~ep[e].active, ep'[e].active
             PROVE  \E m \in Managers :
                      manager[m].target = {e} /\ manager[m].want /\ manager' # manager
  BY DEF EnabledByManager
<1>1. ep' # ep
  OBVIOUS
<1>2. ASSUME NEW l \in Lanes, Commit(l) PROVE FALSE
  <2>1. ep'[e] = IF e \in lane[l].wrote THEN lane[l].row[e] ELSE ep[e]
    BY <1>2 DEF Commit
  <2>2. Sound(lane[l])
    BY <1>2 DEF Commit, Idle, IInv
  <2> QED
    BY <2>1, <2>2 DEF Sound
<1>3. ASSUME NEW m \in Managers, SavePatch(m)
      PROVE  manager[m].target = {e} /\ manager[m].want /\ manager' # manager
  <2>1. PICK f \in Endpoints :
          /\ manager[m].target = {f}
          /\ ep' = [ep EXCEPT ![f] = Patched(ep[f], manager[m].old, manager[m].want)]
    BY <1>3 DEF SavePatch
  <2>2. ep \in [Endpoints -> RowType] /\ manager[m].want \in BOOLEAN
    BY DEF IInv, TypeOK
  <2>3. f = e
    BY <2>1, <2>2
  <2>4. ep'[e] = Patched(ep[e], manager[m].old, manager[m].want)
    BY <2>1, <2>2, <2>3
  <2>5. Patched(ep[e], manager[m].old, manager[m].want).active => manager[m].want
    BY <2>2 DEF Patched
  <2>6. manager'[m].pc # manager[m].pc
    BY <1>3 DEF SavePatch, NoPatch, IInv, TypeOK
  <2> QED
    BY <2>1, <2>3, <2>4, <2>5, <2>6
<1>4. ASSUME NEW m \in Managers, NEW f \in Endpoints, Delete(m, f) PROVE FALSE
  BY <1>4 DEF Delete, Gone, IInv, TypeOK
<1>5. ASSUME NEW m \in Managers, NEW f \in Endpoints, Create(m, f) PROVE FALSE
  BY <1>5 DEF Create, IInv, TypeOK
<1>6. ASSUME NEW l \in Lanes, Emit(l) \/ SendTest(l) \/ Kill(l) PROVE FALSE
  BY <1>1, <1>6 DEF Emit, SendTest, Deliver, Kill, Abort
<1>7. ASSUME NEW l \in Lanes, Advance(l), ~Commit(l) PROVE FALSE
  BY <1>1, <1>7 DEF Advance, Post, Record, RowIsGone, DeadlockVictim, Abort
<1>8. ASSUME NEW m \in Managers, NEW f \in Endpoints, NEW want \in BOOLEAN,
             OpenPatch(m, f, want)
      PROVE  FALSE
  BY <1>1, <1>8 DEF OpenPatch
<1> QED
  BY <1>2, <1>3, <1>4, <1>5, <1>6, <1>7, <1>8 DEF Next, Manage

THEOREM PausedIsKept == Spec => PausedStaysPaused
<1>1. PausedStaysPaused <=> [][EnabledByManager]_vars
  BY DEF PausedStaysPaused, EnabledByManager
<1> QED
  BY <1>1, InvHolds, NoneRevives, PTL DEF Spec

----------------------------------------------------------------------------
(* The log rows of what was posted                                         *)

\* A delivery is at one endpoint at most, and has a row for every other one it
\* has posted to; at its commit it is at none.
Tracked(d) ==
  /\ \A e, f \in d.at : e = f
  /\ d.sent \subseteq d.wrote \union d.at
  /\ d.pc = "commit" => d.at = {}

AllTracked == \A l \in Lanes : Tracked(lane[l])

LEMMA NoDeliveryIsTracked == Tracked(NoDelivery)
  BY DEF NoDelivery, Tracked

\* A step of one delivery keeps them all tracked if it leaves that one so.
LEMMA OneTracked ==
  ASSUME AllTracked, IInv, NEW l \in Lanes, NEW new,
         lane' = [lane EXCEPT ![l] = new], Tracked(new)
  PROVE  AllTracked'
<1>1. \A k \in Lanes : lane'[k] = IF k = l THEN new ELSE lane[k]
  BY DEF IInv, TypeOK
<1> QED
  BY <1>1 DEF AllTracked, Tracked

LEMMA TrackedStep == IInv /\ AllTracked /\ [Next]_vars => AllTracked'
<1> SUFFICES ASSUME IInv, AllTracked, [Next]_vars PROVE AllTracked'
  OBVIOUS
<1>1. ASSUME NEW l \in Lanes, NEW targets, Deliver(l, targets) PROVE AllTracked'
  <2>1. PICK first \in targets :
          lane' = [lane EXCEPT ![l] = [NoDelivery EXCEPT
                     !.pc = "post", !.todo = targets, !.at = {first},
                     !.loaded = [e \in Endpoints |-> IF e \in targets THEN ep[e] ELSE Gone]]]
    BY <1>1 DEF Deliver
  <2> DEFINE new == [NoDelivery EXCEPT
                       !.pc = "post", !.todo = targets, !.at = {first},
                       !.loaded = [e \in Endpoints |-> IF e \in targets THEN ep[e] ELSE Gone]]
  <2>2. new.pc = "post" /\ new.at = {first} /\ new.sent = {}
    BY DEF NoDelivery
  <2>3. lane' = [lane EXCEPT ![l] = new]
    BY <2>1
  <2> HIDE DEF new
  <2>4. Tracked(new)
    BY <2>2 DEF Tracked
  <2> QED
    BY <2>3, <2>4, OneTracked
<1>2. ASSUME NEW l \in Lanes, NEW answer, Post(l, answer) PROVE AllTracked'
  <2> DEFINE d == lane[l]
             tries == d.tries + 1
             again == answer = "temporary" /\ RetryBound(tries)
             new == [d EXCEPT
                       !.pc = AfterPost(again, answer),
                       !.tries = IF again /\ tries < MaxAttempts THEN tries ELSE 0,
                       !.ok = answer = "2xx",
                       !.sent = IF answer = "blocked" THEN @ ELSE @ \union d.at]
  <2>1. d \in LaneType /\ Tracked(d)
    BY DEF IInv, TypeOK, LaneType, AllTracked
  <2>2. lane' = [lane EXCEPT ![l] = new]
    BY <1>2, <2>1 DEF Post, LaneType, IInv, TypeOK
  <2>3. /\ new.pc \in {"post", "record"} /\ new.at = d.at /\ new.wrote = d.wrote
        /\ new.sent \subseteq d.sent \union d.at
    BY <2>1 DEF LaneType, AfterPost
  <2> HIDE DEF new
  <2>4. Tracked(new)
    BY <2>1, <2>3 DEF Tracked
  <2> QED
    BY <2>2, <2>4, OneTracked
<1>3. ASSUME NEW l \in Lanes, Record(l) PROVE AllTracked'
  <2> DEFINE d == lane[l]
  <2>1. d \in LaneType /\ Tracked(d)
    BY DEF IInv, TypeOK, LaneType, AllTracked
  <2>2. PICK e \in d.at, pc \in {"post", "commit"}, at \in SUBSET Endpoints :
          /\ pc = "commit" => at = {}
          /\ \A f, g \in at : f = g
          /\ lane' = [lane EXCEPT ![l] = [Recorded(d, e) EXCEPT !.pc = pc, !.at = at]]
    <3>1. PICK e \in d.at :
            \/ lane' = [lane EXCEPT ![l] = [Recorded(d, e) EXCEPT !.pc = "commit", !.at = {}]]
            \/ \E f \in Recorded(d, e).todo :
                 lane' = [lane EXCEPT ![l] = [Recorded(d, e) EXCEPT !.pc = "post", !.at = {f}]]
      BY <1>3 DEF Record
    <3>2. Recorded(d, e).todo \subseteq Endpoints
      BY <2>1 DEF Recorded, LaneType
    <3> QED
      BY <3>1, <3>2
  <2> DEFINE new == [Recorded(d, e) EXCEPT !.pc = pc, !.at = at]
  <2>3. new.pc = pc /\ new.at = at /\ new.sent = d.sent /\ new.wrote = d.wrote \union {e}
    BY <2>1 DEF Recorded, LaneType
  <2>4. lane' = [lane EXCEPT ![l] = new]
    BY <2>2
  <2> HIDE DEF new
  <2>5. Tracked(new)
    BY <2>1, <2>2, <2>3 DEF Tracked
  <2> QED
    BY <2>4, <2>5, OneTracked
<1>4. ASSUME NEW l \in Lanes, End(l) PROVE AllTracked'
  BY <1>4, NoDeliveryIsTracked, OneTracked DEF End
<1>5. ASSUME NEW l \in Lanes, Advance(l) PROVE AllTracked'
  BY <1>2, <1>3, <1>4, <1>5 DEF Advance, Commit, RowIsGone, DeadlockVictim, Abort
<1>6. ASSUME NEW l \in Lanes, Emit(l) \/ SendTest(l) \/ Kill(l) PROVE AllTracked'
  BY <1>1, <1>4, <1>6 DEF Emit, SendTest, Kill, Abort
<1>7. CASE UNCHANGED lane
  BY <1>7 DEF AllTracked, Tracked
<1>8. ASSUME NEW m \in Managers, Manage(m) PROVE UNCHANGED lane
  BY <1>8 DEF Manage, OpenPatch, SavePatch, Delete, Create
<1> QED
  BY <1>5, <1>6, <1>7, <1>8 DEF Next, vars

\* A delivery that commits has a log row for every endpoint it has posted to,
\* however often each was tried and whatever else was changed meanwhile.
THEOREM PostsAreRecorded == Spec => []EveryPostRecorded
<1>1. Init => AllTracked
  BY NoDeliveryIsTracked DEF Init, AllTracked
<1>2. AllTracked => EveryPostRecorded
  BY DEF AllTracked, Tracked, EveryPostRecorded
<1> QED
  BY <1>1, <1>2, InvHolds, TrackedStep, PTL DEF Spec

============================================================================

------------------------- MODULE VoiceAccess_proofs -------------------------
(***************************************************************************)
(* Theorems about VoiceAccess, for every number of tenants and of          *)
(* overlapping requests, every cap and every lease.                        *)
(***************************************************************************)
EXTENDS VoiceAccess, FiniteSetTheorems, TLAPS

USE TenantsAssumption, PriorityAssumption, ReqsAssumption, LimitsAssumption

\* The tenants are finitely many, so every set of them has a number of members.
LEMMA SlotsAreCounted ==
  ASSUME NEW S \in SUBSET Tenants
  PROVE  IsFiniteSet(S) /\ Cardinality(S) \in 0 .. Cardinality(Tenants)
<1>1. IsFiniteSet(S) /\ Cardinality(S) <= Cardinality(Tenants)
  BY FS_Subset, TenantsAssumption
<1>2. Cardinality(S) \in Nat /\ Cardinality(Tenants) \in Nat
  BY <1>1, FS_CardinalityType, TenantsAssumption
<1> QED
  BY <1>1, <1>2

\* A request starts having counted nothing.
LEMMA NothingCounted == 0 \in 0 .. Cardinality(Tenants)
  BY FS_CardinalityType, TenantsAssumption

\* Initially there is no request, no lease and no waiter.
LEMMA TypeInit == Init => TypeOK
  BY NothingCounted DEF Init, TypeOK, Idle, Absent, Times, At, Key

\* Every command leaves scores that are times and requests with their locals.
LEMMA TypeStep == TypeOK /\ [Next]_vars => TypeOK'
<1> SUFFICES ASSUME TypeOK, [Next]_vars PROVE TypeOK'
  OBVIOUS
<1>1. ASSUME NEW r \in Reqs, NEW k \in Tenants,
             AcquireCall(r, k) \/ HeartbeatCall(r, k) \/ StatusCall(r, k) \/ ReleaseCall(r, k)
      PROVE  TypeOK'
  <2>1. PICK endpoint \in {"acquire", "heartbeat", "status", "release"},
             first \in {"allowlist", "purge", "drop"} : Call(r, k, endpoint, first)
    BY <1>1 DEF AcquireCall, HeartbeatCall, StatusCall, ReleaseCall
  <2> DEFINE new == [pc |-> first, op |-> endpoint, key |-> k,
                     now |-> clock, allow |-> FALSE, seen |-> 0]
  <2>2. /\ req' = [req EXCEPT ![r] = new]
        /\ UNCHANGED <<clock, allowlist, active, queue>>
    BY <2>1 DEF Call
  <2>3. clock \in Times /\ clock \in 1 .. clock
    BY DEF TypeOK, Times
  <2>4. new.key \in Tenants /\ new.now \in 1 .. clock
    BY <2>3
  <2>5. new \in [pc : {"allowlist", "purge", "drop"},
                op : {"acquire", "heartbeat", "status", "release"},
                key : Tenants, now : Times, allow : BOOLEAN,
                seen : 0 .. Cardinality(Tenants)]
    BY <2>3, NothingCounted
  <2> HIDE DEF new
  <2> QED
    BY <2>2, <2>4, <2>5 DEF TypeOK, At, Key
<1>2. ASSUME NEW r \in Reqs, CheckAllowlist(r) PROVE TypeOK'
  BY <1>2 DEF CheckAllowlist, TypeOK, Times, At, Key
<1>3. ASSUME NEW r \in Reqs, Purge(r) PROVE TypeOK'
  <2>1. active' \in [Tenants -> Times] /\ UNCHANGED <<clock, allowlist, queue>>
    BY <1>3 DEF Purge, Absent, TypeOK, Times
  <2>2. ASSUME NEW label \in {"held", "beat"}, Goto(r, label) PROVE TypeOK'
    BY <1>3, <2>1, <2>2 DEF Purge, Goto, TypeOK, At, Key
  <2>3. CASE Return(r)
    BY <2>1, <2>3, NothingCounted DEF Return, Idle, Absent, TypeOK, Times, At, Key
  <2> QED
    BY <1>3, <2>2, <2>3 DEF Purge
<1>4. ASSUME NEW r \in Reqs, CheckHeld(r) PROVE TypeOK'
  BY <1>4 DEF CheckHeld, Goto, TypeOK, Times, At, Key
<1>5. ASSUME NEW r \in Reqs, Refresh(r) PROVE TypeOK'
  BY <1>5 DEF Refresh, Lease, Goto, TypeOK, Times, At, Key
<1>6. ASSUME NEW r \in Reqs, Unqueue(r) PROVE TypeOK'
  BY <1>6, NothingCounted DEF Unqueue, LeaveQueue, Return, Idle, Absent, TypeOK, Times, At, Key
<1>7. ASSUME NEW r \in Reqs, Count(r) PROVE TypeOK'
  <2>1. SlotsTaken \in 0 .. Cardinality(Tenants)
    BY SlotsAreCounted DEF SlotsTaken, Held
  <2> QED
    BY <1>7, <2>1 DEF Count, TypeOK, Times, At, Key
<1>8. ASSUME NEW r \in Reqs, Enqueue(r) PROVE TypeOK'
  BY <1>8 DEF Enqueue, JoinScore, Goto, TypeOK, Times, At, Key
<1>9. ASSUME NEW r \in Reqs, CheckRank(r) PROVE TypeOK'
  <2>1. CASE Goto(r, "dequeue")
    BY <1>9, <2>1 DEF CheckRank, Goto, TypeOK, Times, At, Key
  <2>2. CASE Return(r)
    BY <1>9, NothingCounted, <2>2 DEF CheckRank, Return, Idle, Absent, TypeOK, Times, At, Key
  <2> QED
    BY <1>9, <2>1, <2>2 DEF CheckRank
<1>10. ASSUME NEW r \in Reqs, Dequeue(r) PROVE TypeOK'
  BY <1>10 DEF Dequeue, LeaveQueue, Goto, Absent, TypeOK, Times, At, Key
<1>11. ASSUME NEW r \in Reqs, Claim(r) PROVE TypeOK'
  BY <1>11, NothingCounted DEF Claim, Lease, Return, Idle, Absent, TypeOK, Times, At, Key
<1>12. ASSUME NEW r \in Reqs, Beat(r) PROVE TypeOK'
  BY <1>12, NothingCounted DEF Beat, Lease, Return, Idle, Absent, TypeOK, Times, At, Key
<1>13. ASSUME NEW r \in Reqs, Drop(r) PROVE TypeOK'
  BY <1>13 DEF Drop, Goto, Absent, TypeOK, Times, At, Key
<1>14. ASSUME NEW r \in Reqs, DropQueue(r) PROVE TypeOK'
  BY <1>14, NothingCounted DEF DropQueue, LeaveQueue, Return, Idle, Absent, TypeOK, Times, At, Key
<1>15. ASSUME NEW r \in Reqs, Abort(r) PROVE TypeOK'
  BY <1>15, NothingCounted DEF Abort, Return, Idle, Absent, TypeOK, Times, At, Key
<1>16. ASSUME NEW k \in Priority, AddAllowlist(k) \/ RemoveAllowlist(k) PROVE TypeOK'
  <2>1. allowlist' \subseteq Priority /\ UNCHANGED <<clock, active, queue, req>>
    BY <1>16 DEF AddAllowlist, RemoveAllowlist, TypeOK
  <2> QED
    BY <2>1 DEF TypeOK, At, Key
<1>17. CASE Tick
  BY <1>17 DEF Tick, TypeOK, Times, At, Key
<1>18. CASE UNCHANGED vars
  BY <1>18 DEF vars, TypeOK, Times, At, Key
<1> QED
  BY <1>1, <1>2, <1>3, <1>4, <1>5, <1>6, <1>7, <1>8, <1>9, <1>10, <1>11, <1>12,
     <1>13, <1>14, <1>15, <1>16, <1>17, <1>18 DEF Next, Acquire

\* Type correctness of the two Redis sets and of every request served.
THEOREM TypeCorrect == Spec => []TypeOK
  BY TypeInit, TypeStep, PTL DEF Spec

----------------------------------------------------------------------------
(* The overshoot of the cap.  SpokenFor only grows when a request counts   *)
(* the slots, and then what it counted bounds the slots held.              *)

IInv == TypeOK /\ AllowIsPriority /\ PromisedBounded

\* Nothing is spoken for at the start, and at least one request can overlap.
LEMMA BoundInit == Init => IInv
<1> SUFFICES ASSUME Init PROVE IInv
  OBVIOUS
<1>1. TypeOK
  BY TypeInit
<1>2. AllowIsPriority
  BY DEF Init, Idle, AllowIsPriority
<1>3. SpokenFor = {}
  BY DEF Init, Idle, SpokenFor, Held, Promised, Committed
<1>4. Cardinality(Reqs) \in Nat \ {0}
  BY FS_CardinalityType, FS_EmptySet, ReqsAssumption
<1>5. PromisedBounded
  BY <1>3, <1>4, FS_EmptySet, LimitsAssumption DEF PromisedBounded
<1> QED
  BY <1>1, <1>2, <1>5 DEF IInv

\* A function on some of the requests has at most as many values as requests.
LEMMA ValuesAreFew ==
  ASSUME NEW C \in SUBSET Reqs, NEW f, f = [r \in C |-> f[r]]
  PROVE  /\ IsFiniteSet({f[r] : r \in C})
         /\ Cardinality({f[r] : r \in C}) \in Nat
         /\ Cardinality({f[r] : r \in C}) <= Cardinality(Reqs)
<1> DEFINE V == {f[r] : r \in C}
<1>1. IsFiniteSet(C) /\ Cardinality(C) <= Cardinality(Reqs)
  BY FS_Subset, ReqsAssumption
<1>2. f \in Surjection(C, V)
  BY DEF Surjection
<1>3. IsFiniteSet(V) /\ Cardinality(V) <= Cardinality(C)
  BY <1>1, <1>2, FS_Surjection
<1>4. /\ Cardinality(V) \in Nat /\ Cardinality(C) \in Nat
      /\ Cardinality(Reqs) \in Nat
  BY <1>1, <1>3, FS_CardinalityType, ReqsAssumption
<1> QED
  BY <1>1, <1>3, <1>4

\* The tenants promised a slot are at most as many as the requests.
LEMMA PromisesAreFew ==
  /\ IsFiniteSet(Promised) /\ Cardinality(Promised) \in Nat
  /\ Cardinality(Promised) <= Cardinality(Reqs)
<1> DEFINE C == {r \in Reqs : Committed(r)}
           f == [r \in C |-> Key(r)]
<1>1. Promised = {f[r] : r \in C}
  BY DEF Promised
<1>2. f = [r \in C |-> f[r]]
  OBVIOUS
<1> HIDE DEF f
<1> QED
  BY <1>1, <1>2, ValuesAreFew

\* A lease is only ever written for a holder or for a tenant promised a slot.
LEMMA HeldStep ==
  ASSUME TypeOK, [Next]_vars
  PROVE  Held' \subseteq Held \union Promised
<1>1. ASSUME NEW r \in Reqs, Purge(r) PROVE Held' \subseteq Held
  BY <1>1 DEF Purge, Held, Absent
<1>2. ASSUME NEW r \in Reqs, Refresh(r) \/ Claim(r)
      PROVE  Held' \subseteq Held \union Promised
  <2>1. Key(r) \in Promised
    BY <1>2 DEF Refresh, Claim, At, Promised, Committed
  <2>2. \A k \in Tenants \ {Key(r)} : active'[k] = active[k]
    BY <1>2 DEF Refresh, Claim, Lease, TypeOK
  <2> QED
    BY <2>1, <2>2 DEF Held
<1>3. ASSUME NEW r \in Reqs, Beat(r) PROVE Held' \subseteq Held
  BY <1>3 DEF Beat, Lease, Held, TypeOK
<1>4. ASSUME NEW r \in Reqs, Drop(r) PROVE Held' \subseteq Held
  BY <1>4 DEF Drop, Held, Absent, TypeOK
<1>5. ASSUME UNCHANGED active PROVE Held' = Held
  BY <1>5 DEF Held
<1>6. \/ UNCHANGED active
      \/ \E r \in Reqs : Purge(r) \/ Refresh(r) \/ Claim(r) \/ Beat(r) \/ Drop(r)
  BY DEF Next, vars, Acquire, AcquireCall, HeartbeatCall, StatusCall, ReleaseCall, Call,
         CheckAllowlist, CheckHeld, Unqueue, Count, Enqueue, CheckRank, Dequeue,
         DropQueue, Abort, AddAllowlist, RemoveAllowlist, Tick
<1> QED
  BY <1>1, <1>2, <1>3, <1>4, <1>5, <1>6

\* The promises to other requests are not touched by a step of one request.
LEMMA OnlyOnePromise ==
  ASSUME NEW r \in Reqs, NEW S,
         \A q \in Reqs \ {r} : req'[q] = req[q],
         Committed(r)' => Key(r)' \in S
  PROVE  Promised' \subseteq Promised \union S
  BY DEF Promised, Committed, Key

\* Every request is served by one step at a time.
LEMMA OneRequestMoves ==
  ASSUME TypeOK, NEW r \in Reqs, NEW k \in Tenants,
         \/ AcquireCall(r, k) \/ HeartbeatCall(r, k) \/ StatusCall(r, k) \/ ReleaseCall(r, k)
         \/ Acquire(r) \/ Beat(r) \/ Drop(r) \/ DropQueue(r) \/ Abort(r)
  PROVE  \A q \in Reqs \ {r} : req'[q] = req[q]
<1>1. CASE \/ AcquireCall(r, k) \/ HeartbeatCall(r, k) \/ StatusCall(r, k) \/ ReleaseCall(r, k)
  BY <1>1 DEF AcquireCall, HeartbeatCall, StatusCall, ReleaseCall, Call, TypeOK
<1>2. CASE Acquire(r)
  <2>1. CASE \/ CheckAllowlist(r) \/ Purge(r) \/ CheckHeld(r) \/ Refresh(r) \/ Unqueue(r)
    BY <2>1 DEF CheckAllowlist, Purge, CheckHeld, Refresh, Unqueue, Goto, Return, TypeOK
  <2>2. CASE \/ Count(r) \/ Enqueue(r) \/ CheckRank(r) \/ Dequeue(r) \/ Claim(r)
    BY <2>2 DEF Count, Enqueue, CheckRank, Dequeue, Claim, Goto, Return, TypeOK
  <2> QED
    BY <1>2, <2>1, <2>2 DEF Acquire
<1>3. CASE Beat(r) \/ Drop(r) \/ DropQueue(r) \/ Abort(r)
  BY <1>3 DEF Beat, Drop, DropQueue, Abort, Goto, Return, TypeOK
<1> QED
  BY <1>1, <1>2, <1>3

\* A promise is only made to a holder, to an allowlisted caller, or by the
\* count: whatever comes after the count was already promised there.
LEMMA PromisedStep ==
  ASSUME TypeOK, AllowIsPriority, [Next]_vars, ~ \E r \in Reqs : Count(r)
  PROVE  Promised' \subseteq Promised \union Held \union Priority
<1> DEFINE Old == Promised \union Held \union Priority
<1>1. ASSUME NEW r \in Reqs, NEW k \in Tenants,
             AcquireCall(r, k) \/ HeartbeatCall(r, k) \/ StatusCall(r, k) \/ ReleaseCall(r, k)
      PROVE  ~Committed(r)'
  BY <1>1 DEF AcquireCall, HeartbeatCall, StatusCall, ReleaseCall, Call, Committed, TypeOK
<1>2. ASSUME NEW r \in Reqs,
             \/ CheckAllowlist(r) \/ Refresh(r) \/ Unqueue(r) \/ Claim(r)
             \/ Beat(r) \/ Drop(r) \/ DropQueue(r) \/ Abort(r)
      PROVE  ~Committed(r)'
  BY <1>2 DEF CheckAllowlist, Refresh, Unqueue, Claim, Beat, Drop, DropQueue, Abort,
              Goto, Return, Idle, Committed, TypeOK
<1>3. ASSUME NEW r \in Reqs, Purge(r) PROVE ~Committed(r)'
  BY <1>3 DEF Purge, Goto, Return, Idle, Committed, TypeOK
<1>4. ASSUME NEW r \in Reqs, CheckHeld(r), Committed(r)' PROVE Key(r)' \in Old
  <2>1. req'[r].key = req[r].key /\ req'[r].pc \in {"refresh", "count"}
    BY <1>4 DEF CheckHeld, Goto, TypeOK
  <2>2. Key(r) \in Held \/ req[r].allow
    BY <1>4 DEF CheckHeld, Goto, Committed, TypeOK
  <2> QED
    BY <2>1, <2>2 DEF AllowIsPriority, Key
<1>5. ASSUME NEW r \in Reqs, Enqueue(r) \/ CheckRank(r) \/ Dequeue(r), Committed(r)'
      PROVE  Key(r)' \in Old
  <2>1. CASE Enqueue(r) \/ Dequeue(r)
    BY <1>5, <2>1 DEF Enqueue, Dequeue, Goto, At, Committed, Promised, Key, TypeOK
  <2>2. CASE CheckRank(r)
    <3>1. Goto(r, "dequeue") /\ Fits(Rank(Key(r)), Cap - req[r].seen)
      BY <1>5, <2>2 DEF CheckRank, Return, Idle, Committed, TypeOK
    <3>2. Rank(Key(r)) \in Nat
      BY SlotsAreCounted, NothingCounted DEF Rank, Ahead, Queued
    <3>3. req[r].seen < Cap
      BY <3>1, <3>2, SlotsAreCounted, LimitsAssumption DEF Fits, TypeOK
    <3> QED
      BY <2>2, <3>1, <3>3 DEF CheckRank, Goto, At, Committed, Promised, Key, TypeOK
  <2> QED
    BY <1>5, <2>1, <2>2
<1>6. ASSUME UNCHANGED req PROVE Promised' = Promised
  BY <1>6 DEF Promised, Committed, Key
<1>7. ASSUME NEW r \in Reqs, NEW k \in Tenants,
             \/ AcquireCall(r, k) \/ HeartbeatCall(r, k) \/ StatusCall(r, k) \/ ReleaseCall(r, k)
             \/ Acquire(r) \/ Beat(r) \/ Drop(r) \/ DropQueue(r) \/ Abort(r)
      PROVE  Promised' \subseteq Old
  <2>1. Committed(r)' => Key(r)' \in Old
    BY <1>1, <1>2, <1>3, <1>4, <1>5, <1>7 DEF Acquire
  <2> QED
    BY <1>7, <2>1, OneRequestMoves, OnlyOnePromise
<1>8. ASSUME NEW r \in Reqs, Acquire(r) \/ Beat(r) \/ Drop(r) \/ DropQueue(r) \/ Abort(r)
      PROVE  \E k \in Tenants : TRUE
  <2>1. ~At(r, "idle")
    BY <1>8 DEF Acquire, CheckAllowlist, Purge, CheckHeld, Refresh, Unqueue, Count, Enqueue,
                CheckRank, Dequeue, Claim, Beat, Drop, DropQueue, Abort, At
  <2> QED
    BY <2>1 DEF TypeOK
<1> QED
  BY <1>6, <1>7, <1>8 DEF Next, vars, AddAllowlist, RemoveAllowlist, Tick

\* What a request remembers of the allowlist is of a tenant that may be on it.
LEMMA AllowStep ==
  ASSUME TypeOK, AllowIsPriority, [Next]_vars
  PROVE  AllowIsPriority'
<1>1. ASSUME NEW r \in Reqs, NEW k \in Tenants,
             AcquireCall(r, k) \/ HeartbeatCall(r, k) \/ StatusCall(r, k) \/ ReleaseCall(r, k)
      PROVE  AllowIsPriority'
  BY <1>1 DEF AcquireCall, HeartbeatCall, StatusCall, ReleaseCall, Call, AllowIsPriority, Key, TypeOK
<1>2. ASSUME NEW r \in Reqs, CheckAllowlist(r) PROVE AllowIsPriority'
  BY <1>2 DEF CheckAllowlist, AllowIsPriority, Key, TypeOK
<1>3. ASSUME NEW r \in Reqs,
             \/ Acquire(r) /\ ~CheckAllowlist(r)
             \/ Beat(r) \/ Drop(r) \/ DropQueue(r) \/ Abort(r)
      PROVE  AllowIsPriority'
  <2>1. \A q \in Reqs : \/ req'[q].allow = req[q].allow /\ req'[q].key = req[q].key
                       \/ ~req'[q].allow
    <3>1. CASE \/ Purge(r) \/ CheckHeld(r) \/ Refresh(r) \/ Unqueue(r)
      BY <3>1 DEF Purge, CheckHeld, Refresh, Unqueue, Goto, Return, Idle, TypeOK
    <3>2. CASE Count(r) \/ Enqueue(r) \/ CheckRank(r) \/ Dequeue(r) \/ Claim(r)
      BY <3>2 DEF Count, Enqueue, CheckRank, Dequeue, Claim, Goto, Return, Idle, TypeOK
    <3>3. CASE Beat(r) \/ Drop(r) \/ DropQueue(r) \/ Abort(r)
      BY <3>3 DEF Beat, Drop, DropQueue, Abort, Goto, Return, Idle, TypeOK
    <3> QED
      BY <1>3, <3>1, <3>2, <3>3 DEF Acquire
  <2> QED
    BY <2>1 DEF AllowIsPriority, Key
<1>4. ASSUME UNCHANGED req PROVE AllowIsPriority'
  BY <1>4 DEF AllowIsPriority, Key
<1> QED
  BY <1>1, <1>2, <1>3, <1>4 DEF Next, vars, AddAllowlist, RemoveAllowlist, Tick

\* The sets the bound speaks of are finite.
LEMMA SpokenForIsFinite ==
  /\ IsFiniteSet(SpokenFor) /\ Cardinality(SpokenFor) \in Nat
  /\ Cardinality(Reqs) \in Nat
<1>1. IsFiniteSet(Held)
  BY FS_Subset, TenantsAssumption DEF Held
<1>2. IsFiniteSet(Held \union Promised)
  BY <1>1, PromisesAreFew, FS_Union
<1>3. IsFiniteSet(SpokenFor)
  BY <1>2, FS_Subset DEF SpokenFor
<1> QED
  BY <1>3, FS_CardinalityType, ReqsAssumption

\* A union has at most as many members as its parts together.
LEMMA UnionIsFew ==
  ASSUME NEW S, NEW T, IsFiniteSet(S), IsFiniteSet(T)
  PROVE  /\ IsFiniteSet(S \union T)
         /\ Cardinality(S \union T) <= Cardinality(S) + Cardinality(T)
<1>1. /\ IsFiniteSet(S \union T)
      /\ Cardinality(S \union T)
           = Cardinality(S) + Cardinality(T) - Cardinality(S \intersect T)
  BY FS_Union
<1>2. IsFiniteSet(S \intersect T)
  BY FS_Subset
<1>3. /\ Cardinality(S) \in Nat /\ Cardinality(T) \in Nat
      /\ Cardinality(S \intersect T) \in Nat
  BY <1>2, FS_CardinalityType
<1> QED
  BY <1>1, <1>3

\* What a request counted, plus one promise per request, bounds the slots that
\* are spoken for when it finds one free.
LEMMA CountStep ==
  ASSUME TypeOK, PromisedBounded, NEW r \in Reqs, Count(r)
  PROVE  PromisedBounded'
<1>1. Held' = Held
  BY DEF Count, Held
<1>2. \A q \in Reqs \ {r} : req'[q] = req[q]
  BY DEF Count, TypeOK
<1>3. req'[r].pc = "enqueue" /\ req'[r].seen = Cardinality(Held) /\ req'[r].key = req[r].key
  BY DEF Count, SlotsTaken, TypeOK
<1>4. CASE Cardinality(Held) < Cap
  <2>1. IsFiniteSet(Held) /\ Cardinality(Held) \in Nat
    BY SlotsAreCounted, NothingCounted DEF Held
  <2>2. /\ IsFiniteSet(Promised') /\ Cardinality(Promised') \in Nat
        /\ Cardinality(Promised') <= Cardinality(Reqs)
    <3> DEFINE C == {q \in Reqs : Committed(q)'}
               f == [q \in C |-> Key(q)']
    <3>1. Promised' = {f[q] : q \in C}
      BY DEF Promised
    <3>2. f = [q \in C |-> f[q]]
      OBVIOUS
    <3> HIDE DEF f
    <3> QED
      BY <3>1, <3>2, ValuesAreFew
  <2>3. Cardinality(Reqs) \in Nat
    BY FS_CardinalityType, ReqsAssumption
  <2>4. /\ IsFiniteSet(Held \union Promised')
        /\ Cardinality(Held \union Promised') <= Cardinality(Held) + Cardinality(Promised')
    BY <2>1, <2>2, UnionIsFew
  <2>5. Cardinality(SpokenFor') <= Cardinality(Held \union Promised')
    BY <1>1, <2>4, FS_Subset DEF SpokenFor
  <2>6. Cardinality(SpokenFor') \in Nat /\ Cardinality(Held \union Promised') \in Nat
    BY <1>1, <2>4, FS_Subset, FS_CardinalityType DEF SpokenFor
  <2> QED
    BY <1>4, <2>1, <2>2, <2>3, <2>4, <2>5, <2>6, LimitsAssumption DEF PromisedBounded
<1>5. CASE ~(Cardinality(Held) < Cap)
  <2>1. ~Committed(r)'
    BY <1>3, <1>5 DEF Committed
  <2>2. Promised' \subseteq Promised
    BY <1>2, <2>1, OnlyOnePromise
  <2>3. SpokenFor' \in SUBSET SpokenFor
    BY <1>1, <2>2 DEF SpokenFor
  <2>4. Cardinality(SpokenFor') <= Cardinality(SpokenFor) /\ Cardinality(SpokenFor') \in Nat
    BY <2>3, SpokenForIsFinite, FS_Subset, FS_CardinalityType
  <2> QED
    BY <2>4, SpokenForIsFinite, LimitsAssumption DEF PromisedBounded
<1> QED
  BY <1>4, <1>5

\* The inductive step: a count renews the bound, any other step keeps it.
LEMMA BoundStep == IInv /\ [Next]_vars => IInv'
<1> SUFFICES ASSUME IInv, [Next]_vars PROVE IInv'
  OBVIOUS
<1> USE DEF IInv
<1>1. TypeOK'
  BY TypeStep
<1>2. AllowIsPriority'
  BY AllowStep
<1>3. CASE \E r \in Reqs : Count(r)
  BY <1>1, <1>2, <1>3, CountStep
<1>4. CASE ~ \E r \in Reqs : Count(r)
  <2>1. SpokenFor' \in SUBSET SpokenFor
    BY <1>4, HeldStep, PromisedStep DEF SpokenFor
  <2>2. Cardinality(SpokenFor') <= Cardinality(SpokenFor) /\ Cardinality(SpokenFor') \in Nat
    BY <2>1, SpokenForIsFinite, FS_Subset, FS_CardinalityType
  <2>3. PromisedBounded'
    BY <2>2, SpokenForIsFinite, LimitsAssumption DEF PromisedBounded
  <2> QED
    BY <1>1, <1>2, <2>3
<1> QED
  BY <1>3, <1>4

\* However the requests interleave or fail, the tenants that hold a slot or are
\* about to take one exceed MAX_CONCURRENT_VOICE by fewer than the requests
\* being served, allowlisted tenants aside.
THEOREM SlotsSpokenForAreBounded == Spec => []PromisedBounded
<1>1. IInv => PromisedBounded
  BY DEF IInv
<1> QED
  BY <1>1, BoundInit, BoundStep, PTL DEF Spec

\* The holders alone obey the bound: the overshoot acquire's separate Redis
\* commands can cause is less than the number of overlapping requests.
THEOREM OvershootIsBounded == Spec => []HoldersBounded
<1>1. IInv => HoldersBounded
  <2> SUFFICES ASSUME IInv PROVE HoldersBounded
    OBVIOUS
  <2>1. (Held \ Priority) \in SUBSET SpokenFor
    BY DEF SpokenFor
  <2>2. /\ Cardinality(Held \ Priority) <= Cardinality(SpokenFor)
        /\ Cardinality(Held \ Priority) \in Nat
    BY <2>1, SpokenForIsFinite, FS_Subset, FS_CardinalityType
  <2> QED
    BY <2>2, SpokenForIsFinite, LimitsAssumption DEF IInv, PromisedBounded, HoldersBounded
<1> QED
  BY <1>1, BoundInit, BoundStep, PTL DEF Spec

\* Served one at a time, requests respect MAX_CONCURRENT_VOICE.
THEOREM OneAtATimeRespectsCap ==
  ASSUME Cardinality(Reqs) = 1
  PROVE  Spec => []CapRespected
<1>1. TypeOK /\ HoldersBounded => CapRespected
  <2> SUFFICES ASSUME TypeOK, HoldersBounded PROVE CapRespected
    OBVIOUS
  <2> DEFINE L == {k \in Tenants \ Priority : active[k] > clock}
  <2>1. L \in SUBSET (Held \ Priority)
    BY DEF Held, Absent, TypeOK
  <2>2. IsFiniteSet(Held \ Priority)
    BY FS_Subset, TenantsAssumption DEF Held
  <2>3. /\ Cardinality(L) <= Cardinality(Held \ Priority)
        /\ Cardinality(L) \in Nat /\ Cardinality(Held \ Priority) \in Nat
    BY <2>1, <2>2, FS_Subset, FS_CardinalityType
  <2> QED
    BY <2>3, LimitsAssumption DEF HoldersBounded, CapRespected
<1> QED
  BY <1>1, TypeCorrect, OvershootIsBounded, PTL

----------------------------------------------------------------------------
(* Places in the queue, and leases that are gone                           *)

\* Whoever waits before and after a command has the same score: ZADD NX in
\* acquire, and ZREM is of the request's own tenant and for good.
LEMMA ScoresStand ==
  ASSUME TypeOK, [Next]_vars, NEW k \in Queued, k \in Queued'
  PROVE  queue'[k] = queue[k]
<1>1. k \in Tenants /\ queue[k] # Absent /\ queue'[k] # Absent
  BY DEF Queued
<1>2. ASSUME NEW r \in Reqs, Unqueue(r) \/ Dequeue(r) \/ DropQueue(r)
      PROVE  queue'[k] = queue[k]
  BY <1>1, <1>2 DEF Unqueue, Dequeue, DropQueue, LeaveQueue, TypeOK
<1>3. ASSUME NEW r \in Reqs, Enqueue(r) PROVE queue'[k] = queue[k]
  BY <1>1, <1>3 DEF Enqueue, JoinScore, TypeOK
<1>4. \/ UNCHANGED queue
      \/ \E r \in Reqs : Unqueue(r) \/ Dequeue(r) \/ DropQueue(r) \/ Enqueue(r)
  BY DEF Next, vars, Acquire, AcquireCall, HeartbeatCall, StatusCall, ReleaseCall, Call,
         CheckAllowlist, Purge, CheckHeld, Refresh, Count, CheckRank, Claim, Beat, Drop,
         Abort, AddAllowlist, RemoveAllowlist, Tick
<1> QED
  BY <1>2, <1>3, <1>4

\* However often two waiters ask, and in whatever overlap, they keep their order.
THEOREM PlacesAreKept == Spec => PlaceKept
<1>1. TypeOK /\ [Next]_vars =>
        [\A j, k \in Queued \intersect Queued' : Before(j, k) => Before(j, k)']_vars
  <2> SUFFICES ASSUME TypeOK, [Next]_vars,
                      NEW j \in Queued \intersect Queued', NEW k \in Queued \intersect Queued',
                      Before(j, k)
               PROVE  Before(j, k)'
    OBVIOUS
  <2>1. queue'[j] = queue[j] /\ queue'[k] = queue[k]
    BY ScoresStand
  <2> QED
    BY <2>1 DEF Before
<1> QED
  BY <1>1, TypeCorrect, PTL DEF Spec, PlaceKept

\* The commands of acquire are of an acquire.
AcquireOnly ==
  \A r \in Reqs :
    req[r].pc \in {"allowlist", "held", "refresh", "unqueue", "count", "enqueue", "rank", "dequeue", "claim"}
      => req[r].op = "acquire"

LEMMA AcquireOnlyStep ==
  ASSUME TypeOK, AcquireOnly, [Next]_vars
  PROVE  AcquireOnly'
<1>1. ASSUME NEW r \in Reqs, NEW k \in Tenants,
             AcquireCall(r, k) \/ HeartbeatCall(r, k) \/ StatusCall(r, k) \/ ReleaseCall(r, k)
      PROVE  AcquireOnly'
  BY <1>1 DEF AcquireCall, HeartbeatCall, StatusCall, ReleaseCall, Call, AcquireOnly, TypeOK
<1>2. ASSUME NEW r \in Reqs,
             Acquire(r) \/ Beat(r) \/ Drop(r) \/ DropQueue(r) \/ Abort(r)
      PROVE  AcquireOnly'
  <2>1. CASE \/ CheckAllowlist(r) \/ Purge(r) \/ CheckHeld(r) \/ Refresh(r) \/ Unqueue(r)
    BY <2>1 DEF CheckAllowlist, Purge, CheckHeld, Refresh, Unqueue, Goto, Return, Idle, At,
                AcquireOnly, TypeOK
  <2>2. CASE Count(r) \/ Enqueue(r) \/ CheckRank(r) \/ Dequeue(r) \/ Claim(r)
    BY <2>2 DEF Count, Enqueue, CheckRank, Dequeue, Claim, Goto, Return, Idle, At,
                AcquireOnly, TypeOK
  <2>3. CASE Beat(r) \/ Drop(r) \/ DropQueue(r) \/ Abort(r)
    BY <2>3 DEF Beat, Drop, DropQueue, Abort, Goto, Return, Idle, At, AcquireOnly, TypeOK
  <2> QED
    BY <1>2, <2>1, <2>2, <2>3 DEF Acquire
<1>3. ASSUME UNCHANGED req PROVE AcquireOnly'
  BY <1>3 DEF AcquireOnly
<1> QED
  BY <1>1, <1>2, <1>3 DEF Next, vars, AddAllowlist, RemoveAllowlist, Tick

\* A heartbeat extends a lease and never makes one: whoever holds a slot anew
\* has just acquired it.
THEOREM LeasesAreAcquired == Spec => HeartbeatNeverClaims
<1> DEFINE New == \A k \in Held' \ Held : \E r \in Reqs : Key(r) = k /\ req[r].op = "acquire"
<1>1. TypeOK /\ AcquireOnly /\ [Next]_vars => [New]_vars
  <2> SUFFICES ASSUME TypeOK, AcquireOnly, [Next]_vars, NEW k \in Held' \ Held
               PROVE  \E r \in Reqs : Key(r) = k /\ req[r].op = "acquire"
    OBVIOUS
  <2>1. k \in Tenants /\ active[k] = Absent /\ active'[k] # Absent
    BY DEF Held
  <2>2. ASSUME NEW r \in Reqs, Refresh(r) \/ Claim(r) PROVE Key(r) = k /\ req[r].op = "acquire"
    BY <2>1, <2>2 DEF Refresh, Claim, Lease, At, AcquireOnly, TypeOK
  <2>3. ASSUME NEW r \in Reqs, Purge(r) \/ Beat(r) \/ Drop(r) PROVE FALSE
    BY <2>1, <2>3 DEF Purge, Beat, Drop, Lease, Held, TypeOK
  <2>4. \E r \in Reqs : Refresh(r) \/ Claim(r) \/ Purge(r) \/ Beat(r) \/ Drop(r)
    BY <2>1 DEF Next, vars, Acquire, AcquireCall, HeartbeatCall, StatusCall, ReleaseCall, Call,
                CheckAllowlist, CheckHeld, Unqueue, Count, Enqueue, CheckRank, Dequeue,
                DropQueue, Abort, AddAllowlist, RemoveAllowlist, Tick
  <2> QED
    BY <2>2, <2>3, <2>4
<1>2. Init => AcquireOnly
  BY DEF Init, Idle, AcquireOnly
<1>3. TypeOK /\ AcquireOnly /\ [Next]_vars => AcquireOnly'
  BY AcquireOnlyStep
<1> QED
  BY <1>1, <1>2, <1>3, TypeCorrect, PTL DEF Spec, HeartbeatNeverClaims

----------------------------------------------------------------------------
(* One request at a time: what it has read still holds when it acts on it  *)

WhatIsRead ==
  \A r \in Reqs :
    /\ At(r, "held") \/ At(r, "count") => \A k \in Held : active[k] > req[r].now
    /\ At(r, "refresh") => Key(r) \in Held \/ req[r].allow
    /\ At(r, "enqueue") \/ At(r, "rank") => req[r].seen = Cardinality(Held)
    /\ At(r, "rank") \/ At(r, "dequeue") => Key(r) \in Queued
    /\ At(r, "dequeue") => Cardinality(Ahead(Key(r))) + Cardinality(Held) < Cap
    /\ At(r, "claim") => Cardinality(Held) < Cap /\ Key(r) \notin Queued

LEMMA OneRequest ==
  ASSUME Cardinality(Reqs) = 1
  PROVE  \E r : Reqs = {r}
BY FS_Singleton, ReqsAssumption

LEMMA NumbersOfTenants ==
  /\ Cardinality(Held) \in Nat
  /\ \A k : Cardinality(Ahead(k)) \in Nat
<1>1. Held \in SUBSET Tenants /\ \A k : Ahead(k) \in SUBSET Tenants
  BY DEF Held, Ahead, Queued
<1> QED
  BY <1>1, SlotsAreCounted

LEMMA WhatIsReadStep ==
  ASSUME Cardinality(Reqs) = 1, TypeOK, WhatIsRead, [Next]_vars
  PROVE  WhatIsRead'
<1>1. PICK one : Reqs = {one}
  BY OneRequest
<1> DEFINE r == one
<1>2. r \in Reqs
  BY <1>1
<1>3. ASSUME req'[r].pc \notin {"held", "count", "refresh", "enqueue", "rank", "dequeue", "claim"}
      PROVE  WhatIsRead'
  BY <1>1, <1>3 DEF WhatIsRead, At
<1>4. ASSUME NEW k \in Tenants,
             AcquireCall(r, k) \/ HeartbeatCall(r, k) \/ StatusCall(r, k) \/ ReleaseCall(r, k)
      PROVE  WhatIsRead'
  BY <1>2, <1>3, <1>4 DEF AcquireCall, HeartbeatCall, StatusCall, ReleaseCall, Call, TypeOK
<1>5. CASE \/ CheckAllowlist(r) \/ Refresh(r) \/ Unqueue(r) \/ Claim(r)
           \/ Beat(r) \/ Drop(r) \/ DropQueue(r) \/ Abort(r)
  BY <1>2, <1>3, <1>5 DEF CheckAllowlist, Refresh, Unqueue, Claim, Beat, Drop, DropQueue, Abort,
                          Goto, Return, Idle, TypeOK
<1>6. CASE Purge(r)
  <2>1. CASE req'[r].pc = "held"
    <3>1. req'[r].now = req[r].now
      BY <1>2, <1>6, <2>1 DEF Purge, Goto, Return, Idle, TypeOK
    <3>2. \A k \in Held' : active'[k] > req[r].now
      <4> SUFFICES ASSUME NEW k \in Held' PROVE active'[k] > req[r].now
        OBVIOUS
      <4>1. k \in Tenants /\ ~Expired(k, req[r].now) /\ active'[k] = active[k]
        BY <1>6 DEF Purge, Held
      <4>2. active[k] \in Int /\ req[r].now \in Int
        BY <1>2, <4>1 DEF TypeOK, Times
      <4> QED
        BY <4>1, <4>2 DEF Expired
    <3> QED
      BY <1>1, <2>1, <3>1, <3>2 DEF WhatIsRead, At
  <2>2. CASE req'[r].pc # "held"
    BY <1>2, <1>3, <1>6, <2>2 DEF Purge, Goto, Return, Idle, TypeOK
  <2> QED
    BY <2>1, <2>2
<1>7. CASE CheckHeld(r)
  <2>1. /\ UNCHANGED <<active, queue>> /\ req'[r].now = req[r].now /\ req'[r].key = req[r].key
        /\ req'[r].allow = req[r].allow
        /\ req'[r].pc = IF Key(r) \in Held \/ req[r].allow THEN "refresh" ELSE "count"
    BY <1>2, <1>7 DEF CheckHeld, Goto, TypeOK
  <2>2. \A k \in Held : active[k] > req[r].now
    BY <1>2, <1>7 DEF CheckHeld, WhatIsRead
  <2> QED
    BY <1>1, <2>1, <2>2 DEF WhatIsRead, At, Key, Held
<1>8. CASE Count(r)
  <2>1. /\ UNCHANGED <<active, queue>> /\ req'[r].pc = "enqueue"
        /\ req'[r].seen = Cardinality(Held) /\ Held' = Held
    BY <1>2, <1>8 DEF Count, SlotsTaken, TypeOK, Held
  <2> QED
    BY <1>1, <2>1 DEF WhatIsRead, At
<1>9. CASE Enqueue(r)
  <2>1. /\ req'[r].pc = "rank" /\ req'[r].seen = req[r].seen /\ req'[r].key = req[r].key
        /\ Held' = Held /\ req[r].seen = Cardinality(Held)
    BY <1>2, <1>9 DEF Enqueue, Goto, TypeOK, Held, WhatIsRead
  <2>2. Key(r) \in Tenants /\ req[r].now # Absent
    BY <1>2, <1>9 DEF Enqueue, TypeOK, At, Absent
  <2>3. queue'[Key(r)] # Absent
    BY <1>9, <2>2 DEF Enqueue, JoinScore, Queued, TypeOK
  <2> QED
    BY <1>1, <2>1, <2>2, <2>3 DEF WhatIsRead, At, Key, Queued
<1>10. CASE CheckRank(r)
  <2>1. CASE Goto(r, "dequeue") /\ Fits(Rank(Key(r)), Cap - req[r].seen)
    <3>1. Key(r) \in Queued /\ req[r].seen = Cardinality(Held)
      BY <1>2, <1>10 DEF CheckRank, WhatIsRead
    <3>2. Cardinality(Ahead(Key(r))) + Cardinality(Held) < Cap
      BY <2>1, <3>1, NumbersOfTenants DEF Fits, Rank
    <3>3. /\ req'[r].pc = "dequeue" /\ req'[r].key = req[r].key
          /\ UNCHANGED <<active, queue>>
      BY <1>2, <1>10, <2>1 DEF CheckRank, Goto, TypeOK
    <3>4. Key(r)' = Key(r) /\ Held' = Held /\ Queued' = Queued /\ Ahead(Key(r))' = Ahead(Key(r))
      BY <3>3 DEF Key, Held, Queued, Ahead, Before
    <3> QED
      BY <1>1, <3>1, <3>2, <3>3, <3>4 DEF WhatIsRead, At
  <2>2. CASE Return(r)
    BY <1>2, <1>3, <2>2 DEF Return, Idle, TypeOK
  <2> QED
    BY <1>10, <2>1, <2>2 DEF CheckRank
<1>11. CASE Dequeue(r)
  <2>1. Cardinality(Ahead(Key(r))) + Cardinality(Held) < Cap
    BY <1>2, <1>11 DEF Dequeue, WhatIsRead
  <2>2. Cardinality(Held) < Cap
    BY <2>1, NumbersOfTenants
  <2>3. /\ req'[r].pc = "claim" /\ req'[r].key = req[r].key /\ Held' = Held
        /\ queue' = [queue EXCEPT ![Key(r)] = Absent]
    BY <1>2, <1>11 DEF Dequeue, LeaveQueue, Goto, TypeOK, Held
  <2>4. Key(r) \notin Queued'
    BY <2>3 DEF Queued, TypeOK
  <2> QED
    BY <1>1, <2>2, <2>3, <2>4 DEF WhatIsRead, At, Key
<1>12. ASSUME UNCHANGED <<active, queue, req>> PROVE WhatIsRead'
  BY <1>12 DEF WhatIsRead, At, Key, Held, Queued, Ahead, Before
<1> QED
  BY <1>1, <1>4, <1>5, <1>6, <1>7, <1>8, <1>9, <1>10, <1>11, <1>12
     DEF Next, vars, Acquire, AddAllowlist, RemoveAllowlist, Tick

LEMMA WhatIsReadHolds ==
  ASSUME Cardinality(Reqs) = 1
  PROVE  Spec => [](TypeOK /\ WhatIsRead)
<1>1. Init => WhatIsRead
  BY DEF Init, Idle, WhatIsRead, At
<1>2. TypeOK /\ WhatIsRead /\ [Next]_vars => WhatIsRead'
  BY WhatIsReadStep
<1> QED
  BY <1>1, <1>2, TypeCorrect, PTL DEF Spec

\* An expired lease keeps nobody out.
THEOREM ExpiredAreNotCounted ==
  ASSUME Cardinality(Reqs) = 1
  PROVE  Spec => []OnlyLiveCounted
<1>1. WhatIsRead => OnlyLiveCounted
  BY DEF WhatIsRead, OnlyLiveCounted
<1> QED
  BY <1>1, WhatIsReadHolds, PTL

\* A waiter is admitted when there is room for it and for all ahead of it.
THEOREM AdmissionIsInOrder ==
  ASSUME Cardinality(Reqs) = 1
  PROVE  Spec => AdmittedInOrder
<1> DEFINE Fair == \A r \in Reqs :
                     At(r, "dequeue") /\ Key(r) \in Queued \ Queued'
                       => Cardinality(Ahead(Key(r))) + Cardinality(Held) < Cap
                          \/ req'[r].pc = "idle"
<1>1. WhatIsRead => Fair
  BY DEF WhatIsRead
<1>2. WhatIsRead /\ [Next]_vars => [Fair]_vars
  BY <1>1
<1> QED
  BY <1>2, WhatIsReadHolds, PTL DEF Spec, AdmittedInOrder

----------------------------------------------------------------------------
(* Refinement: one request at a time implements the pool of slots          *)

InPool == Queued \union {Key(r) : r \in {q \in Reqs : At(q, "claim")}}

\* What a command that writes neither set is in the pool.
LEMMA PoolRests ==
  ASSUME UNCHANGED <<active, queue>>,
         \A r \in Reqs : At(r, "claim")' <=> At(r, "claim"),
         \A r \in Reqs : At(r, "claim") => Key(r)' = Key(r)
  PROVE  Held' = Held /\ InPool' = InPool
<1>1. Held' = Held /\ Queued' = Queued
  BY DEF Held, Queued
<1>2. {Key(r) : r \in {q \in Reqs : At(q, "claim")}}' = {Key(r) : r \in {q \in Reqs : At(q, "claim")}}
  OBVIOUS
<1> QED
  BY <1>1, <1>2 DEF InPool

LEMMA PoolStep ==
  ASSUME Cardinality(Reqs) = 1, TypeOK, AllowIsPriority, WhatIsRead, [Next]_vars
  PROVE  \/ Held' = Held /\ InPool' = InPool
         \/ \E k \in Tenants :
              \/ InPool' = InPool \union {k} /\ Held' = Held
              \/ /\ k \in InPool /\ Cardinality(Held) < Cap
                 /\ Held' = Held \union {k} /\ InPool' = InPool \ {k}
              \/ k \in Priority /\ Held' = Held \union {k} /\ InPool' = InPool
              \/ InPool' = InPool \ {k} /\ Held' = Held
         \/ \E K \in SUBSET Tenants : Held' = Held \ K /\ InPool' = InPool
<1>1. PICK r : Reqs = {r}
  BY OneRequest
<1>2. r \in Reqs
  BY <1>1
<1>3. ~At(r, "claim") => InPool = Queued
  BY <1>1 DEF InPool
<1>4. ~At(r, "claim")' => InPool' = Queued'
  BY <1>1 DEF InPool
<1>5. At(r, "claim") => InPool = Queued \union {Key(r)}
  BY <1>1 DEF InPool
<1>6. At(r, "claim")' => InPool' = (Queued \union {Key(r)})'
  BY <1>1 DEF InPool
<1>7. ~At(r, "idle") => Key(r) \in Tenants /\ req[r].now \in Nat \ {0}
  BY <1>2 DEF TypeOK
<1>8. ASSUME NEW k \in Tenants,
             AcquireCall(r, k) \/ HeartbeatCall(r, k) \/ StatusCall(r, k) \/ ReleaseCall(r, k)
      PROVE  Held' = Held /\ InPool' = InPool
  <2>1. UNCHANGED <<active, queue>> /\ ~At(r, "claim") /\ ~At(r, "claim")'
    BY <1>2, <1>8 DEF AcquireCall, HeartbeatCall, StatusCall, ReleaseCall, Call, At, TypeOK
  <2> QED
    BY <1>1, <2>1, PoolRests
<1>9. CASE CheckAllowlist(r) \/ CheckHeld(r) \/ Count(r) \/ CheckRank(r)
  <2>1. UNCHANGED <<active, queue>> /\ ~At(r, "claim") /\ ~At(r, "claim")'
    BY <1>2, <1>9 DEF CheckAllowlist, CheckHeld, Count, CheckRank, Goto, Return, Idle, At, TypeOK
  <2>2. Held' = Held /\ InPool' = InPool
    BY <1>1, <2>1, PoolRests
  <2> QED
    BY <2>2
<1>10. CASE Purge(r)
  <2>1. ~At(r, "claim") /\ ~At(r, "claim")' /\ Queued' = Queued
    BY <1>2, <1>10 DEF Purge, Goto, Return, Idle, At, TypeOK, Queued
  <2>2. Held' = Held \ (Held \ Held') /\ Held \ Held' \in SUBSET Tenants
    BY <1>10 DEF Purge, Held, Absent
  <2> QED
    BY <1>3, <1>4, <2>1, <2>2
<1>11. CASE Drop(r)
  <2>1. ~At(r, "claim") /\ ~At(r, "claim")' /\ Queued' = Queued
    BY <1>2, <1>11 DEF Drop, Goto, At, TypeOK, Queued
  <2>2. Held' = Held \ {Key(r)} /\ {Key(r)} \in SUBSET Tenants
    BY <1>7, <1>11 DEF Drop, Held, Absent, At, TypeOK
  <2> QED
    BY <1>3, <1>4, <2>1, <2>2
<1>12. CASE Refresh(r)
  <2>1. ~At(r, "claim") /\ ~At(r, "claim")' /\ Queued' = Queued
    BY <1>2, <1>12 DEF Refresh, Goto, At, TypeOK, Queued
  <2>2. Key(r) \in Held \/ Key(r) \in Priority
    BY <1>2, <1>12 DEF Refresh, WhatIsRead, AllowIsPriority
  <2>3. Key(r) \in Tenants /\ req[r].now + TTL # Absent
    BY <1>7, <1>12, LimitsAssumption DEF Refresh, At, Absent
  <2>4. Held' = Held \union {Key(r)}
    BY <1>12, <2>3 DEF Refresh, Lease, Held, TypeOK
  <2> QED
    BY <1>3, <1>4, <2>1, <2>2, <2>3, <2>4
<1>13. CASE Unqueue(r) \/ DropQueue(r)
  <2>1. ~At(r, "claim") /\ ~At(r, "claim")' /\ Held' = Held
    BY <1>2, <1>13 DEF Unqueue, DropQueue, Return, Idle, At, TypeOK, Held
  <2>2. Key(r) \in Tenants /\ Queued' = Queued \ {Key(r)}
    BY <1>7, <1>13 DEF Unqueue, DropQueue, LeaveQueue, Queued, At, TypeOK
  <2> QED
    BY <1>3, <1>4, <2>1, <2>2
<1>14. CASE Enqueue(r)
  <2>1. ~At(r, "claim") /\ ~At(r, "claim")' /\ Held' = Held
    BY <1>2, <1>14 DEF Enqueue, Goto, At, TypeOK, Held
  <2>2. Key(r) \in Tenants /\ req[r].now # Absent
    BY <1>7, <1>14 DEF Enqueue, At, Absent
  <2>3. Queued' = Queued \union {Key(r)}
    BY <1>14, <2>2 DEF Enqueue, JoinScore, Queued, TypeOK
  <2> QED
    BY <1>3, <1>4, <2>1, <2>2, <2>3
<1>15. CASE Dequeue(r)
  <2>1. ~At(r, "claim") /\ At(r, "claim")' /\ Held' = Held /\ Key(r)' = Key(r)
    BY <1>2, <1>15 DEF Dequeue, Goto, At, TypeOK, Held, Key
  <2>2. Key(r) \in Queued
    BY <1>2, <1>15 DEF Dequeue, WhatIsRead
  <2>3. Queued' = Queued \ {Key(r)}
    BY <1>15, <2>2 DEF Dequeue, LeaveQueue, Queued, TypeOK
  <2> QED
    BY <1>3, <1>6, <2>1, <2>2, <2>3
<1>16. CASE Claim(r)
  <2>1. At(r, "claim") /\ ~At(r, "claim")' /\ Queued' = Queued
    BY <1>2, <1>16 DEF Claim, Return, Idle, At, TypeOK, Queued
  <2>2. Cardinality(Held) < Cap /\ Key(r) \notin Queued
    BY <1>2, <2>1 DEF WhatIsRead
  <2>3. Key(r) \in Tenants /\ req[r].now + TTL # Absent
    BY <1>7, <2>1, LimitsAssumption DEF At, Absent
  <2>4. Held' = Held \union {Key(r)}
    BY <1>16, <2>3 DEF Claim, Lease, Held, TypeOK
  <2> QED
    BY <1>4, <1>5, <2>1, <2>2, <2>3, <2>4
<1>17. CASE Beat(r)
  <2>1. ~At(r, "claim") /\ ~At(r, "claim")' /\ Queued' = Queued
    BY <1>2, <1>17 DEF Beat, Return, Idle, At, TypeOK, Queued
  <2>2. Key(r) \in Tenants /\ req[r].now + TTL # Absent
    BY <1>7, <1>17, LimitsAssumption DEF Beat, At, Absent
  <2>3. Held' = Held
    BY <1>17, <2>2 DEF Beat, Lease, Held, TypeOK
  <2> QED
    BY <1>3, <1>4, <2>1, <2>3
<1>18. CASE Abort(r)
  <2>1. ~At(r, "claim")' /\ Held' = Held /\ Queued' = Queued /\ Key(r) \in Tenants
    BY <1>2, <1>7, <1>18 DEF Abort, Return, Idle, At, TypeOK, Held, Queued
  <2>2. CASE At(r, "claim")
    <3>1. Key(r) \notin Queued
      BY <1>2, <2>2 DEF WhatIsRead
    <3> QED
      BY <1>4, <1>5, <2>1, <2>2, <3>1
  <2>3. CASE ~At(r, "claim")
    BY <1>3, <1>4, <2>1, <2>3
  <2> QED
    BY <2>2, <2>3
<1>19. ASSUME UNCHANGED <<active, queue, req>> PROVE Held' = Held /\ InPool' = InPool
  BY <1>19 DEF InPool, Held, Queued, At, Key
<1> QED
  BY <1>1, <1>8, <1>9, <1>10, <1>11, <1>12, <1>13, <1>14, <1>15, <1>16, <1>17, <1>18, <1>19
     DEF Next, vars, Acquire, AddAllowlist, RemoveAllowlist, Tick

\* Served one at a time, acquire, heartbeat and release are operations on a pool
\* of slots with a queue, whichever of their commands fail.
THEOREM OneAtATimeIsAPool ==
  ASSUME Cardinality(Reqs) = 1
  PROVE  Spec => ImplementsPool
<1>1. Init => Pool!Init
  BY DEF Init, Idle, Pool!Init, Held, Queued, At
<1>2. Pool!Cardinality(Held) = Cardinality(Held)
  BY DEF Cardinality, Pool!Cardinality
<1>3. TypeOK /\ AllowIsPriority /\ WhatIsRead /\ [Next]_vars => [Pool!Next]_(Pool!poolVars)
  BY PoolStep, <1>2 DEF InPool, Pool!Next, Pool!poolVars, Pool!Join, Pool!Admit, Pool!AdmitPriority,
                  Pool!Vacate, Pool!LeaveQueue
<1>4. IInv => AllowIsPriority
  BY DEF IInv
<1> QED
  BY <1>1, <1>3, <1>4, BoundInit, BoundStep, WhatIsReadHolds, PTL DEF Spec, ImplementsPool, Pool!Spec

============================================================================

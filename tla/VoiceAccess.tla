---------------------------- MODULE VoiceAccess ----------------------------
(***************************************************************************)
(* The access engine for live voice calls (services/access.py).            *)
(*                                                                         *)
(* Two Redis sorted sets are shared by every API request: voice:active     *)
(* (member = tenant, score = the second its lease expires) and voice:queue *)
(* (member = tenant, score = the second it joined).  A request is a series *)
(* of single Redis commands with an await between any two of them, so a    *)
(* step of this module is one Redis command (or the one database read) and *)
(* the requests in Reqs interleave freely.                                 *)
(***************************************************************************)
EXTENDS Integers, FiniteSets

CONSTANTS
  Tenants,    \* tenant keys: numbers in the order Redis compares the UUIDs
  Priority,   \* tenants whose caller may be put on the allowlist
  Reqs,       \* the requests the API can be serving at the same time
  Cap,        \* MAX_CONCURRENT_VOICE
  TTL,        \* VOICE_SESSION_TTL_SECONDS
  MaxClock    \* bound on the clock, for model checking only

ASSUME TenantsAssumption  == Tenants \subseteq Nat \ {0} /\ IsFiniteSet(Tenants)
ASSUME PriorityAssumption == Priority \subseteq Tenants
ASSUME ReqsAssumption     == IsFiniteSet(Reqs) /\ Reqs # {}
ASSUME LimitsAssumption   == Cap \in Nat /\ TTL \in Nat \ {0} /\ MaxClock \in Nat \ {0}

VARIABLES
  clock,      \* int(time.time()), the same on every worker
  allowlist,  \* tenants whose caller's e-mail is on the allowlist now
  active,     \* voice:active, Absent for a tenant that is no member
  queue,      \* voice:queue, Absent for a tenant that is no member
  req         \* the requests being served: next Redis command and locals

vars == <<clock, allowlist, active, queue, req>>

Absent == 0   \* the clock starts at 1, so no score is ever 0

\* pc: the next command.  op: the endpoint.  key: its tenant_key.  now: its
\* "now", read once before the first command.  allow: its "allow".  seen: its
\* "active", the ZCARD it has read.
Idle == [pc |-> "idle", op |-> "none", key |-> Absent, now |-> 0,
         allow |-> FALSE, seen |-> 0]
Key(r) == req[r].key

Held   == {k \in Tenants : active[k] # Absent}
Queued == {k \in Tenants : queue[k] # Absent}

\* ZRANK order of the queue: by score, then by member.
Before(j, k) == \/ queue[j] < queue[k]
                \/ queue[j] = queue[k] /\ j < k
Ahead(k) == {j \in Queued \ {k} : Before(j, k)}

\* A missing ZRANK answer counts as rank 0.
Rank_Ignored(k) == 0
Rank(k) == IF k \in Queued THEN Cardinality(Ahead(k)) ELSE 0

Fits_OffByOne(rank, free) == rank <= free
Fits(rank, free) == rank < free

Init ==
  /\ clock = 1
  /\ allowlist \in SUBSET Priority
  /\ active = [k \in Tenants |-> Absent]
  /\ queue = [k \in Tenants |-> Absent]
  /\ req = [r \in Reqs |-> Idle]

----------------------------------------------------------------------------
(* Steps every endpoint is made of.                                        *)

At(r, label) == req[r].pc = label
Goto(r, label) == req' = [req EXCEPT ![r].pc = label]
Return(r) == req' = [req EXCEPT ![r] = Idle]

\* ZREMRANGEBYSCORE voice:active -inf now: the bound is inclusive.
Expired_Strict(k, t) == active[k] < t
Expired(k, t) == active[k] <= t

Call(r, k, endpoint, first) ==
  /\ At(r, "idle")
  /\ req' = [req EXCEPT ![r] = [pc |-> first, op |-> endpoint, key |-> k,
                               now |-> clock, allow |-> FALSE, seen |-> 0]]
  /\ UNCHANGED <<clock, allowlist, active, queue>>

AcquireCall(r, k)   == Call(r, k, "acquire", "allowlist")
HeartbeatCall(r, k) == Call(r, k, "heartbeat", "purge")
StatusCall(r, k)    == Call(r, k, "status", "purge")
ReleaseCall(r, k)   == Call(r, k, "release", "drop")

\* Status and the admin snapshot only read after the purge, so they end here.
Purge(r) ==
  /\ At(r, "purge")
  /\ active' = [k \in Tenants |-> IF Expired(k, req[r].now) THEN Absent ELSE active[k]]
  /\ \/ req[r].op = "acquire" /\ Goto(r, "held")
     \/ req[r].op = "heartbeat" /\ Goto(r, "beat")
     \/ req[r].op = "status" /\ Return(r)
  /\ UNCHANGED <<clock, allowlist, queue>>

----------------------------------------------------------------------------
(* acquire                                                                 *)

CheckAllowlist(r) ==
  /\ At(r, "allowlist")
  /\ req' = [req EXCEPT ![r].allow = Key(r) \in allowlist, ![r].pc = "purge"]
  /\ UNCHANGED <<clock, allowlist, active, queue>>

\* A holder and an allowlisted caller are granted by the same two commands.
CheckHeld(r) ==
  /\ At(r, "held")
  /\ Goto(r, IF Key(r) \in Held \/ req[r].allow THEN "refresh" ELSE "count")
  /\ UNCHANGED <<clock, allowlist, active, queue>>

\* ZADD voice:active, in the order of each of the two granting branches.
Lease_Stacked(r) == active' = [active EXCEPT ![Key(r)] = @ + TTL]
Lease(r) == active' = [active EXCEPT ![Key(r)] = req[r].now + TTL]
LeaveQueue(r) == queue' = [queue EXCEPT ![Key(r)] = Absent]

Refresh(r) ==
  /\ At(r, "refresh")
  /\ Lease(r)
  /\ Goto(r, "unqueue")
  /\ UNCHANGED <<clock, allowlist, queue>>

Unqueue(r) ==
  /\ At(r, "unqueue")
  /\ LeaveQueue(r)
  /\ Return(r)
  /\ UNCHANGED <<clock, allowlist, active>>

SlotsTaken_NoAllowlisted == Cardinality(Held \ Priority)
SlotsTaken == Cardinality(Held)   \* ZCARD voice:active, allowlisted ones too

Count(r) ==
  /\ At(r, "count")
  /\ req' = [req EXCEPT ![r].seen = SlotsTaken, ![r].pc = "enqueue"]
  /\ UNCHANGED <<clock, allowlist, active, queue>>

\* ZADD NX: a tenant that already waits keeps its place.
JoinScore_NoNX(k, t) == t
JoinScore(k, t) == IF k \in Queued THEN queue[k] ELSE t

Enqueue(r) ==
  /\ At(r, "enqueue")
  /\ queue' = [queue EXCEPT ![Key(r)] = JoinScore(Key(r), req[r].now)]
  /\ Goto(r, "rank")
  /\ UNCHANGED <<clock, allowlist, active>>

\* Either there is room for the caller and everyone ahead, or it stays queued.
CheckRank(r) ==
  /\ At(r, "rank")
  /\ IF Fits(Rank(Key(r)), Cap - req[r].seen) THEN Goto(r, "dequeue") ELSE Return(r)
  /\ UNCHANGED <<clock, allowlist, active, queue>>

Dequeue(r) ==
  /\ At(r, "dequeue")
  /\ LeaveQueue(r)
  /\ Goto(r, "claim")
  /\ UNCHANGED <<clock, allowlist, active>>

Claim(r) ==
  /\ At(r, "claim")
  /\ Lease(r)
  /\ Return(r)
  /\ UNCHANGED <<clock, allowlist, queue>>

----------------------------------------------------------------------------
(* heartbeat and release                                                   *)

\* ZADD XX: only a lease that is still there is extended.
Beat_NoXX(r) ==
  /\ At(r, "beat")
  /\ Lease(r)
  /\ Return(r)
  /\ UNCHANGED <<clock, allowlist, queue>>
Beat(r) ==
  /\ At(r, "beat")
  /\ IF Key(r) \in Held THEN Lease(r) ELSE UNCHANGED active
  /\ Return(r)
  /\ UNCHANGED <<clock, allowlist, queue>>

Drop(r) ==
  /\ At(r, "drop")
  /\ active' = [active EXCEPT ![Key(r)] = Absent]
  /\ Goto(r, "dropqueue")
  /\ UNCHANGED <<clock, allowlist, queue>>

DropQueue(r) ==
  /\ At(r, "dropqueue")
  /\ LeaveQueue(r)
  /\ Return(r)
  /\ UNCHANGED <<clock, allowlist, active>>

----------------------------------------------------------------------------
(* The environment                                                         *)

\* A command fails or the worker dies: what was written stays written.
Abort(r) ==
  /\ ~At(r, "idle")
  /\ Return(r)
  /\ UNCHANGED <<clock, allowlist, active, queue>>

Tick ==
  /\ clock < MaxClock
  /\ clock' = clock + 1
  /\ UNCHANGED <<allowlist, active, queue, req>>

AddAllowlist(k) ==
  /\ allowlist' = allowlist \union {k}
  /\ UNCHANGED <<clock, active, queue, req>>

RemoveAllowlist(k) ==
  /\ allowlist' = allowlist \ {k}
  /\ UNCHANGED <<clock, active, queue, req>>

Acquire(r) ==
  \/ CheckAllowlist(r) \/ Purge(r) \/ CheckHeld(r) \/ Refresh(r) \/ Unqueue(r)
  \/ Count(r) \/ Enqueue(r) \/ CheckRank(r) \/ Dequeue(r) \/ Claim(r)

Next ==
  \/ \E r \in Reqs, k \in Tenants :
       AcquireCall(r, k) \/ HeartbeatCall(r, k) \/ StatusCall(r, k) \/ ReleaseCall(r, k)
  \/ \E r \in Reqs : Acquire(r) \/ Beat(r) \/ Drop(r) \/ DropQueue(r) \/ Abort(r)
  \/ \E k \in Priority : AddAllowlist(k) \/ RemoveAllowlist(k)
  \/ Tick

Spec == Init /\ [][Next]_vars

----------------------------------------------------------------------------
(* Properties                                                              *)

Times == 0 .. (MaxClock + TTL)

\* Every score is a time, and a request that is being served has its locals.
TypeOK ==
  /\ clock \in 1 .. MaxClock
  /\ allowlist \subseteq Priority
  /\ active \in [Tenants -> Times]
  /\ queue \in [Tenants -> Times]
  /\ req \in [Reqs -> [pc : {"idle", "allowlist", "purge", "held", "refresh", "unqueue",
                              "count", "enqueue", "rank", "dequeue", "claim", "beat",
                              "drop", "dropqueue"},
                       op : {"none", "acquire", "heartbeat", "status", "release"},
                       key : Tenants \union {Absent},
                       now : Times, allow : BOOLEAN, seen : 0 .. Cardinality(Tenants)]]
  /\ \A r \in Reqs : ~At(r, "idle") => Key(r) \in Tenants /\ req[r].now \in 1 .. clock

\* Requests that may still write a lease for a tenant that has none: their
\* decision rests on what they read, not on what the set holds now.
Committed(r) ==
  \/ req[r].pc \in {"refresh", "dequeue", "claim"}
  \/ req[r].pc \in {"enqueue", "rank"} /\ req[r].seen < Cap

Promised == {Key(r) : r \in {q \in Reqs : Committed(q)}}

SpokenFor == (Held \union Promised) \ Priority

\* Slots held or already promised, allowlisted tenants aside, never exceed the
\* cap by more than the number of requests that can overlap the one counting.
PromisedBounded ==
  Cardinality(SpokenFor) <= Cap + Cardinality(Reqs) - 1

\* The price of acquire not being atomic is bounded: the holders outside the
\* allowlist exceed the cap by at most the other requests served at the time.
HoldersBounded ==
  Cardinality(Held \ Priority) <= Cap + Cardinality(Reqs) - 1

\* Only the allowlist of the moment it was read sets a request's "allow".
AllowIsPriority == \A r \in Reqs : req[r].allow => Key(r) \in Priority

\* MAX_CONCURRENT_VOICE as documented: at most Cap unexpired leases outside the
\* allowlist.  It holds when requests are served one at a time, not otherwise.
CapRespected ==
  Cardinality({k \in Tenants \ Priority : active[k] > clock}) <= Cap

\* Two tenants that keep waiting never swap places, however often and in
\* whatever overlap they ask again (ZADD NX in acquire).
PlaceKept ==
  [][\A j, k \in Queued \intersect Queued' : Before(j, k) => Before(j, k)']_vars

\* No heartbeat brings back a lease that is gone: one that expired or was
\* released has to be acquired again, behind whoever waits.
HeartbeatNeverClaims ==
  [][\A k \in Held' \ Held : \E r \in Reqs : Key(r) = k /\ req[r].op = "acquire"]_vars

\* An expired lease never keeps a waiter out: when acquire counts the slots,
\* each one counted is of a lease that runs beyond the caller's "now".
OnlyLiveCounted ==
  \A r \in Reqs : At(r, "count") => \A k \in Held : active[k] > req[r].now

\* A waiter leaves the queue for a slot only when the free slots are enough
\* for it and for everybody who waits ahead of it.
AdmittedInOrder ==
  [][\A r \in Reqs :
       At(r, "dequeue") /\ Key(r) \in Queued \ Queued'
         => Cardinality(Ahead(Key(r))) + Cardinality(Held) < Cap
            \/ req'[r].pc = "idle"]_vars

----------------------------------------------------------------------------
(* Refinement: served one at a time, requests implement the pool of slots. *)

Pool == INSTANCE VoicePool
  WITH holders <- Held,
       waiting <- Queued \union {Key(r) : r \in {q \in Reqs : At(q, "claim")}}

\* Every Redis command is one step of the abstract pool, or none.
ImplementsPool == Pool!Spec

============================================================================

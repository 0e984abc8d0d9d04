------------------------------ MODULE Keyring ------------------------------
(***************************************************************************)
(* A workspace's API keys (services/apikeys.py) and the requests of the    *)
(* public API that carry them.  A creation counts the active keys and      *)
(* inserts; a request that touches last_used_at holds the key's row from   *)
(* that flush to the end of its transaction, which may be a chat turn.     *)
(***************************************************************************)
EXTENDS Integers, FiniteSets

CONSTANTS
  Creations,  \* create_key requests; one that succeeds names its key
  Uses,       \* requests of the public API
  Revokers,   \* revoke_key requests
  MaxKeys     \* MAX_KEYS_PER_TENANT

ASSUME MaxKeysAssumption == MaxKeys \in Nat \ {0} /\ IsFiniteSet(Creations)

VARIABLES
  key,       \* each key: none, active, revoked
  making,    \* each creation
  peak,      \* the most creations that were under way together
  fresh,     \* keys used within _TOUCH_EVERY
  holder,    \* the transaction that holds each key's row
  use,       \* each API request
  revoker    \* each revocation

ringVars == <<key, making, peak, fresh, holder, use, revoker>>
Nobody == "nobody"

RingInit ==
  /\ key = [c \in Creations |-> "none"]
  /\ making = [c \in Creations |-> "idle"]
  /\ peak = 0 /\ fresh = {}
  /\ holder = [c \in Creations |-> Nobody]
  /\ use = [u \in Uses |-> [pc |-> "idle", key |-> Nobody, late |-> FALSE]]
  /\ revoker = [v \in Revokers |-> [pc |-> "idle", key |-> Nobody]]

Active == {k \in Creations : key[k] = "active"}
UnderWay == {c \in Creations : making[c] = "counted"}
Raised(n) == IF n > peak THEN n ELSE peak

----------------------------------------------------------------------------
(* create_key and revoke_key                                               *)

HasRoom_Late == Cardinality(Active) <= MaxKeys
HasRoom == Cardinality(Active) < MaxKeys

CountKeys(c) ==
  /\ making[c] = "idle"
  /\ making' = [making EXCEPT ![c] = IF HasRoom THEN "counted" ELSE "refused"]
  /\ peak' = IF HasRoom THEN Raised(Cardinality(UnderWay) + 1) ELSE peak
  /\ UNCHANGED <<key, fresh, holder, use, revoker>>

Insert(c) ==
  /\ making[c] = "counted"
  /\ \/ making' = [making EXCEPT ![c] = "made"] /\ key' = [key EXCEPT ![c] = "active"]
     \/ making' = [making EXCEPT ![c] = "failed"] /\ UNCHANGED key
  /\ UNCHANGED <<peak, fresh, holder, use, revoker>>

\* A key that is revoked as it is read stays as it is.
ReadToRevoke(v, k) ==
  /\ revoker[v].pc = "idle" /\ key[k] # "none"
  /\ revoker' = [revoker EXCEPT ![v] = [pc |-> IF key[k] = "active" THEN "revoking" ELSE "done", key |-> k]]
  /\ UNCHANGED <<key, making, peak, fresh, holder, use>>

\* The flush waits for the row, and is committed at once.
Revoke(v) ==
  LET k == revoker[v].key IN
    /\ revoker[v].pc = "revoking" /\ holder[k] = Nobody
    /\ key' = [key EXCEPT ![k] = "revoked"]
    /\ revoker' = [revoker EXCEPT ![v].pc = "done"]
    /\ UNCHANGED <<making, peak, fresh, holder, use>>

----------------------------------------------------------------------------
(* get_api_context, resolve_key and the routes of /v1                      *)

Present(u, k) ==
  /\ use[u].pc = "idle" /\ key[k] # "none"
  /\ use' = [use EXCEPT ![u] = [pc |-> "resolving", key |-> k, late |-> key[k] = "revoked"]]
  /\ UNCHANGED <<key, making, peak, fresh, holder, revoker>>

Accepts(k) == key[k] = "active"

Resolve(u) ==
  LET k == use[u].key IN
    /\ use[u].pc = "resolving"
    /\ use' = [use EXCEPT ![u].pc = CASE ~Accepts(k) -> "refused"
                                      [] Accepts(k) /\ k \in fresh -> "serving"
                                      [] OTHER -> "touching"]
    /\ UNCHANGED <<key, making, peak, fresh, holder, revoker>>

\* The flush of last_used_at, which writes no other column.
Touched_Row(k) == [key EXCEPT ![k] = "active"]
Touched(k) == key

Touch(u) ==
  LET k == use[u].key IN
    /\ use[u].pc = "touching" /\ holder[k] = Nobody
    /\ holder' = [holder EXCEPT ![k] = u]
    /\ key' = Touched(k)
    /\ use' = [use EXCEPT ![u].pc = "serving"]
    /\ UNCHANGED <<making, peak, fresh, revoker>>

\* The route returns and is committed; or the limit, the workspace or the route
\* raises, and the touch is rolled back with the rest.
EndUse(u, ok) ==
  /\ use[u].pc = "serving"
  /\ use' = [use EXCEPT ![u].pc = IF ok THEN "served" ELSE "raised"]
  /\ holder' = [k \in Creations |-> IF holder[k] = u THEN Nobody ELSE holder[k]]
  /\ fresh' = IF ok /\ holder[use[u].key] = u THEN fresh \union {use[u].key} ELSE fresh
  /\ UNCHANGED <<key, making, peak, revoker>>

\* A minute goes by.
GoStale(k) ==
  /\ k \in fresh
  /\ fresh' = fresh \ {k}
  /\ UNCHANGED <<key, making, peak, holder, use, revoker>>

Serve(u) == Resolve(u) \/ Touch(u) \/ \E ok \in BOOLEAN : EndUse(u, ok)

RingNext ==
  \/ \E c \in Creations :
       \/ CountKeys(c) \/ Insert(c) \/ GoStale(c)
       \/ \E v \in Revokers : ReadToRevoke(v, c)
       \/ \E u \in Uses : Present(u, c)
  \/ \E v \in Revokers : Revoke(v)
  \/ \E u \in Uses : Serve(u)

\* A route ends: its calls to models and calendars have timeouts.  Postgres
\* queues those who wait for a row, of whom there are finitely many here.
RingFairness ==
  /\ \A u \in Uses : WF_ringVars(Serve(u))
  /\ \A v \in Revokers : WF_ringVars(Revoke(v))

RingSpec == RingInit /\ [][RingNext]_ringVars /\ RingFairness

----------------------------------------------------------------------------
(* Properties                                                              *)

\* Types, and: a row is held by a request that is being served with its key.
RingTypeOK ==
  /\ key \in [Creations -> {"none", "active", "revoked"}]
  /\ making \in [Creations -> {"idle", "counted", "refused", "made", "failed"}]
  /\ peak \in Nat /\ fresh \subseteq Creations
  /\ holder \in [Creations -> Uses \union {Nobody}]
  /\ use \in [Uses -> [pc : {"idle", "resolving", "touching", "serving", "refused", "served", "raised"},
                       key : Creations \union {Nobody}, late : BOOLEAN]]
  /\ revoker \in [Revokers -> [pc : {"idle", "revoking", "done"}, key : Creations \union {Nobody}]]
  /\ \A k \in Creations : holder[k] # Nobody => use[holder[k]].pc = "serving" /\ use[holder[k]].key = k
  /\ \A c \in Creations : key[c] # "none" => making[c] = "made"

\* "A workspace can have at most 20 active keys": creations that overlap may
\* exceed it, by no more than the number of them that were under way together.
KeysBounded == Cardinality(Active) <= MaxKeys - 1 + peak \/ Active = {}

\* A revocation is for ever: no request that read the key before, waited for
\* its row and touched it brings it back.
RevokedStaysRevoked ==
  [][\A k \in Creations : key[k] = "revoked" => key'[k] = "revoked"]_ringVars

\* A request that comes after the revocation is never served.
LateIsRefused == \A u \in Uses : use[u].late => use[u].pc \notin {"touching", "serving", "served"}

\* The row of a busy key stops nobody: each request with it is answered, and
\* each revocation is done.
EveryUseEnds ==
  /\ \A u \in Uses : use[u].pc = "resolving" ~> use[u].pc \in {"refused", "served", "raised"}
  /\ \A v \in Revokers : revoker[v].pc = "revoking" ~> revoker[v].pc = "done"

\* Keys that are in order are served, the others never, and nobody waits for ever.
KeysServed == [](RingTypeOK /\ LateIsRefused) /\ RevokedStaysRevoked /\ EveryUseEnds

============================================================================

------------------------- MODULE Workspace_proofs -------------------------
(*************************************************************************)
(* The workspace's own desk, for any number of managers, requests and    *)
(* visitors: the keys it issues, the limits it is held to, the settings  *)
(* its managers save, and the requests of the contact form.              *)
(*************************************************************************)
EXTENDS Keyring, RateWindow, WorkspaceSettings, ContactDesk, FiniteSetTheorems, TLAPS

----------------------------------------------------------------------------
(*************************************************************************)
(* API keys: how far the number of active keys can get, and what a       *)
(* revocation is worth.                                                  *)
(*************************************************************************)

ringStep == RingNext \/ UNCHANGED ringVars

----------------------------------------------------------------------------
(* Types, rows and late requests                                           *)

\* A request that has come with a key names it, and one that came late found
\* the key revoked and is not let in.
UsesInOrder ==
  \A u \in Uses :
    /\ use[u].pc # "idle" => use[u].key \in Creations
    /\ use[u].late => key[use[u].key] = "revoked" /\ use[u].key \in Creations
                      /\ use[u].pc \notin {"touching", "serving", "served"}

\* What is about to be revoked has been made.
RevokersInOrder ==
  \A v \in Revokers : revoker[v].pc = "revoking" => revoker[v].key \in Creations /\ key[revoker[v].key] # "none"

RingInv == RingTypeOK /\ UsesInOrder /\ RevokersInOrder

LEMMA RingStarts == RingInit => RingInv
  BY DEF RingInit, RingInv, RingTypeOK, UsesInOrder, RevokersInOrder

\* The actions that touch neither the requests nor the rows' holders.
LEMMA MakingKeeps ==
  ASSUME RingInv,
         \/ \E c \in Creations : CountKeys(c) \/ Insert(c) \/ GoStale(c)
         \/ \E v \in Revokers, k \in Creations : ReadToRevoke(v, k)
         \/ \E v \in Revokers : Revoke(v)
  PROVE  RingInv'
<1> USE DEF RingInv
<1>1. CASE \E c \in Creations : CountKeys(c)
  <2>1. PICK c \in Creations : CountKeys(c)
    BY <1>1
  <2>2. peak' \in Nat
    <3>1. IsFiniteSet(UnderWay)
      BY MaxKeysAssumption, FS_Subset DEF UnderWay
    <3>2. Cardinality(UnderWay) \in Nat
      BY <3>1, FS_CardinalityType
    <3> QED
      BY <2>1, <3>2 DEF CountKeys, Raised, RingTypeOK
  <2>3. RingTypeOK'
    BY <2>1, <2>2 DEF CountKeys, RingTypeOK
  <2> QED
    BY <2>1, <2>3 DEF CountKeys, UsesInOrder, RevokersInOrder
<1>2. CASE \E c \in Creations : Insert(c)
  <2>1. PICK c \in Creations : Insert(c)
    BY <1>2
  <2>2. key[c] # "revoked"
    BY <2>1 DEF Insert, RingTypeOK
  <2>3. RingTypeOK'
    BY <2>1 DEF Insert, RingTypeOK
  <2>4. \A k \in Creations : /\ key[k] = "revoked" => key'[k] = "revoked"
                             /\ key[k] # "none" => key'[k] # "none"
    BY <2>1, <2>2 DEF Insert, RingTypeOK
  <2>5. UNCHANGED <<use, revoker>>
    BY <2>1 DEF Insert
  <2> QED
    BY <2>3, <2>4, <2>5 DEF UsesInOrder, RevokersInOrder
<1>3. CASE \E c \in Creations : GoStale(c)
  BY <1>3 DEF GoStale, RingTypeOK, UsesInOrder, RevokersInOrder
<1>4. CASE \E v \in Revokers, k \in Creations : ReadToRevoke(v, k)
  <2>1. PICK v \in Revokers, k \in Creations : ReadToRevoke(v, k)
    BY <1>4
  <2>2. PICK pc \in {"revoking", "done"} :
          /\ revoker' = [revoker EXCEPT ![v] = [pc |-> pc, key |-> k]] /\ key[k] # "none"
          /\ UNCHANGED <<key, making, peak, fresh, holder, use>>
    BY <2>1 DEF ReadToRevoke
  <2>3. RingTypeOK'
    BY <2>2 DEF RingTypeOK
  <2>4. RevokersInOrder'
    BY <2>2 DEF RingTypeOK, RevokersInOrder
  <2> QED
    BY <2>2, <2>3, <2>4 DEF UsesInOrder
<1>5. CASE \E v \in Revokers : Revoke(v)
  <2>1. PICK v \in Revokers : Revoke(v)
    BY <1>5
  <2>2. PICK k \in Creations :
          /\ revoker[v].key = k /\ key[k] # "none"
          /\ key' = [key EXCEPT ![k] = "revoked"] /\ revoker' = [revoker EXCEPT ![v].pc = "done"]
          /\ UNCHANGED <<making, peak, fresh, holder, use>>
    BY <2>1 DEF Revoke, RevokersInOrder
  <2>3. RingTypeOK'
    BY <2>2 DEF RingTypeOK
  <2>4. \A c \in Creations : /\ key[c] = "revoked" => key'[c] = "revoked"
                             /\ key[c] # "none" => key'[c] # "none"
    BY <2>2 DEF RingTypeOK
  <2>5. \A w \in Revokers : revoker'[w].pc = "revoking" => revoker'[w] = revoker[w]
    BY <2>2 DEF RingTypeOK
  <2> QED
    BY <2>2, <2>3, <2>4, <2>5 DEF UsesInOrder, RevokersInOrder
<1> QED
  BY <1>1, <1>2, <1>3, <1>4, <1>5

\* A request takes steps of its own: only it changes, and the row that it holds.
LEMMA UseKeeps ==
  ASSUME RingInv,
         NEW u \in Uses,
         (\E k \in Creations : Present(u, k)) \/ Serve(u)
  PROVE  RingInv'
<1> USE DEF RingInv
<1>1. CASE \E k \in Creations : Present(u, k)
  <2>1. PICK k \in Creations : Present(u, k)
    BY <1>1
  <2>2. PICK late \in BOOLEAN :
          /\ use' = [use EXCEPT ![u] = [pc |-> "resolving", key |-> k, late |-> late]]
          /\ late => key[k] = "revoked"
    BY <2>1 DEF Present
  <2>3. use[u].pc = "idle" /\ UNCHANGED <<key, making, peak, fresh, holder, revoker>>
    BY <2>1 DEF Present
  <2>4. RingTypeOK'
    BY <2>2, <2>3 DEF RingTypeOK
  <2>5. UsesInOrder'
    BY <2>2, <2>3 DEF RingTypeOK, UsesInOrder
  <2> QED
    BY <2>3, <2>4, <2>5 DEF RevokersInOrder
<1>2. CASE Resolve(u)
  <2>1. use[u].key \in Creations
    BY <1>2 DEF Resolve, UsesInOrder
  <2>2. PICK pc \in {"refused", "serving", "touching"} :
          /\ use' = [use EXCEPT ![u].pc = pc]
          /\ pc # "refused" => key[use[u].key] = "active"
    BY <1>2 DEF Resolve, Accepts
  <2>3. UNCHANGED <<key, making, peak, fresh, holder, revoker>>
    BY <1>2 DEF Resolve
  <2>4. use'[u].key = use[u].key /\ use'[u].late = use[u].late /\ use'[u].pc = pc
        /\ use' \in [Uses -> [pc : {"idle", "resolving", "touching", "serving", "refused", "served", "raised"},
                              key : Creations \union {Nobody}, late : BOOLEAN]]
        /\ \A w \in Uses \ {u} : use'[w] = use[w]
    BY <2>2 DEF RingTypeOK
  <2>5. use[u].pc = "resolving"
    BY <1>2 DEF Resolve
  <2>6. RingTypeOK'
    BY <2>3, <2>4, <2>5 DEF RingTypeOK
  <2> QED
    BY <2>1, <2>2, <2>3, <2>4, <2>6 DEF UsesInOrder, RevokersInOrder
<1>3. CASE Touch(u)
  <2>1. use[u].key \in Creations /\ use[u].pc = "touching"
    BY <1>3 DEF Touch, UsesInOrder
  <2>2. /\ holder' = [holder EXCEPT ![use[u].key] = u] /\ use' = [use EXCEPT ![u].pc = "serving"]
        /\ UNCHANGED <<key, making, peak, fresh, revoker>>
    BY <1>3 DEF Touch, Touched
  <2>3. RingTypeOK'
    BY <2>1, <2>2 DEF RingTypeOK
  <2> QED
    BY <2>1, <2>2, <2>3 DEF RingTypeOK, UsesInOrder, RevokersInOrder
<1>4. ASSUME NEW ok \in BOOLEAN, EndUse(u, ok) PROVE RingInv'
  <2>1. use[u].pc = "serving" /\ use[u].key \in Creations
    BY <1>4 DEF EndUse, UsesInOrder
  <2>2. PICK pc \in {"served", "raised"} : use' = [use EXCEPT ![u].pc = pc]
    BY <1>4 DEF EndUse
  <2>3. /\ holder' = [k \in Creations |-> IF holder[k] = u THEN Nobody ELSE holder[k]]
        /\ fresh' \subseteq fresh \union {use[u].key}
        /\ UNCHANGED <<key, making, peak, revoker>>
    BY <1>4 DEF EndUse
  <2>4. RingTypeOK'
    BY <2>1, <2>2, <2>3 DEF RingTypeOK
  <2> QED
    BY <2>1, <2>2, <2>3, <2>4 DEF RingTypeOK, UsesInOrder, RevokersInOrder
<1> QED
  BY <1>1, <1>2, <1>3, <1>4 DEF Serve

LEMMA RingKeeps == RingInv /\ ringStep => RingInv'
<1> SUFFICES ASSUME RingInv, ringStep PROVE RingInv'
  OBVIOUS
<1>1. CASE UNCHANGED ringVars
  BY <1>1 DEF RingInv, RingTypeOK, UsesInOrder, RevokersInOrder, ringVars
<1>2. CASE RingNext
  BY <1>2, MakingKeeps, UseKeeps DEF RingNext
<1> QED
  BY <1>1, <1>2 DEF ringStep

\* Keys, requests and revocations keep their shape, a row is held by the request
\* that is served with it, and nobody who comes after the revocation gets in.
THEOREM LateIsNeverServed == RingSpec => [](RingTypeOK /\ LateIsRefused)
<1>1. RingInv => RingTypeOK /\ LateIsRefused
  BY DEF RingInv, UsesInOrder, LateIsRefused
<1> QED
  BY RingStarts, RingKeeps, <1>1, PTL DEF RingSpec, ringStep

\* No request and no second revocation brings a revoked key back.
THEOREM RevokedIsForEver == RingSpec => RevokedStaysRevoked
<1>1. RingInv /\ [RingNext]_ringVars =>
        [\A k \in Creations : key[k] = "revoked" => key'[k] = "revoked"]_ringVars
  <2> SUFFICES ASSUME RingInv, RingNext, NEW k \in Creations, key[k] = "revoked"
               PROVE  key'[k] = "revoked"
    OBVIOUS
  <2>1. CASE key' = key
    BY <2>1
  <2>2. CASE \E c \in Creations : Insert(c)
    BY <2>2 DEF Insert, RingInv, RingTypeOK
  <2>3. CASE \E v \in Revokers : Revoke(v)
    BY <2>3 DEF Revoke, RingInv, RingTypeOK
  <2>4. key' = key \/ (\E c \in Creations : Insert(c)) \/ \E v \in Revokers : Revoke(v)
    BY DEF RingNext, CountKeys, GoStale, ReadToRevoke, Present, Serve, Resolve, Touch, Touched, EndUse
  <2> QED
    BY <2>1, <2>2, <2>3, <2>4
<1> QED
  BY RingStarts, RingKeeps, <1>1, PTL DEF RingSpec, ringStep, RevokedStaysRevoked

----------------------------------------------------------------------------
(* The number of active keys                                               *)

\* Every creation that has counted takes part of what the overlap allows, until
\* it has inserted its key.
Headroom ==
  \/ Active = {} /\ UnderWay = {}
  \/ Cardinality(Active) + Cardinality(UnderWay) <= MaxKeys - 1 + peak

CountInv == RingInv /\ Headroom

LEMMA Finite ==
  /\ IsFiniteSet(Active) /\ Cardinality(Active) \in Nat
  /\ IsFiniteSet(UnderWay) /\ Cardinality(UnderWay) \in Nat
<1>1. IsFiniteSet(Active) /\ IsFiniteSet(UnderWay)
  BY MaxKeysAssumption, FS_Subset DEF Active, UnderWay
<1> QED
  BY <1>1, FS_CardinalityType

\* Fewer active keys and no other creations leave at least as much.
LEMMA FewerKeep ==
  ASSUME CountInv, Active' \subseteq Active, UnderWay' \subseteq UnderWay, peak' = peak
  PROVE  Headroom'
<1>1. /\ Cardinality(Active') <= Cardinality(Active) /\ Cardinality(Active') \in Nat
      /\ Cardinality(UnderWay') <= Cardinality(UnderWay) /\ Cardinality(UnderWay') \in Nat
  BY Finite, FS_Subset, FS_CardinalityType
<1>2. MaxKeys \in Nat /\ peak \in Nat
  BY MaxKeysAssumption DEF CountInv, RingInv, RingTypeOK
<1> QED
  BY <1>1, <1>2, Finite DEF CountInv, Headroom

LEMMA CountKeepsRoom ==
  ASSUME CountInv, NEW c \in Creations, CountKeys(c)
  PROVE  Headroom'
<1>1. making \in [Creations -> {"idle", "counted", "refused", "made", "failed"}] /\ peak \in Nat
  BY DEF CountInv, RingInv, RingTypeOK
<1>2. Active' = Active
  BY DEF CountKeys, Active
<1>3. CASE ~HasRoom
  <2>1. UnderWay' = UnderWay /\ peak' = peak
    BY <1>1, <1>3 DEF CountKeys, UnderWay
  <2> QED
    BY <1>2, <2>1, FewerKeep
<1>4. CASE HasRoom
  <2>1. UnderWay' = UnderWay \union {c} /\ c \notin UnderWay
    BY <1>1, <1>4 DEF CountKeys, UnderWay
  <2>2. Cardinality(UnderWay') = Cardinality(UnderWay) + 1
    BY <2>1, Finite, FS_AddElement
  <2>3. peak' >= Cardinality(UnderWay) + 1 /\ peak' \in Nat
    BY <1>1, <1>4, Finite DEF CountKeys, Raised
  <2>4. Cardinality(Active) <= MaxKeys - 1 /\ MaxKeys \in Nat
    BY <1>4, Finite, MaxKeysAssumption DEF HasRoom
  <2> QED
    BY <1>2, <2>2, <2>3, <2>4, Finite DEF Headroom
<1> QED
  BY <1>3, <1>4

LEMMA InsertKeepsRoom ==
  ASSUME CountInv, NEW c \in Creations, Insert(c)
  PROVE  Headroom'
<1>1. /\ making \in [Creations -> {"idle", "counted", "refused", "made", "failed"}]
      /\ key \in [Creations -> {"none", "active", "revoked"}] /\ peak \in Nat
      /\ key[c] = "none" /\ peak' = peak
  BY DEF CountInv, RingInv, RingTypeOK, Insert
<1>2. c \in UnderWay /\ UnderWay' = UnderWay \ {c}
  BY <1>1 DEF Insert, UnderWay
<1>3. CASE key' = key
  BY <1>1, <1>2, <1>3, FewerKeep DEF Active
<1>4. CASE key' = [key EXCEPT ![c] = "active"]
  <2>1. Active' = Active \union {c} /\ c \notin Active
    BY <1>1, <1>4 DEF Active
  <2>2. Cardinality(Active') = Cardinality(Active) + 1
    BY <2>1, Finite, FS_AddElement
  <2>3. Cardinality(UnderWay') = Cardinality(UnderWay) - 1
    BY <1>2, Finite, FS_RemoveElement
  <2>4. Cardinality(Active) + Cardinality(UnderWay) <= MaxKeys - 1 + peak
    BY <1>2 DEF CountInv, Headroom
  <2> QED
    BY <1>1, <2>2, <2>3, <2>4, Finite, MaxKeysAssumption DEF Headroom
<1> QED
  BY <1>3, <1>4 DEF Insert

LEMMA HeadroomKept == CountInv /\ ringStep => Headroom'
<1> SUFFICES ASSUME CountInv, ringStep PROVE Headroom'
  OBVIOUS
<1>1. CASE \E c \in Creations : CountKeys(c)
  BY <1>1, CountKeepsRoom
<1>2. CASE \E c \in Creations : Insert(c)
  BY <1>2, InsertKeepsRoom
<1>3. CASE \E v \in Revokers : Revoke(v)
  <2>1. UnderWay' = UnderWay /\ peak' = peak
    BY <1>3 DEF Revoke, UnderWay
  <2>2. Active' \subseteq Active
    BY <1>3 DEF Revoke, Active, CountInv, RingInv, RingTypeOK
  <2> QED
    BY <2>1, <2>2, FewerKeep
<1>4. CASE UNCHANGED <<key, making, peak>>
  <2>1. Active' = Active /\ UnderWay' = UnderWay /\ peak' = peak
    BY <1>4 DEF Active, UnderWay
  <2> QED
    BY <2>1, FewerKeep
<1>5. \/ (\E c \in Creations : CountKeys(c) \/ Insert(c)) \/ (\E v \in Revokers : Revoke(v))
      \/ UNCHANGED <<key, making, peak>>
  BY DEF ringStep, ringVars, RingNext, GoStale, ReadToRevoke, Present, Serve, Resolve, Touch, Touched, EndUse
<1> QED
  BY <1>1, <1>2, <1>3, <1>4, <1>5

\* "A workspace can have at most 20 active keys", and as many more as there
\* were creations under way with one that was allowed.
THEOREM KeysAreBounded == RingSpec => []KeysBounded
<1>1. RingInit => CountInv
  BY RingStarts DEF RingInit, CountInv, Headroom, Active, UnderWay
<1>2. CountInv /\ ringStep => CountInv'
  BY RingKeeps, HeadroomKept DEF CountInv
<1>3. CountInv => KeysBounded
  BY Finite, MaxKeysAssumption DEF CountInv, Headroom, KeysBounded, RingInv, RingTypeOK
<1> QED
  BY <1>1, <1>2, <1>3, PTL DEF RingSpec, ringStep

----------------------------------------------------------------------------
(*************************************************************************)
(* Quotas: the limits hold for any requests and subjects, any limit and  *)
(* any window.                                                           *)
(*************************************************************************)

----------------------------------------------------------------------------
(* Windows of the clock                                                    *)

LEMMA Products ==
  ASSUME NEW a \in Nat, NEW b \in Nat, NEW w \in Nat, a <= b
  PROVE  a * w <= b * w
  OBVIOUS

LEMMA BucketBounds ==
  ASSUME NEW t \in Nat
  PROVE  /\ Bucket(t) \in Nat
         /\ Bucket(t) * Window <= t
         /\ t < (Bucket(t) + 1) * Window
<1>1. Window \in Nat /\ Window > 0
  BY WindowAssumption
<1>2. t = Window * (t \div Window) + (t % Window) /\ t % Window \in 0 .. Window - 1 /\ t \div Window \in Nat
  BY <1>1
<1> DEFINE q == t \div Window
<1>3. Window * q = q * Window /\ (q + 1) * Window = q * Window + Window
  BY <1>1, <1>2
<1> QED
  BY <1>1, <1>2, <1>3 DEF Bucket

\* A time before the end of window n is of window n or of an earlier one.
LEMMA BucketBefore ==
  ASSUME NEW t \in Nat, NEW n \in Nat, t < (n + 1) * Window
  PROVE  Bucket(t) <= n
<1>1. Bucket(t) \in Nat /\ Bucket(t) * Window <= t /\ Window \in Nat
  BY BucketBounds, WindowAssumption
<1>2. CASE n + 1 <= Bucket(t)
  <2>1. (n + 1) * Window <= Bucket(t) * Window
    BY <1>1, <1>2, Products
  <2>2. (n + 1) * Window \in Nat /\ Bucket(t) * Window \in Nat
    BY <1>1
  <2> QED
    BY <1>1, <2>1, <2>2
<1> QED
  BY <1>1, <1>2

LEMMA BucketGrows ==
  ASSUME NEW s \in Nat, NEW t \in Nat, s <= t
  PROVE  Bucket(s) <= Bucket(t)
<1>1. t < (Bucket(t) + 1) * Window /\ Bucket(t) \in Nat /\ (Bucket(t) + 1) * Window \in Nat
  BY BucketBounds, WindowAssumption
<1> QED
  BY <1>1, BucketBefore

\* A window's length touches two windows.
LEMMA SpanTouchesTwo ==
  ASSUME NEW t \in Nat, NEW u \in t .. t + Window - 1
  PROVE  Bucket(u) \in {Bucket(t), Bucket(t) + 1}
<1>1. Window \in Nat /\ Window > 0 /\ u \in Nat
  BY WindowAssumption
<1>2. Bucket(t) \in Nat /\ t < (Bucket(t) + 1) * Window /\ Bucket(u) \in Nat
  BY <1>1, BucketBounds
<1>3. ((Bucket(t) + 1) + 1) * Window = (Bucket(t) + 1) * Window + Window
  BY <1>1, <1>2
<1>4. u < ((Bucket(t) + 1) + 1) * Window /\ (Bucket(t) + 1) * Window \in Nat
  BY <1>1, <1>2, <1>3
<1>5. Bucket(u) <= Bucket(t) + 1
  BY <1>1, <1>2, <1>4, BucketBefore
<1>6. Bucket(t) <= Bucket(u)
  BY <1>1, BucketGrows
<1> QED
  BY <1>2, <1>5, <1>6
----------------------------------------------------------------------------
(* The inductive invariant                                                 *)

Types ==
  /\ tick \in 0 .. LastTick
  /\ counter \in [Keys -> Nat]
  /\ expiry \in [Keys -> Int]
  /\ hit \in [Requests -> [pc : {"idle", "counting", "expiring", "counted", "allowed", "refused", "open"},
                           key : Keys \union {NoKey}, count : Nat, at : Nat]]
  /\ \A r \in Requests : hit[r].pc # "idle" => hit[r].key \in Keys

Counted(r) == hit[r].pc \in {"expiring", "counted", "allowed", "refused"}
Timely(r) == Counted(r) /\ hit[r].key[2] = Bucket(hit[r].at)
Seen(k) == {r \in Requests : hit[r].key = k /\ hit[r].pc \notin {"idle", "counting"}}

\* No request is of a window to come, and no counter goes before its window.
InTheirTime ==
  /\ \A r \in Requests : hit[r].pc # "idle" => hit[r].key[2] <= Bucket(tick)
  /\ \A k \in Keys : expiry[k] # Never => expiry[k] >= (k[2] + 1) * Window

\* In its window a counter only grows, so that those who count in time get
\* numbers of their own.
NumbersDiffer ==
  /\ \A r \in Requests : Timely(r) /\ hit[r].key[2] = Bucket(tick) => hit[r].count <= counter[hit[r].key]
  /\ \A r, q \in Requests :
       r # q /\ Timely(r) /\ Timely(q) /\ hit[r].key = hit[q].key => hit[r].count # hit[q].count

\* Nobody counts for another key, so no number exceeds the requests with its key.
NumbersAreEarned ==
  /\ \A k \in Keys : counter[k] <= Cardinality(Seen(k))
  /\ \A r \in Requests : Counted(r) => hit[r].count > 0 /\ hit[r].count <= Cardinality(Seen(hit[r].key))

Decided ==
  \A r \in Requests : /\ hit[r].pc = "allowed" => hit[r].count <= Limit
                      /\ hit[r].pc = "refused" => hit[r].count > Limit

RateInv == Types /\ InTheirTime /\ NumbersDiffer /\ NumbersAreEarned /\ Decided

LEMMA KeyParts ==
  ASSUME NEW k \in Keys
  PROVE  k[1] \in Subjects /\ k[2] \in Nat /\ k[2] <= Bucket(LastTick) /\ k # NoKey
<1>1. Bucket(LastTick) \in Nat
  BY BucketBounds, WindowAssumption
<1> QED
  BY <1>1 DEF Keys, NoKey

LEMMA SeenIsFinite ==
  ASSUME NEW k
  PROVE  IsFiniteSet(Seen(k)) /\ Cardinality(Seen(k)) \in Nat
  BY LimitAssumption, FS_Subset, FS_CardinalityType DEF Seen

LEMMA SeenGrows ==
  ASSUME NEW k, Seen(k) \subseteq Seen(k)'
  PROVE  /\ Cardinality(Seen(k)) <= Cardinality(Seen(k)') /\ Cardinality(Seen(k)') \in Nat
         /\ \A r : r \in Seen(k)' \ Seen(k) => Cardinality(Seen(k)) + 1 <= Cardinality(Seen(k)')
<1>1. IsFiniteSet(Seen(k)') /\ Cardinality(Seen(k)') \in Nat
  BY LimitAssumption, FS_Subset, FS_CardinalityType DEF Seen
<1>2. Cardinality(Seen(k)) <= Cardinality(Seen(k)')
  BY <1>1, FS_Subset
<1>3. ASSUME NEW r \in Seen(k)' \ Seen(k) PROVE Cardinality(Seen(k)) + 1 <= Cardinality(Seen(k)')
  <2>1. Cardinality(Seen(k) \union {r}) = Cardinality(Seen(k)) + 1
    BY SeenIsFinite, FS_AddElement
  <2>2. Seen(k) \union {r} \subseteq Seen(k)'
    OBVIOUS
  <2> QED
    BY <1>1, <2>1, <2>2, FS_Subset
<1> QED
  BY <1>1, <1>2, <1>3

LEMMA RateStarts == RateInit => RateInv
<1> SUFFICES ASSUME RateInit PROVE RateInv
  OBVIOUS
<1>1. Types
  BY WindowAssumption DEF RateInit, Types, NewHit, Never
<1>2. InTheirTime /\ NumbersDiffer /\ Decided
  BY DEF RateInit, InTheirTime, NumbersDiffer, Timely, Counted, Decided, NewHit, Never
<1>3. NumbersAreEarned
  BY SeenIsFinite DEF RateInit, NumbersAreEarned, Counted, NewHit
<1> QED
  BY <1>1, <1>2, <1>3 DEF RateInv

LEMMA ArriveKeeps ==
  ASSUME RateInv, NEW r \in Requests, NEW s \in Subjects, Arrive(r, s)
  PROVE  RateInv'
<1>1. tick \in Nat /\ LastTick \in Nat /\ tick <= LastTick
  BY WindowAssumption DEF RateInv, Types
<1>2. Bucket(tick) \in Nat /\ Bucket(tick) <= Bucket(LastTick) /\ Bucket(LastTick) \in Nat
  BY <1>1, BucketBounds, BucketGrows
<1>3. KeyOf(s) \in Keys /\ KeyOf(s)[2] = Bucket(tick)
  BY <1>2 DEF KeyOf, Keys
<1>4. /\ hit' = [hit EXCEPT ![r].pc = "counting", ![r].key = KeyOf(s)]
      /\ hit[r].pc = "idle" /\ UNCHANGED <<tick, counter, expiry>>
  BY DEF Arrive
<1> HIDE DEF KeyOf
<1>5. Types'
  BY <1>3, <1>4 DEF RateInv, Types
<1>6. /\ \A q \in Requests \ {r} : hit'[q] = hit[q]
      /\ hit'[r].pc = "counting" /\ hit'[r].key = KeyOf(s)
  BY <1>4 DEF RateInv, Types
<1>7. InTheirTime'
  <2>1. Bucket(tick)' = Bucket(tick)
    BY <1>4 DEF Bucket
  <2>2. ASSUME NEW q \in Requests, hit'[q].pc # "idle" PROVE hit'[q].key[2] <= Bucket(tick)
    BY <1>2, <1>3, <1>6, <2>2 DEF RateInv, InTheirTime
  <2>3. \A k \in Keys : expiry'[k] # Never => expiry'[k] >= (k[2] + 1) * Window
    BY <1>4 DEF RateInv, InTheirTime
  <2> QED
    BY <2>1, <2>2, <2>3 DEF InTheirTime
<1>8. \A q \in Requests : (Counted(q)' => Counted(q) /\ hit'[q] = hit[q]) /\ (Timely(q)' => Timely(q))
  BY <1>6 DEF Counted, Timely, Bucket
<1>9. NumbersDiffer'
  <2>1. Bucket(tick)' = Bucket(tick) /\ counter' = counter
    BY <1>4 DEF Bucket
  <2>2. \A q \in Requests : Timely(q)' => Timely(q) /\ hit'[q] = hit[q]
    BY <1>8 DEF Timely
  <2> QED
    BY <2>1, <2>2 DEF RateInv, NumbersDiffer
<1>10. Decided'
  BY <1>6 DEF RateInv, Decided
<1>11. \A k : Seen(k)' = Seen(k)
  BY <1>4, <1>6 DEF Seen
<1>12. NumbersAreEarned'
  BY <1>4, <1>8, <1>11 DEF RateInv, NumbersAreEarned
<1> QED
  BY <1>5, <1>7, <1>9, <1>10, <1>12 DEF RateInv

\* A request that has counted gives its counter a time, or is answered: it keeps
\* its key and its number.
LEMMA SettleKeeps ==
  ASSUME RateInv, NEW r \in Requests, Expire(r) \/ Answer(r)
  PROVE  RateInv'
<1>1. PICK pc \in {"counted", "allowed", "refused"} :
        /\ hit' = [hit EXCEPT ![r].pc = pc] /\ UNCHANGED <<tick, counter>>
        /\ pc = "allowed" => hit[r].count <= Limit
        /\ pc = "refused" => ~(hit[r].count <= Limit)
        /\ hit[r].pc \in {"expiring", "counted"}
  <2>1. CASE Expire(r)
    <3> WITNESS "counted" \in {"counted", "allowed", "refused"}
    <3> QED
      BY <2>1 DEF Expire
  <2>2. CASE Answer(r) /\ hit[r].count <= Limit
    <3> WITNESS "allowed" \in {"counted", "allowed", "refused"}
    <3> QED
      BY <2>2 DEF Answer, Admitted
  <2>3. CASE Answer(r) /\ ~(hit[r].count <= Limit)
    <3> WITNESS "refused" \in {"counted", "allowed", "refused"}
    <3> QED
      BY <2>3 DEF Answer, Admitted
  <2> QED
    BY <2>1, <2>2, <2>3
<1>2. /\ \A q \in Requests \ {r} : hit'[q] = hit[q]
      /\ hit'[r] = [hit[r] EXCEPT !.pc = pc]
  BY <1>1 DEF RateInv, Types
<1>3. /\ hit'[r].pc = pc /\ hit'[r].key = hit[r].key /\ hit'[r].count = hit[r].count /\ hit'[r].at = hit[r].at
      /\ hit[r].key \in Keys /\ hit[r].count \in Nat /\ Counted(r)
  BY <1>1, <1>2 DEF RateInv, Types, Counted
<1>4. \A k \in Keys : expiry'[k] = expiry[k] \/ (k = hit[r].key /\ expiry'[k] = tick + Window)
  BY <1>3 DEF Expire, Answer, Lifetime, RateInv, Types
<1>5. expiry' \in [Keys -> Int]
  BY <1>3, WindowAssumption DEF Expire, Answer, Lifetime, RateInv, Types
<1>6. Types'
  BY <1>1, <1>2, <1>3, <1>5 DEF RateInv, Types
<1>7. Bucket(tick)' = Bucket(tick)
  BY <1>1 DEF Bucket
<1>8. InTheirTime'
  <2>1. ASSUME NEW q \in Requests, hit'[q].pc # "idle" PROVE hit'[q].key[2] <= Bucket(tick)
    BY <1>1, <1>2, <1>3, <2>1 DEF RateInv, InTheirTime
  <2>2. tick + Window >= (hit[r].key[2] + 1) * Window
    <3>1. hit[r].key[2] <= Bucket(tick) /\ hit[r].key[2] \in Nat
      BY <1>1, <1>3, KeyParts DEF RateInv, InTheirTime
    <3>2. tick \in Nat /\ Window \in Nat
      BY WindowAssumption DEF RateInv, Types
    <3>3. Bucket(tick) \in Nat /\ Bucket(tick) * Window <= tick
      BY <3>2, BucketBounds
    <3>4. hit[r].key[2] * Window <= Bucket(tick) * Window
      BY <3>1, <3>2, <3>3, Products
    <3>5. (hit[r].key[2] + 1) * Window = hit[r].key[2] * Window + Window
          /\ hit[r].key[2] * Window \in Nat /\ Bucket(tick) * Window \in Nat
      BY <3>1, <3>2, <3>3
    <3> QED
      BY <3>2, <3>3, <3>4, <3>5
  <2>3. \A k \in Keys : expiry'[k] # Never => expiry'[k] >= (k[2] + 1) * Window
    BY <1>4, <2>2 DEF RateInv, InTheirTime
  <2> QED
    BY <1>7, <2>1, <2>3 DEF InTheirTime
<1>9. \A q \in Requests : /\ Counted(q)' = Counted(q) /\ hit'[q].key = hit[q].key
                          /\ hit'[q].count = hit[q].count /\ hit'[q].at = hit[q].at
  <2> TAKE q \in Requests
  <2>1. CASE q = r
    BY <1>3, <2>1 DEF Counted
  <2>2. CASE q # r
    BY <1>2, <2>2 DEF Counted
  <2> QED
    BY <2>1, <2>2
<1>10. NumbersDiffer'
  <2>1. \A q \in Requests : Timely(q)' = Timely(q)
    BY <1>9 DEF Timely, Bucket
  <2> QED
    BY <1>1, <1>7, <1>9, <2>1 DEF RateInv, NumbersDiffer
<1>11. NumbersAreEarned'
  <2>1. \A k : Seen(k)' = Seen(k)
    BY <1>1, <1>2, <1>3 DEF Seen
  <2> QED
    BY <1>1, <1>9, <2>1 DEF RateInv, NumbersAreEarned
<1>12. Decided'
  BY <1>1, <1>2, <1>3, LimitAssumption DEF RateInv, Decided
<1> QED
  BY <1>6, <1>8, <1>10, <1>11, <1>12 DEF RateInv

\* INCR, with or without an answer: the counter and the requests seen grow by one.
LEMMA IncrKeepsEarned ==
  ASSUME RateInv, NEW r \in Requests, hit[r].pc = "counting",
         NEW n \in {0, 1}, counter' = [counter EXCEPT ![hit[r].key] = @ + n],
         \A q \in Requests \ {r} : hit'[q] = hit[q],
         hit'[r].key = hit[r].key, hit'[r].pc \notin {"idle", "counting"},
         Counted(r)' => hit'[r].count = counter[hit[r].key] + 1
  PROVE  NumbersAreEarned'
<1>1. PICK mine \in Keys : hit[r].key = mine
  BY DEF RateInv, Types
<1>2. \A k : Seen(k) \subseteq Seen(k)'
  BY DEF Seen
<1>3. r \in Seen(mine)' \ Seen(mine)
  BY <1>1 DEF Seen
<1>4. Cardinality(Seen(mine)) + 1 <= Cardinality(Seen(mine)') /\ Cardinality(Seen(mine)') \in Nat
  BY <1>2, <1>3, SeenGrows
<1>5. \A k : Cardinality(Seen(k)) <= Cardinality(Seen(k)') /\ Cardinality(Seen(k)') \in Nat
             /\ Cardinality(Seen(k)) \in Nat
  <2> TAKE k
  <2>1. Seen(k) \subseteq Seen(k)'
    BY <1>2
  <2> QED
    BY <2>1, SeenGrows, SeenIsFinite
<1>6. counter \in [Keys -> Nat] /\ counter[mine] <= Cardinality(Seen(mine))
  BY DEF RateInv, Types, NumbersAreEarned
<1>7. ASSUME NEW k \in Keys PROVE counter'[k] <= Cardinality(Seen(k)')
  <2>1. CASE k = mine
    <3>1. counter'[k] = counter[mine] + n
      BY <1>1, <1>6, <2>1
    <3>2. counter[mine] \in Nat /\ Cardinality(Seen(mine)) \in Nat
      BY <1>5, <1>6
    <3>3. counter[mine] + n <= Cardinality(Seen(mine)')
      BY <1>4, <1>6, <3>2
    <3> QED
      BY <2>1, <3>1, <3>3
  <2>2. CASE k # mine
    <3>1. counter'[k] = counter[k] /\ counter[k] <= Cardinality(Seen(k)) /\ counter[k] \in Nat
      BY <1>1, <1>6, <2>2 DEF RateInv, NumbersAreEarned
    <3>2. Cardinality(Seen(k)) <= Cardinality(Seen(k)') /\ Cardinality(Seen(k)') \in Nat
          /\ Cardinality(Seen(k)) \in Nat
      BY <1>5
    <3> QED
      BY <3>1, <3>2
  <2> QED
    BY <2>1, <2>2
<1>8. ASSUME NEW q \in Requests, Counted(q)'
      PROVE  hit'[q].count > 0 /\ hit'[q].count <= Cardinality(Seen(hit[q].key)') /\ hit'[q].key = hit[q].key
  <2>1. CASE q = r
    <3>1. hit'[q].count = counter[mine] + 1 /\ hit'[q].key = mine /\ hit[q].key = mine
      BY <1>1, <1>8, <2>1
    <3>2. counter[mine] \in Nat /\ Cardinality(Seen(mine)) \in Nat
      BY <1>5, <1>6
    <3>3. counter[mine] + 1 > 0 /\ counter[mine] + 1 <= Cardinality(Seen(mine)')
      BY <1>4, <1>6, <3>2
    <3> QED
      BY <3>1, <3>3
  <2>2. CASE q # r
    <3>1. hit'[q] = hit[q] /\ Counted(q) /\ hit[q].count \in Nat
      BY <1>8, <2>2 DEF Counted, RateInv, Types
    <3>2. PICK k : k = hit[q].key
      OBVIOUS
    <3>3. hit[q].count > 0 /\ hit[q].count <= Cardinality(Seen(k))
      BY <3>1, <3>2 DEF RateInv, NumbersAreEarned
    <3>4. Cardinality(Seen(k)) <= Cardinality(Seen(k)') /\ Cardinality(Seen(k)') \in Nat
          /\ Cardinality(Seen(k)) \in Nat
      BY <1>5
    <3>5. hit[q].count <= Cardinality(Seen(k)')
      BY <3>1, <3>3, <3>4
    <3> QED
      BY <3>1, <3>2, <3>3, <3>5
  <2> QED
    BY <2>1, <2>2
<1> QED
  BY <1>7, <1>8 DEF NumbersAreEarned

LEMMA CountKeeps ==
  ASSUME RateInv, NEW r \in Requests, Count(r)
  PROVE  RateInv'
<1>1. PICK mine \in Keys : hit[r].key = mine
  BY DEF RateInv, Types, Count
<1>2. counter \in [Keys -> Nat] /\ tick \in Nat
  BY WindowAssumption DEF RateInv, Types
<1>3. PICK pc \in {"expiring", "counted"} :
        hit' = [hit EXCEPT ![r].pc = pc, ![r].count = counter[mine] + 1, ![r].at = tick]
  <2> WITNESS (IF counter[mine] + 1 = 1 THEN "expiring" ELSE "counted") \in {"expiring", "counted"}
  <2> QED
    BY <1>1 DEF Count
<1>4. /\ counter' = [counter EXCEPT ![mine] = counter[mine] + 1]
      /\ hit[r].pc = "counting" /\ UNCHANGED <<tick, expiry>>
  BY <1>1 DEF Count
<1>5. /\ \A q \in Requests \ {r} : hit'[q] = hit[q]
      /\ hit'[r].pc = pc /\ hit'[r].key = mine /\ hit'[r].count = counter[mine] + 1 /\ hit'[r].at = tick
  BY <1>1, <1>3 DEF RateInv, Types
<1>6. Types'
  <2>1. counter' \in [Keys -> Nat]
    BY <1>2, <1>4
  <2>2. hit' = [hit EXCEPT ![r] = [hit[r] EXCEPT !.pc = pc, !.count = counter[mine] + 1, !.at = tick]]
    BY <1>3
  <2>3. counter[mine] + 1 \in Nat
    BY <1>2
  <2>4. hit[r] \in [pc : {"idle", "counting", "expiring", "counted", "allowed", "refused", "open"},
                   key : Keys \union {NoKey}, count : Nat, at : Nat]
    BY DEF RateInv, Types
  <2>5. [hit[r] EXCEPT !.pc = pc, !.count = counter[mine] + 1, !.at = tick]
          \in [pc : {"idle", "counting", "expiring", "counted", "allowed", "refused", "open"},
              key : Keys \union {NoKey}, count : Nat, at : Nat]
    BY <1>2, <2>3, <2>4
  <2>6. \A q \in Requests : hit'[q].pc # "idle" => hit'[q].key \in Keys
    BY <1>5 DEF RateInv, Types
  <2> QED
    BY <1>4, <2>1, <2>2, <2>5, <2>6 DEF RateInv, Types
<1>7. InTheirTime'
  <2>1. Bucket(tick)' = Bucket(tick)
    BY <1>4 DEF Bucket
  <2>2. \A q \in Requests : hit'[q].pc # "idle" => hit'[q].key[2] <= Bucket(tick)
    BY <1>1, <1>4, <1>5 DEF RateInv, InTheirTime
  <2> QED
    BY <1>4, <2>1, <2>2 DEF RateInv, InTheirTime
<1>8. NumbersDiffer'
  <2>1. Bucket(tick)' = Bucket(tick)
    BY <1>4 DEF Bucket
  <2>2. \A q \in Requests \ {r} : Timely(q)' => Timely(q) /\ hit[q].key \in Keys /\ hit[q].count \in Nat
    BY <1>5 DEF Timely, Counted, Bucket, RateInv, Types
  <2>3. \A k \in Keys : counter[k] <= counter'[k] /\ counter[k] \in Nat /\ counter'[k] \in Nat
    BY <1>2, <1>4
  <2>4. counter'[mine] = counter[mine] + 1
    BY <1>2, <1>4
  <2>5. ASSUME NEW q \in Requests, Timely(q)', hit'[q].key[2] = Bucket(tick)
        PROVE  hit'[q].count <= counter'[hit'[q].key]
    <3>1. CASE q = r
      BY <1>2, <1>5, <2>4, <3>1
    <3>2. CASE q # r
      <4>1. hit'[q] = hit[q] /\ Timely(q) /\ hit[q].key \in Keys /\ hit[q].count \in Nat
        BY <1>5, <2>2, <2>5, <3>2
      <4>2. hit[q].count <= counter[hit[q].key]
        BY <4>1, <2>5 DEF RateInv, NumbersDiffer
      <4> QED
        BY <4>1, <4>2, <2>3
    <3> QED
      BY <3>1, <3>2
  <2>6. ASSUME NEW q \in Requests \ {r}, Timely(r)', Timely(q)', hit'[q].key = mine
        PROVE  hit'[q].count # counter[mine] + 1
    <3>1. mine[2] = Bucket(tick)
      BY <2>6, <1>4, <1>5 DEF Timely, Bucket
    <3>2. hit'[q] = hit[q] /\ Timely(q) /\ hit[q].count \in Nat
      BY <1>5, <2>2, <2>6
    <3>3. hit[q].count <= counter[mine] /\ counter[mine] \in Nat
      BY <1>2, <2>6, <3>1, <3>2 DEF RateInv, NumbersDiffer
    <3> QED
      BY <3>2, <3>3
  <2>7. ASSUME NEW q \in Requests, NEW p \in Requests, q # p, Timely(q)', Timely(p)', hit'[q].key = hit'[p].key
        PROVE  hit'[q].count # hit'[p].count
    <3>1. CASE q = r
      BY <1>5, <2>6, <2>7, <3>1
    <3>2. CASE p = r
      BY <1>5, <2>6, <2>7, <3>2
    <3>3. CASE q # r /\ p # r
      BY <1>5, <2>2, <2>7, <3>3 DEF RateInv, NumbersDiffer
    <3> QED
      BY <3>1, <3>2, <3>3
  <2> QED
    BY <2>1, <2>5, <2>7 DEF NumbersDiffer
<1>9. NumbersAreEarned'
  <2>1. counter' = [counter EXCEPT ![hit[r].key] = @ + 1]
    BY <1>1, <1>4
  <2> QED
    BY <1>1, <1>4, <1>5, <2>1, IncrKeepsEarned
<1>10. Decided'
  BY <1>5 DEF RateInv, Decided
<1> QED
  BY <1>6, <1>7, <1>8, <1>9, <1>10 DEF RateInv

LEMMA FailOpenKeeps ==
  ASSUME RateInv, NEW r \in Requests, FailOpen(r)
  PROVE  RateInv'
<1>1. PICK mine \in Keys : hit[r].key = mine
  BY DEF RateInv, Types, FailOpen
<1>2. PICK n \in {0, 1} : /\ counter' = [counter EXCEPT ![mine] = @ + n]
                          /\ hit[r].pc = "expiring" => n = 0
  BY <1>1 DEF FailOpen
<1>3. /\ hit' = [hit EXCEPT ![r].pc = "open"]
      /\ hit[r].pc \in {"counting", "expiring"} /\ UNCHANGED <<tick, expiry>>
      /\ counter \in [Keys -> Nat]
  BY DEF FailOpen, RateInv, Types
<1>4. /\ \A q \in Requests \ {r} : hit'[q] = hit[q]
      /\ hit'[r].pc = "open" /\ hit'[r].key = mine
  BY <1>1, <1>3 DEF RateInv, Types
<1>5. Types'
  BY <1>1, <1>2, <1>3 DEF RateInv, Types
<1>6. InTheirTime'
  <2>1. Bucket(tick)' = Bucket(tick)
    BY <1>3 DEF Bucket
  <2>2. \A q \in Requests : hit'[q].pc # "idle" => hit'[q].key[2] <= Bucket(tick)
    BY <1>1, <1>3, <1>4 DEF RateInv, InTheirTime
  <2> QED
    BY <1>3, <2>1, <2>2 DEF RateInv, InTheirTime
<1>7. NumbersDiffer'
  <2>1. Bucket(tick)' = Bucket(tick)
    BY <1>3 DEF Bucket
  <2>2. \A q \in Requests : Timely(q)' => /\ Timely(q) /\ hit'[q] = hit[q]
                                          /\ hit[q].key \in Keys /\ hit[q].count \in Nat
    BY <1>4 DEF Timely, Counted, Bucket, RateInv, Types
  <2>3. \A k \in Keys : counter[k] <= counter'[k] /\ counter[k] \in Nat /\ counter'[k] \in Nat
    BY <1>2, <1>3
  <2>4. ASSUME NEW q \in Requests, Timely(q)', hit'[q].key[2] = Bucket(tick)
        PROVE  hit'[q].count <= counter'[hit'[q].key]
    <3>1. hit'[q] = hit[q] /\ Timely(q) /\ hit[q].key \in Keys /\ hit[q].count \in Nat
      BY <2>2, <2>4
    <3>2. hit[q].count <= counter[hit[q].key]
      BY <2>4, <3>1 DEF RateInv, NumbersDiffer
    <3> QED
      BY <3>1, <3>2, <2>3
  <2>5. \A q, p \in Requests :
          q # p /\ Timely(q)' /\ Timely(p)' /\ hit'[q].key = hit'[p].key => hit'[q].count # hit'[p].count
    BY <2>2 DEF RateInv, NumbersDiffer
  <2> QED
    BY <2>1, <2>4, <2>5 DEF NumbersDiffer
<1>8. NumbersAreEarned'
  <2>1. CASE hit[r].pc = "counting"
    <3>1. counter' = [counter EXCEPT ![hit[r].key] = @ + n]
      BY <1>1, <1>2
    <3>2. ~ Counted(r)'
      BY <1>4 DEF Counted
    <3> QED
      BY <1>1, <1>4, <2>1, <3>1, <3>2, IncrKeepsEarned
  <2>2. CASE hit[r].pc = "expiring"
    <3>1. counter' = counter
      BY <1>2, <1>3, <2>2
    <3>2. \A q \in Requests : Counted(q)' => Counted(q) /\ hit'[q] = hit[q]
      BY <1>4 DEF Counted
    <3>3. \A k : Seen(k)' = Seen(k)
      BY <1>1, <1>4, <2>2 DEF Seen
    <3> QED
      BY <3>1, <3>2, <3>3 DEF RateInv, NumbersAreEarned
  <2> QED
    BY <1>3, <2>1, <2>2
<1>9. Decided'
  BY <1>4 DEF RateInv, Decided
<1> QED
  BY <1>5, <1>6, <1>7, <1>8, <1>9 DEF RateInv

\* A counter whose window is not over does not go, and the others may only shrink.
LEMMA PassKeeps ==
  ASSUME RateInv, Pass
  PROVE  RateInv'
<1>1. /\ tick \in Nat /\ LastTick \in Nat /\ tick < LastTick
      /\ counter \in [Keys -> Nat] /\ expiry \in [Keys -> Int]
  BY WindowAssumption DEF RateInv, Types, Pass
<1>2. /\ tick' = tick + 1 /\ hit' = hit
      /\ counter' = [k \in Keys |-> IF expiry[k] = tick + 1 THEN 0 ELSE counter[k]]
      /\ expiry' = [k \in Keys |-> IF expiry[k] = tick + 1 THEN Never ELSE expiry[k]]
  BY DEF Pass
<1>3. Types'
  BY <1>1, <1>2 DEF RateInv, Types, Never
<1>4. Bucket(tick)' = Bucket(tick + 1)
  BY <1>2 DEF Bucket
<1>5. Bucket(tick) \in Nat /\ Bucket(tick + 1) \in Nat /\ Bucket(tick) <= Bucket(tick + 1)
  BY <1>1, BucketBounds, BucketGrows
<1>6. \A q \in Requests : hit[q].pc # "idle" => hit[q].key \in Keys /\ hit[q].key[2] \in Nat /\ hit[q].key[2] <= Bucket(tick)
  BY KeyParts DEF RateInv, Types, InTheirTime
<1>7. InTheirTime'
  <2>1. \A q \in Requests : hit'[q].pc # "idle" => hit'[q].key[2] <= Bucket(tick + 1)
    BY <1>2, <1>5, <1>6
  <2>2. \A k \in Keys : expiry'[k] # Never => expiry'[k] >= (k[2] + 1) * Window
    BY <1>2 DEF RateInv, InTheirTime
  <2> QED
    BY <1>4, <2>1, <2>2 DEF InTheirTime
<1>8. \A q \in Requests : Timely(q)' = Timely(q) /\ Counted(q)' = Counted(q)
  BY <1>2 DEF Timely, Counted, Bucket
<1>9. NumbersDiffer'
  <2>1. ASSUME NEW q \in Requests, Timely(q), hit[q].key[2] = Bucket(tick + 1)
        PROVE  hit[q].count <= counter'[hit[q].key]
    <3>1. PICK k \in Keys : k = hit[q].key
      BY <1>6, <2>1 DEF Timely, Counted
    <3>2. k[2] = Bucket(tick)
      BY <1>5, <1>6, <2>1, <3>1 DEF Timely, Counted
    <3>3. hit[q].count <= counter[k]
      BY <2>1, <3>1, <3>2 DEF RateInv, NumbersDiffer
    <3>4. tick + 1 < (k[2] + 1) * Window
      BY <1>1, <2>1, <3>1, BucketBounds
    <3>5. (k[2] + 1) * Window \in Nat
      BY KeyParts, WindowAssumption
    <3>6. expiry[k] # tick + 1
      BY <1>1, <3>4, <3>5 DEF RateInv, InTheirTime, Never
    <3> QED
      BY <1>2, <3>1, <3>3, <3>6
  <2>2. \A q \in Requests : Timely(q)' /\ hit'[q].key[2] = Bucket(tick)' => hit'[q].count <= counter'[hit'[q].key]
    BY <1>2, <1>4, <1>8, <2>1
  <2>3. \A r, q \in Requests :
          r # q /\ Timely(r)' /\ Timely(q)' /\ hit'[r].key = hit'[q].key => hit'[r].count # hit'[q].count
    BY <1>2, <1>8 DEF RateInv, NumbersDiffer
  <2> QED
    BY <2>2, <2>3 DEF NumbersDiffer
<1>10. NumbersAreEarned'
  <2>1. \A k : Seen(k)' = Seen(k)
    BY <1>2 DEF Seen
  <2>2. ASSUME NEW k \in Keys PROVE counter'[k] <= Cardinality(Seen(k))
    <3>1. counter[k] <= Cardinality(Seen(k)) /\ Cardinality(Seen(k)) \in Nat
      BY SeenIsFinite DEF RateInv, NumbersAreEarned
    <3> QED
      BY <1>1, <1>2, <3>1
  <2> QED
    BY <1>2, <1>8, <2>1, <2>2 DEF RateInv, NumbersAreEarned
<1>11. Decided'
  BY <1>2 DEF RateInv, Decided
<1> QED
  BY <1>3, <1>7, <1>9, <1>10, <1>11 DEF RateInv

LEMMA RateKeeps == RateInv /\ [RateNext]_rateVars => RateInv'
<1> SUFFICES ASSUME RateInv, [RateNext]_rateVars PROVE RateInv'
  OBVIOUS
<1>1. CASE \E r \in Requests, s \in Subjects : Arrive(r, s)
  BY <1>1, ArriveKeeps
<1>2. CASE \E r \in Requests : Count(r)
  BY <1>2, CountKeeps
<1>3. CASE \E r \in Requests : Expire(r) \/ Answer(r)
  BY <1>3, SettleKeeps
<1>4. CASE \E r \in Requests : FailOpen(r)
  BY <1>4, FailOpenKeeps
<1>5. CASE Pass
  BY <1>5, PassKeeps
<1>6. CASE UNCHANGED rateVars
  BY <1>6 DEF rateVars, RateInv, Types, InTheirTime, NumbersDiffer, NumbersAreEarned, Decided,
              Timely, Counted, Seen, Bucket
<1> QED
  BY <1>1, <1>2, <1>3, <1>4, <1>5, <1>6 DEF RateNext

----------------------------------------------------------------------------
(* What it implies                                                         *)

\* Those who were admitted in time have numbers from 1 to the limit, all different.
LEMMA AdmissionsBounded ==
  ASSUME RateInv, NEW k
  PROVE  /\ IsFiniteSet(Admissions(k)) /\ Cardinality(Admissions(k)) \in Nat
         /\ Cardinality(Admissions(k)) <= Limit
<1> DEFINE number == [r \in Admissions(k) |-> hit[r].count]
<1>1. IsFiniteSet(Admissions(k)) /\ Cardinality(Admissions(k)) \in Nat
  BY LimitAssumption, FS_Subset, FS_CardinalityType DEF Admissions
<1>2. \A r \in Admissions(k) : hit[r].count \in 1 .. Limit /\ Timely(r) /\ hit[r].key = k /\ r \in Requests
  BY LimitAssumption
  DEF Admissions, InTime, Timely, Counted, RateInv, Types, NumbersAreEarned, Decided
<1>3. \A r, q \in Admissions(k) : r # q => hit[r].count # hit[q].count
  BY <1>2 DEF RateInv, NumbersDiffer
<1>4. number \in Injection(Admissions(k), 1 .. Limit)
  BY <1>2, <1>3 DEF Injection, IsInjective
<1>5. IsFiniteSet(1 .. Limit) /\ Cardinality(1 .. Limit) = Limit
  BY LimitAssumption, FS_Interval
<1> QED
  BY <1>1, <1>4, <1>5, FS_Injection

LEMMA LimitsFollow == RateInv => LimitsHold
<1> SUFFICES ASSUME RateInv PROVE LimitsHold
  OBVIOUS
<1>1. RateTypeOK
  BY DEF RateInv, Types, InTheirTime, RateTypeOK
<1>2. WindowBounded
  BY AdmissionsBounded DEF WindowBounded
<1>3. ASSUME NEW s \in Subjects, NEW t \in 0 .. LastTick
      PROVE  Cardinality(AdmittedIn(s, t .. t + Window - 1)) <= 2 * Limit
  <2> DEFINE span == t .. t + Window - 1
             first == Admissions(<<s, Bucket(t)>>)
             second == Admissions(<<s, Bucket(t) + 1>>)
  <2>1. t \in Nat
    BY WindowAssumption
  <2>2. AdmittedIn(s, span) \subseteq first \union second
    <3> SUFFICES ASSUME NEW r \in AdmittedIn(s, span) PROVE r \in first \union second
      OBVIOUS
    <3>1. /\ r \in Requests /\ InTime(r) /\ hit[r].key[1] = s /\ hit[r].at \in span
          /\ hit[r].key[2] = Bucket(hit[r].at) /\ hit[r].key \in Keys
      BY DEF AdmittedIn, InTime, RateInv, Types
    <3>2. Bucket(hit[r].at) \in {Bucket(t), Bucket(t) + 1}
      BY <2>1, <3>1, SpanTouchesTwo
    <3>3. hit[r].key = <<s, Bucket(hit[r].at)>>
      BY <3>1 DEF Keys
    <3> QED
      BY <3>1, <3>2, <3>3 DEF Admissions
  <2>3. /\ IsFiniteSet(first) /\ Cardinality(first) \in Nat /\ Cardinality(first) <= Limit
        /\ IsFiniteSet(second) /\ Cardinality(second) \in Nat /\ Cardinality(second) <= Limit
    BY AdmissionsBounded
  <2>4. /\ IsFiniteSet(first \union second) /\ Cardinality(first \union second) \in Nat
        /\ IsFiniteSet(first \cap second) /\ Cardinality(first \cap second) \in Nat
        /\ Cardinality(first \union second) = Cardinality(first) + Cardinality(second) - Cardinality(first \cap second)
    BY <2>3, FS_Union, FS_Intersection, FS_CardinalityType
  <2>5. /\ Cardinality(AdmittedIn(s, span)) <= Cardinality(first \union second)
        /\ Cardinality(AdmittedIn(s, span)) \in Nat
    BY <2>2, <2>4, FS_Subset, FS_CardinalityType
  <2> HIDE DEF first, second
  <2> QED
    BY <2>3, <2>4, <2>5, LimitAssumption
<1>4. ASSUME NEW r \in Requests, hit[r].pc = "refused"
      PROVE  Cardinality({q \in Requests \ {r} : hit[q].key = hit[r].key /\ hit[q].pc # "counting"}) >= Limit
  <2> DEFINE mine == hit[r].key
             others == {q \in Requests \ {r} : hit[q].key = mine /\ hit[q].pc # "counting"}
  <2>1. hit[r].count > Limit /\ hit[r].count <= Cardinality(Seen(mine)) /\ hit[r].count \in Nat
    BY <1>4 DEF RateInv, Types, Decided, NumbersAreEarned, Counted
  <2>2. r \in Seen(mine) /\ Seen(mine) \ {r} \subseteq others
    BY <1>4 DEF Seen
  <2>3. IsFiniteSet(Seen(mine)) /\ Cardinality(Seen(mine)) \in Nat
    BY SeenIsFinite
  <2>4. Cardinality(Seen(mine) \ {r}) = Cardinality(Seen(mine)) - 1
    BY <2>2, <2>3, FS_RemoveElement
  <2>5. IsFiniteSet(others) /\ Cardinality(others) \in Nat
    BY LimitAssumption, FS_Subset, FS_CardinalityType
  <2>6. Cardinality(Seen(mine) \ {r}) <= Cardinality(others)
    BY <2>2, <2>5, FS_Subset
  <2> HIDE DEF others
  <2>7. Cardinality(others) >= Limit
    BY <2>1, <2>3, <2>4, <2>5, <2>6, LimitAssumption
  <2> QED
    BY <2>7 DEF others
<1> QED
  BY <1>1, <1>2, <1>3, <1>4 DEF LimitsHold, SpanBounded, RefusedWindowWasFull

\* The limits of services/quota.py hold: in a window, across two of them, and
\* against nobody but the requests that count for the same key.
THEOREM LimitsAreHeld == RateSpec => []LimitsHold
<1>1. RateSpec => []RateInv
  BY RateStarts, RateKeeps, PTL DEF RateSpec
<1> QED
  BY <1>1, LimitsFollow, PTL

----------------------------------------------------------------------------
(*************************************************************************)
(* Settings: what is saved stands, is audited, and is what alerts go by. *)
(*************************************************************************)

Column == [Parts -> Saves \union {Initially}]

SaveRecord == [pc : {"idle", "read", "flushed", "refused", "done", "failed"}, saw : Column,
               part : Parts \union {NoOne}, after : SUBSET Saves]
AlertRecord == [pc : {"idle", "raised", "sent"}, after : SUBSET Saves, used : Saves \union {Initially, NoOne}]

SavesTyped == save \in [Saves -> SaveRecord] /\ alert \in [Alerts -> AlertRecord]

\* What a save would write back: it has seen every change that was committed
\* when it began, and knows itself raced by every other one.
SeesOrRaces(v) ==
  save[v].pc \in {"read", "flushed"} =>
    /\ save[v].after \subseteq Saved
    /\ \A w \in Changed :
         IF w \in save[v].after THEN save[v].saw[save[w].part] = w \/ Superseded(w)
                                ELSE v \in raced

AlertsFollowChanges == \A e \in Alerts : alert[e].after \subseteq Changed

SettingsInv ==
  SettingsStand /\ SavesTyped /\ (\A v \in Saves : SeesOrRaces(v)) /\ AlertsFollowChanges

\* What is done stays done, and what is superseded stays so.
Later ==
  /\ raced \subseteq raced'
  /\ \A w \in Saved : w \in Saved' /\ save'[w] = save[w]

LEMMA ChangesLast ==
  ASSUME SavesTyped, Later
  PROVE  /\ \A w \in Changed : w \in Changed' /\ save'[w].part = save[w].part
         /\ \A w \in Changed : Superseded(w) => Superseded(w)'
<1>1. \A w \in Changed : w \in Changed' /\ save'[w].part = save[w].part /\ save'[w].after = save[w].after
  BY DEF Changed, Later
<1> QED
  BY <1>1 DEF Superseded, Later

LEMMA SettingsStart == SettingsInit => SettingsInv
<1> SUFFICES ASSUME SettingsInit PROVE SettingsInv
  OBVIOUS
<1>1. Saved = {} /\ Changed = {}
  BY DEF SettingsInit, Saved, Changed
<1>2. SavesTyped
  BY DEF SettingsInit, SavesTyped, Column, SaveRecord, AlertRecord
<1>3. SettingsTypeOK
  BY <1>1, SavesAssumption DEF SettingsInit, SettingsTypeOK
<1>4. SaveStands /\ AlertsFollowSettings /\ AlertsFollowChanges /\ \A v \in Saves : SeesOrRaces(v)
  BY <1>1 DEF SettingsInit, SaveStands, AlertsFollowSettings, AlertsFollowChanges, SeesOrRaces
<1> QED
  BY <1>2, <1>3, <1>4 DEF SettingsInv, SettingsStand

\* A step that commits nothing: one save moves, or none.
LEMMA NothingCommitted ==
  ASSUME SettingsInv, SavesTyped', SettingsTypeOK', settings' = settings, raced' = raced,
         Saved' = Saved, \A w \in Saved : save'[w] = save[w],
         \A v \in Saves : save'[v].pc \in {"read", "flushed"} =>
           \/ /\ save[v].pc \in {"read", "flushed"}
              /\ save'[v].saw = save[v].saw /\ save'[v].after = save[v].after
           \/ save'[v].saw = settings /\ save'[v].after = Saved,
         \A e \in Alerts :
           \/ alert'[e] = alert[e]
           \/ alert'[e].pc # "sent" /\ alert'[e].after = Changed
           \/ alert'[e].after = alert[e].after /\ alert'[e].used = settings["notifications"]
  PROVE  SettingsInv'
<1>1. Later /\ Changed' = Changed /\ Changed \subseteq Saved
  BY DEF Later, Changed
<1>2. \A w \in Changed : save'[w].part = save[w].part /\ (Superseded(w) => Superseded(w)')
  BY <1>1, ChangesLast DEF SettingsInv
<1>3. SaveStands'
  BY <1>1, <1>2 DEF SettingsInv, SettingsStand, SaveStands
<1>4. AlertsFollowChanges'
  BY <1>1 DEF SettingsInv, AlertsFollowChanges
<1>5. AlertsFollowSettings'
  <2> SUFFICES ASSUME NEW e \in Alerts, alert'[e].pc = "sent", NEW w \in alert'[e].after,
                      save'[w].part = "notifications"
               PROVE  alert'[e].used = w \/ Superseded(w)'
    BY DEF AlertsFollowSettings
  <2>1. w \in Changed /\ save[w].part = "notifications"
    BY <1>1, <1>2, <1>4 DEF AlertsFollowChanges
  <2>2. CASE alert'[e] = alert[e]
    BY <1>2, <2>1, <2>2 DEF SettingsInv, SettingsStand, AlertsFollowSettings
  <2>3. CASE alert'[e].used = settings["notifications"]
    BY <1>2, <2>1, <2>3 DEF SettingsInv, SettingsStand, SaveStands
  <2> QED
    BY <2>2, <2>3
<1>6. ASSUME NEW v \in Saves PROVE SeesOrRaces(v)'
  BY <1>1, <1>2 DEF SettingsInv, SettingsStand, SaveStands, SeesOrRaces
<1> QED
  BY <1>3, <1>4, <1>5, <1>6 DEF SettingsInv, SettingsStand

LEMMA SaveMovesKeeps ==
  ASSUME SettingsInv, NEW w \in Saves,
         (\E part \in Parts \union {NoOne} : BeginSave(w, part)) \/ Invalid(w) \/ Flush(w) \/ SaveFails(w)
  PROVE  SettingsInv'
<1>1. /\ settings' = settings /\ raced' = raced /\ audit' = audit /\ agent' = agent /\ alert' = alert
      /\ \A v \in Saves \ {w} : save'[v] = save[v]
  BY DEF BeginSave, Invalid, Flush, SaveFails, SettingsInv, SavesTyped
<1>2. SavesTyped'
  <2>1. settings \in Column /\ Saved \subseteq Saves
    BY DEF SettingsInv, SettingsStand, SettingsTypeOK, Column, Saved
  <2> QED
    BY <1>1, <2>1 DEF BeginSave, Invalid, Flush, SaveFails, SettingsInv, SavesTyped, SaveRecord, AlertRecord
<1>3. /\ save[w].pc \in {"idle", "read", "flushed"} /\ save'[w].pc \in {"read", "flushed", "refused", "failed"}
      /\ save'[w].pc \in {"read", "flushed"} =>
           \/ /\ save[w].pc \in {"read", "flushed"}
              /\ save'[w].saw = save[w].saw /\ save'[w].after = save[w].after
           \/ save'[w].saw = settings /\ save'[w].after = Saved
      /\ \/ held' = held /\ save[w].pc # "flushed" /\ save'[w].pc # "flushed"
         \/ held = NoOne /\ held' = w /\ save'[w].pc = "flushed"
         \/ save[w].pc = "flushed" /\ held' = NoOne /\ save'[w].pc # "flushed"
  BY DEF BeginSave, Invalid, Flush, SaveFails, SettingsInv, SavesTyped, SaveRecord, AlertRecord
<1>4. Saved' = Saved /\ \A v \in Saved : save'[v] = save[v]
  BY <1>1, <1>3 DEF Saved
<1>5. SettingsTypeOK'
  <2>1. \A v \in Saves : held' = v <=> save'[v].pc = "flushed"
    BY <1>1, <1>3, SavesAssumption DEF SettingsInv, SettingsStand, SettingsTypeOK
  <2>2. held' \in Saves \union {NoOne}
    BY <1>3 DEF SettingsInv, SettingsStand, SettingsTypeOK
  <2> QED
    BY <1>1, <1>2, <1>4, <2>1, <2>2 DEF SettingsInv, SettingsStand, SettingsTypeOK, SavesTyped, SaveRecord, AlertRecord
<1> QED
  BY <1>1, <1>2, <1>3, <1>4, <1>5, NothingCommitted

LEMMA AlertKeeps ==
  ASSUME SettingsInv,
         \/ \E active \in BOOLEAN : SaveAgent(active)
         \/ \E e \in Alerts : Raise(e) \/ Notify(e)
         \/ UNCHANGED settingsVars
  PROVE  SettingsInv'
<1>1. /\ settings' = settings /\ raced' = raced /\ audit' = audit /\ held' = held /\ save' = save
      /\ agent' \in BOOLEAN
  BY DEF SaveAgent, Raise, Notify, settingsVars, SettingsInv, SettingsStand, SettingsTypeOK
<1>2. /\ \A e \in Alerts :
           \/ alert'[e] = alert[e]
           \/ alert'[e].pc # "sent" /\ alert'[e].after = Changed
           \/ alert'[e].after = alert[e].after /\ alert'[e].used = settings["notifications"]
      /\ alert' \in [Alerts -> AlertRecord]
  <2>1. /\ Changed \subseteq Saves /\ settings["notifications"] \in Saves \union {Initially}
        /\ alert \in [Alerts -> AlertRecord]
    BY PartsAssumption DEF Changed, Saved, SettingsInv, SettingsStand, SettingsTypeOK, SavesTyped, AlertRecord
  <2>2. CASE (\E active \in BOOLEAN : SaveAgent(active)) \/ UNCHANGED settingsVars
    BY <2>1, <2>2 DEF SaveAgent, settingsVars
  <2>3. CASE \E e \in Alerts : Raise(e)
    <3> PICK e \in Alerts : Raise(e)
      BY <2>3
    <3> DEFINE t == [pc |-> "raised", after |-> Changed, used |-> NoOne]
    <3>1. alert' = [alert EXCEPT ![e] = t]
      BY DEF Raise
    <3>2. t \in AlertRecord /\ t.pc # "sent" /\ t.after = Changed
      BY <2>1 DEF AlertRecord
    <3> HIDE DEF t
    <3> QED
      BY <2>1, <3>1, <3>2
  <2>4. CASE \E e \in Alerts : Notify(e)
    <3> PICK e \in Alerts : Notify(e)
      BY <2>4
    <3> DEFINE t == [alert[e] EXCEPT !.pc = "sent", !.used = settings["notifications"]]
    <3>1. alert' = [alert EXCEPT ![e] = t]
      BY <2>1 DEF Notify, AlertRecord
    <3>2. t \in AlertRecord /\ t.after = alert[e].after /\ t.used = settings["notifications"]
      BY <2>1 DEF AlertRecord
    <3> HIDE DEF t
    <3> QED
      BY <2>1, <3>1, <3>2
  <2> QED
    BY <2>2, <2>3, <2>4
<1>3. SavesTyped'
  BY <1>1, <1>2 DEF SettingsInv, SavesTyped, AlertRecord
<1>4. Saved' = Saved
  BY <1>1 DEF Saved
<1>5. SettingsTypeOK'
  BY <1>1, <1>3, <1>4 DEF SettingsInv, SettingsStand, SettingsTypeOK, SavesTyped, SaveRecord, AlertRecord
<1> QED
  BY <1>1, <1>2, <1>3, <1>4, <1>5, NothingCommitted

LEMMA CommitSaveKeeps ==
  ASSUME SettingsInv, NEW v \in Saves, CommitSave(v)
  PROVE  SettingsInv'
<1>1. /\ save[v].pc = "flushed" /\ held = v
      /\ audit' = audit \union {v} /\ held' = NoOne /\ agent' = agent /\ alert' = alert
      /\ raced' = raced \union {u \in Saves \ {v} : save[u].pc \in {"read", "flushed"}}
  BY DEF CommitSave, SettingsInv, SettingsStand, SettingsTypeOK
<1>2. /\ SavesTyped' /\ save'[v].pc = "done" /\ save'[v].part = save[v].part /\ save'[v].after = save[v].after
      /\ \A u \in Saves \ {v} : save'[u] = save[u]
  <2> DEFINE t == [save[v] EXCEPT !.pc = "done"]
  <2>1. save[v] \in SaveRecord /\ save \in [Saves -> SaveRecord]
    BY DEF SettingsInv, SavesTyped, SaveRecord
  <2>2. save' = [save EXCEPT ![v] = t]
    BY <2>1 DEF CommitSave
  <2>3. t \in SaveRecord /\ t.pc = "done" /\ t.part = save[v].part /\ t.after = save[v].after
    BY <2>1 DEF SaveRecord
  <2> HIDE DEF t
  <2>4. save' \in [Saves -> SaveRecord]
    BY <2>1, <2>2, <2>3
  <2> QED
    BY <1>1, <2>1, <2>2, <2>3, <2>4 DEF SettingsInv, SavesTyped, SaveRecord
<1>3. Saved' = Saved \union {v} /\ v \notin Saved /\ Saved \subseteq Saves
  BY <1>1, <1>2 DEF Saved
<1>4. Later
  BY <1>1, <1>2, <1>3 DEF Later
<1>5. Changed' = IF save[v].part = NoOne THEN Changed ELSE Changed \union {v}
  BY <1>2, <1>3 DEF Changed
<1>6. \A w \in Changed :
        w \in Changed' /\ w # v /\ w \in Saves /\ save'[w].part = save[w].part /\ (Superseded(w) => Superseded(w)')
  BY <1>3, <1>4, ChangesLast DEF SettingsInv, Changed
<1>7. \A w \in Changed : save[w].part \in Parts
  BY <1>3 DEF SettingsInv, SavesTyped, Changed, SaveRecord, AlertRecord
<1>8. settings' = IF save[v].part = NoOne THEN settings ELSE [save[v].saw EXCEPT ![save[v].part] = v]
  BY DEF CommitSave, Merged
<1>9. settings' \in Column /\ save[v].saw \in Column /\ save[v].part \in Parts \union {NoOne}
  BY <1>8 DEF Column, SettingsInv, SavesTyped, SettingsStand, SettingsTypeOK, SaveRecord, AlertRecord
<1>10. SettingsTypeOK'
  <2>1. \A u \in Saves : held' = u <=> save'[u].pc = "flushed"
    BY <1>1, <1>2, SavesAssumption DEF SettingsInv, SettingsStand, SettingsTypeOK
  <2>2. raced' \subseteq Saves /\ audit' = Saved'
    BY <1>1, <1>3 DEF SettingsInv, SettingsStand, SettingsTypeOK
  <2> QED
    BY <1>1, <1>2, <1>9, <2>1, <2>2 DEF SettingsInv, SettingsStand, SettingsTypeOK, SavesTyped, Column
<1>11. SaveStands'
  <2> SUFFICES ASSUME NEW w \in Changed' PROVE settings'[save'[w].part] = w \/ Superseded(w)'
    BY DEF SaveStands
  <2>1. CASE save[v].part = NoOne
    BY <1>5, <1>6, <1>8, <2>1 DEF SettingsInv, SettingsStand, SaveStands
  <2>2. CASE save[v].part # NoOne /\ w = v
    BY <1>2, <1>8, <1>9, <2>2 DEF Column
  <2>3. CASE save[v].part # NoOne /\ w # v
    <3>1. w \in Changed /\ SeesOrRaces(v) /\ v \in Changed'
      BY <1>5, <2>3 DEF SettingsInv
    <3>2. CASE w \notin save[v].after
      BY <1>1, <1>2, <1>6, <3>1, <3>2 DEF SeesOrRaces, Superseded
    <3>3. CASE w \in save[v].after /\ save[w].part = save[v].part
      BY <1>2, <1>6, <3>1, <3>3 DEF Superseded
    <3>4. CASE w \in save[v].after /\ save[w].part # save[v].part
      <4>1. settings'[save[w].part] = save[v].saw[save[w].part]
        BY <1>7, <1>8, <1>9, <2>3, <3>1, <3>4 DEF Column
      <4> QED
        BY <1>1, <1>6, <3>1, <3>4, <4>1 DEF SeesOrRaces
    <3> QED
      BY <3>2, <3>3, <3>4
  <2> QED
    BY <2>1, <2>2, <2>3
<1>12. AlertsFollowChanges' /\ AlertsFollowSettings'
  BY <1>1, <1>6 DEF SettingsInv, SettingsStand, AlertsFollowChanges, AlertsFollowSettings
<1>13. ASSUME NEW u \in Saves PROVE SeesOrRaces(u)'
  <2> SUFFICES ASSUME save'[u].pc \in {"read", "flushed"} PROVE SeesOrRaces(u)'
    BY DEF SeesOrRaces
  <2>1. /\ u # v /\ save'[u] = save[u] /\ u \in raced'
        /\ save[u].after \subseteq Saved /\ save[u].after \subseteq Saved'
    BY <1>1, <1>2, <1>3 DEF SettingsInv, SeesOrRaces
  <2>2. ASSUME NEW w \in Changed'
        PROVE  IF w \in save'[u].after THEN save'[u].saw[save'[w].part] = w \/ Superseded(w)'
                                       ELSE u \in raced'
    <3>1. CASE w \in Changed
      BY <1>6, <2>1, <3>1 DEF SettingsInv, SeesOrRaces
    <3>2. CASE w \notin Changed
      <4>1. w = v
        BY <1>5, <2>2, <3>2
      <4> QED
        BY <1>3, <2>1, <4>1
    <3> QED
      BY <3>1, <3>2
  <2> QED
    BY <2>1, <2>2 DEF SeesOrRaces
<1> QED
  BY <1>2, <1>10, <1>11, <1>12, <1>13 DEF SettingsInv, SettingsStand

LEMMA SettingsStep == SettingsInv /\ [SettingsNext]_settingsVars => SettingsInv'
<1> SUFFICES ASSUME SettingsInv, [SettingsNext]_settingsVars PROVE SettingsInv'
  OBVIOUS
<1>1. ASSUME NEW w \in Saves,
             (\E part \in Parts \union {NoOne} : BeginSave(w, part)) \/ Invalid(w) \/ Flush(w) \/ SaveFails(w)
      PROVE  SettingsInv'
  BY <1>1, SaveMovesKeeps
<1>2. ASSUME NEW w \in Saves, CommitSave(w) PROVE SettingsInv'
  BY <1>2, CommitSaveKeeps
<1> QED
  BY <1>1, <1>2, AlertKeeps DEF SettingsNext

\* What a manager has saved stands until a save of the same key, or one that
\* overlapped it; it is in the audit log, and alerts go by it.
THEOREM SettingsStandFirm == SettingsSpec => []SettingsStand
<1>1. SettingsInv => SettingsStand
  BY DEF SettingsInv
<1> QED
  BY SettingsStart, SettingsStep, <1>1, PTL DEF SettingsSpec

----------------------------------------------------------------------------
(*************************************************************************)
(* Contact requests: one row each, notices and statuses that fit it, and *)
(* decisions that stay.                                                  *)
(*************************************************************************)

PostRecord == [pc : {"idle", "looking", "adding", "answered", "refused"},
               text : Texts \union {"none"}, after : SUBSET Submissions]
CallRecord == [pc : {"idle", "set", "auto", "mailing", "mailed", "done", "failed"},
               on : Submissions \union {NoRow}, saw : Statuses \union {NoRow}, set : Statuses \union {NoRow}]

DeskTyped == post \in [Submissions -> PostRecord] /\ call \in [AdminCalls -> CallRecord]

\* Only what was answered can have been answered before something, and what
\* is being added has no equal that was.
PostsInOrder ==
  /\ \A s \in Submissions : notice[s] # "none" => post[s].pc = "answered"
  /\ \A s, t \in Submissions : s \in post[t].after => post[s].pc = "answered"
  /\ \A t \in Submissions : post[t].pc = "adding" =>
       \A s \in Stored \ aged : post[s].text = post[t].text => s \notin post[t].after

\* What a status says of the text, and of the admins; what its lack does.
StatusesInOrder ==
  \A s \in Submissions :
    /\ row[s] = "spam" => post[s].text \in LinkStuffed \/ s \in vetted
    /\ row[s] \notin {NoRow, "spam"} /\ post[s].text \in LinkStuffed => s \in vetted
    /\ notice[s] # "none" /\ row[s] = NoRow => \E a \in AdminCalls : call[a].on = s /\ call[a].pc = "done"

\* What a call is about to write follows from what it read.
CallInOrder(c) ==
  /\ c.pc # "idle" => c.on \in Submissions /\ notice[c.on] # "none"
  /\ c.pc = "mailed" => c.on \in invited /\ c.set = MailStatus(c.saw)
  /\ c.pc = "auto" => c.set \in {AutoStatus(c.saw), NoRow}
  /\ c.pc \in {"auto", "mailing", "mailed"} /\ c.saw \in Open /\ post[c.on].text \in LinkStuffed => c.on \in vetted

CallsInOrder == \A a \in AdminCalls : CallInOrder(call[a])

DeskInv == RequestsKept /\ DeskTyped /\ PostsInOrder /\ StatusesInOrder /\ CallsInOrder

LEMMA DeskStart == DeskInit => DeskInv
<1> SUFFICES ASSUME DeskInit PROVE DeskInv
  OBVIOUS
<1>1. Stored = {}
  BY DEF DeskInit, Stored
<1>2. DeskTyped
  BY DEF DeskInit, DeskTyped, PostRecord, CallRecord, NoCall
<1>3. RequestsKept
  BY <1>1 DEF DeskInit, RequestsKept, DeskTypeOK, ResubmittedOnce, NoticeFindsItsRow, SpamIsSilent, InvitationRecorded
<1>4. PostsInOrder /\ StatusesInOrder
  BY <1>1 DEF DeskInit, PostsInOrder, StatusesInOrder, NoRow
<1>5. CallsInOrder
  <2>1. \A a \in AdminCalls : call[a].pc = "idle"
    BY DEF DeskInit, NoCall
  <2> QED
    BY <2>1 DEF CallsInOrder, CallInOrder
<1> QED
  BY <1>2, <1>3, <1>4, <1>5 DEF DeskInv

\* A submission moves before it is stored.
LEMMA PostKeeps ==
  ASSUME DeskInv, NEW s \in Submissions,
         (\E text \in Texts : Submit(s, text)) \/ Look(s) \/ StoreFails(s)
  PROVE  DeskInv'
<1>1. /\ row' = row /\ aged' = aged /\ notice' = notice /\ call' = call
      /\ invited' = invited /\ marked' = marked /\ vetted' = vetted /\ Stored' = Stored
      /\ \A t \in Submissions \ {s} : post'[t] = post[t]
  BY DEF Submit, Look, StoreFails, Stored, DeskInv, DeskTyped
<1>2. /\ post' \in [Submissions -> PostRecord]
      /\ post[s].pc \in {"idle", "looking", "adding"}
      /\ \/ /\ post'[s].text = post[s].text /\ post'[s].after = post[s].after
            /\ post'[s].pc = "adding" => Equal(s) = {}
         \/ post'[s].pc # "adding" /\ \A t \in post'[s].after : post[t].pc = "answered"
  <2>1. CASE \E text \in Texts : Submit(s, text)
    BY <2>1 DEF Submit, DeskInv, DeskTyped, PostRecord
  <2>2. CASE Look(s)
    BY <2>2 DEF Look, DeskInv, DeskTyped, PostRecord
  <2>3. CASE StoreFails(s)
    BY <2>3 DEF StoreFails, DeskInv, DeskTyped, PostRecord
  <2> QED
    BY <2>1, <2>2, <2>3
<1>3. s \notin Stored /\ notice[s] = "none"
  BY <1>2 DEF DeskInv, RequestsKept, DeskTypeOK, PostsInOrder, Stored
<1>4. \A t \in Submissions : post[t].pc = "answered" => post'[t].pc = "answered"
  BY <1>1, <1>2
<1>5. RequestsKept'
  BY <1>1, <1>2, <1>3, <1>4 DEF DeskInv, RequestsKept, DeskTypeOK, ResubmittedOnce, NoticeFindsItsRow, SpamIsSilent, InvitationRecorded, Stored
<1>6. PostsInOrder'
  <2>1. \A t \in Submissions : notice'[t] # "none" => post'[t].pc = "answered"
    BY <1>1, <1>4 DEF DeskInv, PostsInOrder
  <2>2. \A u, t \in Submissions : u \in post'[t].after => post'[u].pc = "answered"
    BY <1>1, <1>2, <1>4 DEF DeskInv, PostsInOrder
  <2>3. ASSUME NEW t \in Submissions, post'[t].pc = "adding", NEW u \in Stored \ aged, u \in Submissions, post'[u].text = post'[t].text
        PROVE  u \notin post'[t].after
    BY <1>1, <1>2, <1>3, <2>3 DEF DeskInv, PostsInOrder, Equal
  <2> QED
    BY <1>1, <2>1, <2>2, <2>3 DEF PostsInOrder, Stored
<1>7. StatusesInOrder'
  BY <1>1, <1>3 DEF DeskInv, StatusesInOrder, Stored, NoRow
<1>8. CallsInOrder'
  BY <1>1, <1>3 DEF DeskInv, CallsInOrder, CallInOrder
<1> QED
  BY <1>1, <1>2, <1>5, <1>6, <1>7, <1>8 DEF DeskInv, DeskTyped

LEMMA StoreKeeps ==
  ASSUME DeskInv, NEW s \in Submissions, Store(s)
  PROVE  DeskInv'
<1>1. /\ aged' = aged /\ call' = call /\ invited' = invited /\ marked' = marked /\ vetted' = vetted
      /\ \A t \in Submissions \ {s} : post'[t] = post[t] /\ row'[t] = row[t] /\ notice'[t] = notice[t]
      /\ row'[s] = FirstStatus(s) /\ notice'[s] = "queued" /\ post[s].pc = "adding"
      /\ row' \in [Submissions -> Statuses \union {NoRow}]
      /\ notice' \in [Submissions -> {"none", "queued", "sent", "skipped"}]
  BY DEF Store, FirstStatus, DeskInv, DeskTyped, RequestsKept, DeskTypeOK, Statuses, Open
<1>2. /\ post' \in [Submissions -> PostRecord]
      /\ post'[s].pc = "answered" /\ post'[s].text = post[s].text /\ post'[s].after = post[s].after
  BY DEF Store, DeskInv, DeskTyped, PostRecord
<1>3. notice[s] = "none" /\ row[s] = NoRow
  BY <1>1 DEF DeskInv, RequestsKept, DeskTypeOK, PostsInOrder
<1>4. Stored' = Stored \union {s}
  BY <1>1 DEF Stored, FirstStatus, NoRow
<1>5. \A t \in Submissions : s \notin post[t].after
  BY <1>1 DEF DeskInv, PostsInOrder
<1>6. \A t \in Submissions : post'[t].text = post[t].text /\ post'[t].after = post[t].after
  BY <1>1, <1>2
<1>7. ResubmittedOnce'
  BY <1>1, <1>4, <1>5, <1>6 DEF DeskInv, RequestsKept, ResubmittedOnce, PostsInOrder, Stored
<1>8. s \notin invited /\ s \notin vetted
  BY <1>3 DEF DeskInv, RequestsKept, DeskTypeOK
<1>9. DeskTypeOK' /\ NoticeFindsItsRow' /\ SpamIsSilent' /\ InvitationRecorded'
  BY <1>1, <1>2, <1>3, <1>6, <1>8 DEF DeskInv, RequestsKept, DeskTypeOK, NoticeFindsItsRow, SpamIsSilent, InvitationRecorded
<1>10. PostsInOrder'
  BY <1>1, <1>2, <1>4, <1>5, <1>6 DEF DeskInv, PostsInOrder, Stored
<1>11. StatusesInOrder'
  BY <1>1, <1>6 DEF DeskInv, StatusesInOrder, FirstStatus, NoRow
<1>12. CallsInOrder'
  BY <1>1, <1>3, <1>6 DEF DeskInv, CallsInOrder, CallInOrder
<1> QED
  BY <1>1, <1>2, <1>7, <1>9, <1>10, <1>11, <1>12 DEF DeskInv, RequestsKept, DeskTyped

LEMMA AgeAndNotifyKeep ==
  ASSUME DeskInv, NEW s \in Submissions, Age(s) \/ NotifyAdmins(s)
  PROVE  DeskInv'
<1>1. /\ post' = post /\ row' = row /\ call' = call /\ invited' = invited /\ marked' = marked /\ vetted' = vetted
      /\ aged \subseteq aged' /\ Stored' = Stored
      /\ notice' \in [Submissions -> {"none", "queued", "sent", "skipped"}]
      /\ \A t \in Submissions : notice'[t] # "none" <=> notice[t] # "none"
      /\ \A t \in Submissions : notice'[t] = notice[t] \/ (notice'[t] = Noticed(t) /\ notice[t] = "queued")
  BY DEF Age, NotifyAdmins, Noticed, Stored, DeskInv, RequestsKept, DeskTypeOK
<1>2. DeskTypeOK' /\ ResubmittedOnce' /\ InvitationRecorded'
  BY <1>1 DEF DeskInv, RequestsKept, DeskTypeOK, ResubmittedOnce, InvitationRecorded
<1>3. NoticeFindsItsRow' /\ SpamIsSilent'
  BY <1>1 DEF DeskInv, RequestsKept, DeskTypeOK, NoticeFindsItsRow, SpamIsSilent, StatusesInOrder, Noticed
<1>4. PostsInOrder' /\ StatusesInOrder' /\ CallsInOrder'
  BY <1>1 DEF DeskInv, PostsInOrder, StatusesInOrder, CallsInOrder, CallInOrder
<1> QED
  BY <1>1, <1>2, <1>3, <1>4 DEF DeskInv, RequestsKept, DeskTyped

\* One call moves to t, and rows, marks and hands may follow.
LEMMA CallKeeps ==
  ASSUME DeskInv, NEW a \in AdminCalls, NEW t \in CallRecord, call' = [call EXCEPT ![a] = t],
         post' = post, aged' = aged, notice' = notice,
         call[a].pc # "done",
         call[a].pc \in {"mailed", "failed"} =>
            \/ t.pc \in {"mailed", "failed"} /\ t.on = call[a].on
            \/ row'[call[a].on] = NoRow \/ call[a].on \in marked',
         t.pc # "idle", t.on \in Submissions, notice[t.on] # "none",
         t.pc = "mailed" => t.on \in invited' /\ t.set = MailStatus(t.saw),
         t.pc = "auto" => t.set \in {AutoStatus(t.saw), NoRow},
         t.pc \in {"auto", "mailing", "mailed"} /\ t.saw \in Open /\ post[t.on].text \in LinkStuffed => t.on \in vetted,
         row' \in [Submissions -> Statuses \union {NoRow}],
         \A s \in Submissions :
           \/ row'[s] = row[s]
           \/ s = t.on /\ t.pc = "done" /\ row'[s] = NoRow
           \/ /\ row[s] # NoRow /\ row'[s] # NoRow
              /\ row'[s] = "spam" => s \in vetted'
              /\ row'[s] # "spam" /\ post[s].text \in LinkStuffed => s \in vetted',
         invited \subseteq invited', invited' \subseteq invited \union {t.on},
         t.on \in invited' \ invited => t.pc = "mailed",
         marked \subseteq marked', marked' \subseteq invited', vetted \subseteq vetted', vetted' \subseteq vetted \union {t.on}
  PROVE  DeskInv'
<1>1. /\ call' \in [AdminCalls -> CallRecord] /\ call'[a] = t
      /\ \A b \in AdminCalls \ {a} : call'[b] = call[b]
  BY DEF DeskInv, DeskTyped
<1>2. Stored' \subseteq Stored
  BY DEF Stored
<1>3. DeskTypeOK'
  BY DEF DeskInv, RequestsKept, DeskTypeOK
<1>4. ResubmittedOnce' /\ SpamIsSilent'
  BY <1>2 DEF DeskInv, RequestsKept, ResubmittedOnce, SpamIsSilent
<1>5. \A s \in Submissions, b \in AdminCalls :
        call[b].on = s /\ call[b].pc = "done" => call'[b].on = s /\ call'[b].pc = "done"
  BY <1>1
<1>6. NoticeFindsItsRow'
  BY <1>5 DEF DeskInv, RequestsKept, NoticeFindsItsRow
<1>7. InvitationRecorded'
  <2> SUFFICES ASSUME NEW s \in invited' \ marked', row'[s] # NoRow
               PROVE  \E b \in AdminCalls : call'[b].on = s /\ call'[b].pc \in {"mailed", "failed"}
    BY DEF InvitationRecorded
  <2>1. CASE s \notin invited
    BY <1>1, <2>1
  <2>2. CASE s \in invited
    <3>1. s \in Submissions /\ row[s] # NoRow
      BY <2>2 DEF DeskInv, RequestsKept, DeskTypeOK
    <3>2. PICK b \in AdminCalls : call[b].on = s /\ call[b].pc \in {"mailed", "failed"}
      BY <2>2, <3>1 DEF DeskInv, RequestsKept, InvitationRecorded
    <3> QED
      BY <1>1, <3>2
  <2> QED
    BY <2>1, <2>2
<1>8. PostsInOrder'
  BY <1>2 DEF DeskInv, PostsInOrder
<1>9. StatusesInOrder'
  <2> SUFFICES ASSUME NEW s \in Submissions
               PROVE /\ row'[s] = "spam" => post[s].text \in LinkStuffed \/ s \in vetted'
                     /\ row'[s] \notin {NoRow, "spam"} /\ post[s].text \in LinkStuffed => s \in vetted'
                     /\ notice[s] # "none" /\ row'[s] = NoRow =>
                          \E b \in AdminCalls : call'[b].on = s /\ call'[b].pc = "done"
    BY DEF StatusesInOrder
  <2>1. row'[s] = row[s] => (notice[s] # "none" /\ row'[s] = NoRow =>
                          \E b \in AdminCalls : call'[b].on = s /\ call'[b].pc = "done")
    <3>1. notice[s] # "none" /\ row[s] = NoRow => \E b \in AdminCalls : call[b].on = s /\ call[b].pc = "done"
      BY DEF DeskInv, StatusesInOrder
    <3> QED
      BY <1>5, <3>1
  <2> QED
    BY <1>1, <2>1 DEF DeskInv, StatusesInOrder, NoRow
<1>10. CallsInOrder'
  BY <1>1 DEF DeskInv, CallsInOrder, CallInOrder
<1> QED
  BY <1>1, <1>3, <1>4, <1>6, <1>7, <1>8, <1>9, <1>10 DEF DeskInv, RequestsKept, DeskTyped

LEMMA ReadKeeps ==
  ASSUME DeskInv, NEW a \in AdminCalls, NEW s \in Submissions, ReadForUpdate(a, s) \/ ReadForMail(a, s)
  PROVE  DeskInv'
<1>1. PICK pc \in {"set", "auto", "mailing"}, set \in Statuses \union {NoRow} :
        Read(a, s, pc, set) /\ (pc = "auto" => set \in {AutoStatus(row[s]), NoRow})
  BY DEF ReadForUpdate, ReadForMail, AutoStatus, Statuses
<1> DEFINE t == [pc |-> pc, on |-> s, saw |-> row[s], set |-> set]
<1>2. /\ call' = [call EXCEPT ![a] = t] /\ post' = post /\ row' = row /\ aged' = aged /\ notice' = notice
      /\ invited' = invited /\ marked' = marked /\ vetted' = vetted
      /\ call[a].pc = "idle" /\ s \in Stored
  BY <1>1 DEF Read
<1>3. /\ row \in [Submissions -> Statuses \union {NoRow}] /\ marked \subseteq invited
      /\ row[s] # NoRow /\ notice[s] # "none"
      /\ row[s] \in Open /\ post[s].text \in LinkStuffed => s \in vetted
  BY <1>2 DEF DeskInv, RequestsKept, DeskTypeOK, StatusesInOrder, Stored, Open, NoRow
<1>4. t \in CallRecord /\ t.pc = pc /\ t.on = s /\ t.saw = row[s] /\ t.set = set
  BY <1>3 DEF CallRecord
<1> HIDE DEF t
<1> QED
  BY <1>1, <1>2, <1>3, <1>4, CallKeeps

LEMMA MailSentKeeps ==
  ASSUME DeskInv, NEW a \in AdminCalls, MailSent(a)
  PROVE  DeskInv'
<1> DEFINE t == [call[a] EXCEPT !.pc = "mailed", !.set = MailStatus(call[a].saw)]
<1>1. /\ call[a].pc = "mailing" /\ post' = post /\ row' = row /\ aged' = aged /\ notice' = notice
      /\ invited' = invited \union {call[a].on} /\ marked' = marked /\ vetted' = vetted
  BY DEF MailSent
<1>2. call[a] \in CallRecord /\ call' = [call EXCEPT ![a] = t]
  BY DEF MailSent, DeskInv, DeskTyped, CallRecord
<1>3. /\ row \in [Submissions -> Statuses \union {NoRow}] /\ marked \subseteq invited /\ CallInOrder(call[a])
  BY DEF DeskInv, RequestsKept, DeskTypeOK, CallsInOrder
<1>4. /\ t \in CallRecord /\ t.pc = "mailed" /\ t.on = call[a].on /\ t.saw = call[a].saw
      /\ t.set = MailStatus(call[a].saw)
  BY <1>2 DEF CallRecord, MailStatus, Statuses, Open
<1> HIDE DEF t
<1> QED
  BY <1>1, <1>2, <1>3, <1>4, CallKeeps DEF CallInOrder

LEMMA CallFailsKeeps ==
  ASSUME DeskInv, NEW a \in AdminCalls, MailFails(a) \/ WriteFails(a)
  PROVE  DeskInv'
<1> DEFINE t == [NoCall EXCEPT !.pc = "failed", !.on = call[a].on]
<1>1. /\ call[a].pc \in {"mailing", "set", "auto", "mailed"} /\ post' = post /\ row' = row /\ aged' = aged
      /\ notice' = notice /\ invited' = invited /\ marked' = marked /\ vetted' = vetted
  BY DEF MailFails, WriteFails
<1>2. call[a] \in CallRecord /\ call' = [call EXCEPT ![a] = t]
  BY DEF MailFails, WriteFails, Over, DeskInv, DeskTyped
<1>3. /\ row \in [Submissions -> Statuses \union {NoRow}] /\ marked \subseteq invited /\ CallInOrder(call[a])
  BY DEF DeskInv, RequestsKept, DeskTypeOK, CallsInOrder
<1>4. t \in CallRecord /\ t.pc = "failed" /\ t.on = call[a].on
  BY <1>2 DEF CallRecord, NoCall
<1> HIDE DEF t
<1> QED
  BY <1>1, <1>2, <1>3, <1>4, CallKeeps DEF CallInOrder

\* What a call writes is a status that follows from the one it read, or its
\* admin's own.
LEMMA WriteIsDecided ==
  ASSUME DeskInv, NEW a \in AdminCalls, Write(a), call[a].on \in Stored
  PROVE  /\ row' = [row EXCEPT ![call[a].on] = Keep(a)]
         /\ Keep(a) \in Statuses
         /\ call[a].set # NoRow /\ call[a].pc # "set" =>
              call[a].saw \in Open /\ call[a].set # "spam"
<1>1. call[a] \in CallRecord /\ CallInOrder(call[a]) /\ call[a].pc \in {"set", "auto", "mailed"}
  BY DEF Write, DeskInv, DeskTyped, CallsInOrder
<1>2. row[call[a].on] \in Statuses
  BY DEF Stored, DeskInv, RequestsKept, DeskTypeOK
<1>3. call[a].set \in Statuses \union {NoRow}
  BY <1>1 DEF CallRecord
<1>4. call[a].set # NoRow /\ call[a].pc # "set" => call[a].saw \in Open /\ call[a].set # "spam"
  BY <1>1 DEF CallInOrder, AutoStatus, MailStatus, Open
<1> QED
  BY <1>2, <1>3, <1>4 DEF Write, Keep

LEMMA WriteKeeps ==
  ASSUME DeskInv, NEW a \in AdminCalls, Write(a)
  PROVE  DeskInv'
<1> DEFINE pc == IF call[a].on \in Stored THEN "done" ELSE "failed"
           t == [NoCall EXCEPT !.pc = pc, !.on = call[a].on]
<1>1. /\ call[a].pc \in {"set", "auto", "mailed"} /\ post' = post /\ aged' = aged
      /\ notice' = notice /\ invited' = invited
  BY DEF Write
<1>2. call[a] \in CallRecord /\ call' = [call EXCEPT ![a] = t]
  BY DEF Write, Over, DeskInv, DeskTyped
<1>3. /\ row \in [Submissions -> Statuses \union {NoRow}] /\ marked \subseteq invited /\ CallInOrder(call[a])
  BY DEF DeskInv, RequestsKept, DeskTypeOK, CallsInOrder
<1>4. t \in CallRecord /\ t.pc = pc /\ t.on = call[a].on
  BY <1>2 DEF CallRecord, NoCall
<1>5. call[a].on \in Submissions /\ notice[call[a].on] # "none"
  BY <1>1, <1>3 DEF CallInOrder
<1> HIDE DEF t
<1>6. CASE call[a].on \in Stored
  <2>1. /\ marked' = Mark(a)
        /\ vetted' = IF call[a].pc = "set" /\ call[a].set # NoRow THEN vetted \union {call[a].on} ELSE vetted
    BY <1>6 DEF Write
  <2>2. /\ marked \subseteq marked' /\ marked' \subseteq invited
        /\ vetted \subseteq vetted' /\ vetted' \subseteq vetted \union {call[a].on}
        /\ call[a].pc = "mailed" => call[a].on \in marked'
    BY <1>3, <2>1 DEF Mark, CallInOrder
  <2>3. /\ row' \in [Submissions -> Statuses \union {NoRow}]
        /\ \A s \in Submissions \ {call[a].on} : row'[s] = row[s]
        /\ row[call[a].on] # NoRow /\ row'[call[a].on] = Keep(a) /\ Keep(a) # NoRow
    BY <1>3, <1>6, WriteIsDecided DEF Stored, Statuses, Open, NoRow
  <2>4. /\ Keep(a) # row[call[a].on] /\ Keep(a) = "spam" => call[a].on \in vetted'
        /\ Keep(a) # row[call[a].on] /\ Keep(a) # "spam" /\ post[call[a].on].text \in LinkStuffed => call[a].on \in vetted'
    BY <1>1, <1>3, <1>6, <2>1, WriteIsDecided DEF Keep, CallInOrder
  <2>5. \A s \in Submissions :
          \/ row'[s] = row[s]
          \/ /\ row[s] # NoRow /\ row'[s] # NoRow
             /\ row'[s] = "spam" => s \in vetted'
             /\ row'[s] # "spam" /\ post[s].text \in LinkStuffed => s \in vetted'
    BY <2>3, <2>4
  <2>6. t.pc = "done"
    BY <1>4, <1>6
  <2> QED
    BY <1>1, <1>2, <1>4, <1>5, <2>2, <2>3, <2>5, <2>6, CallKeeps
<1>7. CASE call[a].on \notin Stored
  <2>1. row' = row /\ marked' = marked /\ vetted' = vetted /\ row[call[a].on] = NoRow
    BY <1>5, <1>7 DEF Write, Stored
  <2> QED
    BY <1>1, <1>2, <1>3, <1>4, <1>5, <1>7, <2>1, CallKeeps
<1> QED
  BY <1>6, <1>7

LEMMA DeleteKeeps ==
  ASSUME DeskInv, NEW a \in AdminCalls, NEW s \in Submissions, Delete(a, s)
  PROVE  DeskInv'
<1> DEFINE t == [NoCall EXCEPT !.pc = "done", !.on = s]
<1>1. /\ call[a].pc = "idle" /\ post' = post /\ aged' = aged /\ notice' = notice
      /\ invited' = invited /\ marked' = marked /\ vetted' = vetted /\ call' = [call EXCEPT ![a] = t]
  BY DEF Delete
<1>2. /\ row' \in [Submissions -> Statuses \union {NoRow}] /\ row'[s] = NoRow
      /\ \A u \in Submissions \ {s} : row'[u] = row[u]
      /\ marked \subseteq invited /\ notice[s] # "none"
  BY DEF Delete, Stored, DeskInv, RequestsKept, DeskTypeOK
<1>3. t \in CallRecord /\ t.pc = "done" /\ t.on = s
  BY DEF CallRecord, NoCall
<1> HIDE DEF t
<1> QED
  BY <1>1, <1>2, <1>3, CallKeeps

LEMMA DeskStep == DeskInv /\ [DeskNext]_deskVars => DeskInv'
<1> SUFFICES ASSUME DeskInv, [DeskNext]_deskVars PROVE DeskInv'
  OBVIOUS
<1>1. CASE UNCHANGED deskVars
  BY <1>1 DEF deskVars, DeskInv, RequestsKept, DeskTypeOK, ResubmittedOnce, NoticeFindsItsRow, SpamIsSilent,
              InvitationRecorded, DeskTyped, PostsInOrder, StatusesInOrder, CallsInOrder, CallInOrder, Stored
<1> QED
  BY <1>1, PostKeeps, StoreKeeps, AgeAndNotifyKeep, ReadKeeps, MailSentKeeps, CallFailsKeeps, WriteKeeps, DeleteKeeps
     DEF DeskNext

LEMMA DecisionStep ==
  ASSUME DeskInv, [DeskNext]_deskVars
  PROVE  [\A s \in Submissions, a \in AdminCalls :
            /\ row[s] \in Statuses \ Open /\ row'[s] \notin {row[s], NoRow}
            /\ call[a].on = s /\ call[a].pc # call'[a].pc
            => call[a].pc = "set" \/ call[a].saw \in Open]_<<row, call>>
<1> SUFFICES ASSUME NEW s \in Submissions, NEW a \in AdminCalls,
                    row[s] \in Statuses \ Open, row'[s] \notin {row[s], NoRow},
                    call[a].on = s, call[a].pc # call'[a].pc
             PROVE  call[a].pc = "set" \/ call[a].saw \in Open
  OBVIOUS
<1>1. row[s] # NoRow /\ row' # row
  BY DEF Statuses, Open, NoRow
<1>2. \A t \in Submissions : ~ Store(t)
  BY <1>1 DEF Store
<1>3. \A b \in AdminCalls, t \in Submissions : ~ Delete(b, t)
  BY <1>1 DEF Delete, DeskInv, RequestsKept, DeskTypeOK
<1>4. PICK b \in AdminCalls : Write(b)
  BY <1>1, <1>2, <1>3 DEF DeskNext, deskVars, Submit, Look, StoreFails, Age, NotifyAdmins, ReadForUpdate, ReadForMail,
                         Read, MailSent, MailFails, WriteFails, Delete
<1>5. a = b
  BY <1>4 DEF Write, Over, DeskInv, DeskTyped
<1>6. call[b].on \in Stored /\ Keep(b) # row[s]
  BY <1>1, <1>4, <1>5 DEF Write, DeskInv, RequestsKept, DeskTypeOK
<1> QED
  BY <1>4, <1>5, <1>6, WriteIsDecided DEF Keep

\* Of equal requests one is stored; notices, statuses and invitations fit each
\* other, and nobody's decision is undone by a call that did not overlap it.
THEOREM DeskIsKept == DeskSpec => DeskKept
<1>1. DeskInv => RequestsKept
  BY DEF DeskInv
<1>2. DeskInv /\ [DeskNext]_deskVars =>
        [\A s \in Submissions, a \in AdminCalls :
            /\ row[s] \in Statuses \ Open /\ row'[s] \notin {row[s], NoRow}
            /\ call[a].on = s /\ call[a].pc # call'[a].pc
            => call[a].pc = "set" \/ call[a].saw \in Open]_<<row, call>>
  BY DecisionStep
<1> QED
  BY DeskStart, DeskStep, <1>1, <1>2, PTL DEF DeskSpec, DeskKept, DecisionKept

=============================================================================

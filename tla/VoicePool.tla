----------------------------- MODULE VoicePool -----------------------------
(***************************************************************************)
(* What services/access.py promises of live voice calls, without Redis: a  *)
(* pool of Cap slots and a waiting room.  A tenant takes a slot from the   *)
(* waiting room while one is free; an allowlisted one takes it regardless. *)
(***************************************************************************)
EXTENDS Integers, FiniteSets

CONSTANTS Tenants, Priority, Cap

VARIABLES holders, waiting

poolVars == <<holders, waiting>>

Init == holders = {} /\ waiting = {}

Join(k) ==
  /\ waiting' = waiting \union {k}
  /\ UNCHANGED holders

Admit(k) ==
  /\ k \in waiting
  /\ Cardinality(holders) < Cap
  /\ holders' = holders \union {k}
  /\ waiting' = waiting \ {k}

AdmitPriority(k) ==
  /\ k \in Priority
  /\ holders' = holders \union {k}
  /\ UNCHANGED waiting

\* Released, or lapsed: one purge removes every expired lease at once.
Vacate(K) ==
  /\ holders' = holders \ K
  /\ UNCHANGED waiting

LeaveQueue(k) ==
  /\ waiting' = waiting \ {k}
  /\ UNCHANGED holders

Next ==
  \/ \E k \in Tenants : Join(k) \/ Admit(k) \/ AdmitPriority(k) \/ LeaveQueue(k)
  \/ \E K \in SUBSET Tenants : Vacate(K)

Spec == Init /\ [][Next]_poolVars

============================================================================

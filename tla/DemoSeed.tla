------------------------------ MODULE DemoSeed ------------------------------
(***************************************************************************)
(* scripts/seed_demo.py: the demo workspace, its agent, its knowledge, its *)
(* login and some sample records, each looked up and then added, all in    *)
(* the one session of a run.  Runs may overlap.                            *)
(***************************************************************************)
EXTENDS Naturals, FiniteSets

CONSTANTS
  Seeders  \* runs of the script

ASSUME SeedersAssumption == IsFiniteSet(Seeders) /\ Seeders # {}

VARIABLES
  db,       \* how many committed rows of each kind the demo workspace has
  seeding,  \* each run: the part it is at, whether it found it missing, and
            \* the parts it has added and not committed
  bare      \* history: how the workspace came to be there without knowledge

seedVars == <<db, seeding, bare>>

Order == [tenant |-> "agent", agent |-> "docs", docs |-> "user", user |-> "sample", sample |-> "commit"]
Parts == DOMAIN Order
Unique == {"tenant", "user"}   \* by its slug, by its e-mail

\* A new database, or one where somebody signed up under the name "demo".
SeedInit ==
  /\ bare \in {"never", "signed up"}
  /\ db = [p \in Parts |-> IF bare = "signed up" /\ p \in {"tenant", "agent"} THEN 1 ELSE 0]
  /\ seeding = [r \in Seeders |-> [at |-> "idle", missing |-> FALSE, new |-> {}]]

Over(r) == seeding[r].at \in {"ok", "failed"}
UnderWay(r) == seeding[r].at # "idle" /\ ~Over(r)

Move(r, at, missing, new) == seeding' = [seeding EXCEPT ![r] = [at |-> at, missing |-> missing, new |-> new]]

Open(r) ==
  /\ seeding[r].at = "idle"
  /\ Move(r, "tenant", FALSE, {})
  /\ UNCHANGED <<db, bare>>

\* What is committed by now, or the run's own
Count(r, p) == db[p] + (IF p \in seeding[r].new THEN 1 ELSE 0)

\* One agent or none, or scalar_one_or_none raises
LookUp(r, p) ==
  /\ seeding[r].at = p /\ p \in Parts /\ ~seeding[r].missing
  /\ p = "agent" => Count(r, p) < 2
  /\ IF Count(r, p) = 0 THEN Move(r, p, TRUE, seeding[r].new)
                        ELSE Move(r, Order[p], FALSE, seeding[r].new)
  /\ UNCHANGED <<db, bare>>

\* A unique index lets the second of two wait for the first, and refuses it
\* once that one is committed.
MayInsert_NoIndex(r, p) == TRUE
MayInsert(r, p) ==
  p \in Unique => db[p] = 0 /\ \A o \in Seeders \ {r} : p \notin seeding[o].new

Insert(r, p) ==
  /\ seeding[r].at = p /\ p \in Parts /\ seeding[r].missing
  /\ MayInsert(r, p)
  /\ Move(r, Order[p], FALSE, seeding[r].new \union {p})
  /\ UNCHANGED <<db, bare>>

Commit(r) ==
  /\ seeding[r].at = "commit"
  /\ db' = [p \in Parts |-> Count(r, p)]
  /\ Move(r, "ok", FALSE, {})
  /\ UNCHANGED bare

\* A row that is not unique after all, an embedding model that is not there,
\* whatever raises: the session is rolled back.
Raise(r) ==
  /\ UnderWay(r)
  /\ Move(r, "failed", FALSE, {})
  /\ UNCHANGED <<db, bare>>

Refused(r) == seeding[r].at \in Unique /\ seeding[r].missing /\ db[seeding[r].at] > 0

\* DELETE of the knowledge API, by the owner of the workspace
EmptyKnowledge ==
  /\ db["docs"] > 0 /\ bare # "emptied"
  /\ db' = [db EXCEPT !["docs"] = 0] /\ bare' = "emptied"
  /\ UNCHANGED seeding

Advance(r) ==
  \/ \E p \in Parts : LookUp(r, p) \/ Insert(r, p)
  \/ Commit(r)
  \/ Refused(r) /\ Raise(r)

SeedNext == EmptyKnowledge \/ \E r \in Seeders : Open(r) \/ Advance(r) \/ Raise(r)

SeedFairness == \A r \in Seeders : WF_seedVars(Advance(r))
SeedSpec == SeedInit /\ [][SeedNext]_seedVars /\ SeedFairness

----------------------------------------------------------------------------
(* Properties                                                              *)

SeedTypeOK ==
  /\ db \in [Parts -> 0..Cardinality(Seeders)] /\ bare \in {"never", "signed up", "emptied"}
  /\ \A r \in Seeders :
       /\ seeding[r].at \in Parts \union {"idle", "commit", "ok", "failed"}
       /\ seeding[r].missing \in BOOLEAN /\ seeding[r].new \subseteq Parts

\* "Safe to run repeatedly (won't duplicate the tenant/agent or re-ingest
\* knowledge)": runs that overlap leave one of everything, as long as they meet at
\* the unique slug.  Where the workspace was there already they may meet at the
\* login only, or not at all, and both add the knowledge that both found missing.
SeededOnce == \A p \in Parts : db[p] > 1 => p = "docs" /\ bare # "never"

\* A run that ends well leaves a workspace that has every part.
SeededWhole ==
  \A r \in Seeders :
    seeding'[r].at = "ok" /\ seeding[r].at # "ok"
      => \A p \in Parts : db'[p] > 0 \/ (p = "docs" /\ bare = "emptied")

\* Runs that wait for each other's rows come to an end.
EverySeedEnds == \A r \in Seeders : UnderWay(r) ~> Over(r)

\* Seeding adds what is missing, once, or nothing at all.
SeedingKept == [](SeedTypeOK /\ SeededOnce) /\ [][SeededWhole]_seedVars /\ EverySeedEnds

============================================================================

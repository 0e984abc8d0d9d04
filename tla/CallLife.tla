------------------------------ MODULE CallLife ------------------------------
(***************************************************************************)
(* The life of one phone or browser call in the agent worker               *)
(* (agent/worker.py, agent/frontdesk.py, services/calls.py).  Each tool of *)
(* the agent has a session of its own; the call's row is written when the  *)
(* job starts and again by its shutdown callback, which then waits for the *)
(* deliveries that are under way.                                          *)
(***************************************************************************)
EXTENDS FiniteSets

CONSTANTS
  Tools,   \* the bookings and messages that the agent is asked to record
  Lookups  \* the searches for knowledge and slots

VARIABLES
  job,       \* where the job is
  tenant,    \* the business it answers for
  callId,    \* whether the job has an id for its call
  callRow,   \* the committed row
  tool,      \* each tool call: where it is, what the agent was told
  rows,      \* committed bookings and leads
  tasks,     \* deliveries under way in the process
  awaited,   \* those drain waits for
  announced, \* delivered
  fault      \* history: steps that the database or the process failed

callVars == <<job, tenant, callId, callRow, tool, rows, tasks, awaited, announced, fault>>

CallInit ==
  /\ job = "idle" /\ tenant = "none" /\ callId = FALSE /\ callRow = "none"
  /\ tool = [t \in Tools \union Lookups |-> "idle"]
  /\ rows = {} /\ tasks = {} /\ awaited = {} /\ announced = {} /\ fault = {}

Alive == job \in {"resolved", "built", "recorded", "live", "closing", "finalized", "draining"}

----------------------------------------------------------------------------
(* entrypoint                                                              *)

\* get_context: the tenant of the participant's metadata, the demo tenant when
\* there is none or it is gone, nobody when that is not there either.
Businesses == {"own", "demo", "none"}

\* _resolve_config: nobody also when the database fails.
Resolve ==
  /\ job = "idle"
  /\ job' = "resolved"
  /\ tenant' \in Businesses
  /\ UNCHANGED <<callId, callRow, tool, rows, tasks, awaited, announced, fault>>

\* Speech and language plugins; a provider that is not wired raises.
Build ==
  /\ job = "resolved"
  /\ job' \in {"built", "over"}
  /\ UNCHANGED <<tenant, callId, callRow, tool, rows, tasks, awaited, announced, fault>>

\* start_call, best-effort: the id is taken before the commit, which may fail.
Record ==
  /\ job = "built"
  /\ job' = "recorded"
  /\ \/ tenant # "none" /\ callId' = TRUE /\ callRow' = "active" /\ fault' = fault
     \/ tenant # "none" /\ callId' = TRUE /\ callRow' = "none" /\ fault' = fault \union {"start commit"}
     \/ callId' = FALSE /\ callRow' = "none" /\ fault' = fault \union {"start"}
  /\ UNCHANGED <<tenant, tool, rows, tasks, awaited, announced>>

\* The shutdown callback is there before the session starts, or fails to.
AfterFailedStart_Lost == "over"
AfterFailedStart == "closing"

StartSession ==
  /\ job = "recorded"
  /\ job' \in {"live", AfterFailedStart}
  /\ UNCHANGED <<tenant, callId, callRow, tool, rows, tasks, awaited, announced, fault>>

CallEnds ==
  /\ job = "live"
  /\ job' = "closing"
  /\ UNCHANGED <<tenant, callId, callRow, tool, rows, tasks, awaited, announced, fault>>

----------------------------------------------------------------------------
(* FrontDeskAgent                                                          *)

\* Without a tenant nothing is looked up or recorded.  Look-ups and bookings say
\* that there is nothing; a message is answered "Noted." all the same.
UseTool(t) ==
  /\ job = "live" /\ tool[t] = "idle"
  /\ tool' = [tool EXCEPT ![t] = IF tenant = "none" THEN "nothing" ELSE "running"]
  /\ UNCHANGED <<job, tenant, callId, callRow, rows, tasks, awaited, announced, fault>>

Looked(t) ==
  /\ Alive /\ t \in Lookups /\ tool[t] = "running"
  /\ \E told \in {"found", "nothing", "apology"} : tool' = [tool EXCEPT ![t] = told]
  /\ UNCHANGED <<job, tenant, callId, callRow, rows, tasks, awaited, announced, fault>>

HasCallRow == callId => callRow # "none"   \* the foreign key of booking and lead

Stores(t) ==
  /\ Alive /\ t \in Tools /\ tool[t] = "running" /\ HasCallRow
  /\ tool' = [tool EXCEPT ![t] = "stored"]
  /\ rows' = rows \union {t} /\ tasks' = tasks \union {t}
  /\ UNCHANGED <<job, tenant, callId, callRow, awaited, announced, fault>>

\* BOOKED or CAPTURED, after the session's commit
Confirm(t) ==
  /\ Alive /\ t \in Tools /\ tool[t] = "stored"
  /\ tool' = [tool EXCEPT ![t] = "confirmed"]
  /\ UNCHANGED <<job, tenant, callId, callRow, rows, tasks, awaited, announced, fault>>

\* A slot that is taken, a bad argument, a failing statement: "That time may
\* not be available", or "Noted; a team member will follow up".
Refuse(t) ==
  /\ Alive /\ t \in Tools /\ tool[t] = "running"
  /\ \E why \in IF HasCallRow THEN {"unavailable", "database"} ELSE {"no call row"} :
       fault' = fault \union {why}
  /\ tool' = [tool EXCEPT ![t] = "apology"]
  /\ UNCHANGED <<job, tenant, callId, callRow, rows, tasks, awaited, announced>>

----------------------------------------------------------------------------
(* _on_shutdown: finalize_call, and drain(8.0)                             *)

FinalizeFailed == fault' = fault \union {"finalize"} /\ UNCHANGED <<callRow, tasks>>

Finalize ==
  /\ job = "closing"
  /\ job' = "finalized"
  /\ \/ callId /\ callRow = "active" /\ callRow' = "completed"
        /\ tasks' = tasks \union {"call"} /\ UNCHANGED fault
     \/ callId /\ callRow = "active" /\ FinalizeFailed
     \/ (callId => callRow = "none") /\ UNCHANGED <<callRow, tasks, fault>>
  /\ UNCHANGED <<tenant, callId, tool, rows, awaited, announced>>

\* The deliveries that are there by now
Drain ==
  /\ job = "finalized"
  /\ job' = "draining" /\ awaited' = tasks
  /\ UNCHANGED <<tenant, callId, callRow, tool, rows, tasks, announced, fault>>

Deliver(e) ==
  /\ Alive /\ e \in tasks
  /\ tasks' = tasks \ {e} /\ announced' = announced \union {e}
  /\ UNCHANGED <<job, tenant, callId, callRow, tool, rows, awaited, fault>>

\* All of them are done, or eight seconds are over; the process ends, and takes
\* with it what is not.
Exit(late) ==
  /\ job = "draining"
  /\ late \/ tasks \cap awaited = {}
  /\ job' = "over" /\ tasks' = {}
  /\ fault' = IF late THEN fault \union {"late"} ELSE fault
  /\ UNCHANGED <<tenant, callId, callRow, tool, rows, awaited, announced>>

Crash ==
  /\ Alive
  /\ job' = "over" /\ tasks' = {} /\ fault' = fault \union {"crash"}
  /\ UNCHANGED <<tenant, callId, callRow, tool, rows, awaited, announced>>

Entrypoint == Resolve \/ Build \/ Record \/ StartSession
Shutdown == CallEnds \/ Finalize \/ Drain \/ Exit(FALSE)

CallNext ==
  \/ Entrypoint \/ Shutdown \/ Exit(TRUE) \/ Crash
  \/ \E t \in Tools \union Lookups : UseTool(t) \/ Looked(t) \/ Stores(t) \/ Confirm(t) \/ Refuse(t)
  \/ \E e \in Tools \union {"call"} : Deliver(e)

\* A job that was started goes on, a call ends in the end, and a delivery too,
\* after its retries.
CallFairness ==
  /\ WF_callVars(job # "idle" /\ Entrypoint) /\ WF_callVars(Shutdown)
  /\ \A e \in Tools \union {"call"} : WF_callVars(Deliver(e))

CallSpec == CallInit /\ [][CallNext]_callVars /\ CallFairness

----------------------------------------------------------------------------
(* Properties                                                              *)

\* Types, and: what was announced is committed, and a job without a tenant
\* writes nothing.
CallTypeOK ==
  /\ job \in {"idle", "resolved", "built", "recorded", "live", "closing", "finalized", "draining", "over"}
  /\ tenant \in Businesses /\ callId \in BOOLEAN
  /\ callRow \in {"none", "active", "completed"}
  /\ \A t \in Tools \union Lookups :
       tool[t] \in {"idle", "running", "stored", "confirmed", "found", "nothing", "apology"}
  /\ tasks \union announced \subseteq rows \union {"call"} /\ rows \subseteq Tools
  /\ tenant = "none" => rows = {} /\ callRow = "none"

\* The agent reads a confirmation back to the caller for what is committed only.
ToldIsStored == \A t \in Tools : tool[t] = "confirmed" => t \in rows

\* Whatever ends the call, its row does not stay active, unless the process
\* died or the last commit failed.
EveryCallEnds == callRow = "active" ~> callRow = "completed" \/ fault \cap {"crash", "finalize"} # {}

\* "let them finish before the job process exits": what is committed before the
\* process looks is announced, unless it takes too long or the process dies.
CommittedIsAnnounced ==
  \A e \in Tools \union {"call"} :
    e \in tasks /\ job # "draining" ~> e \in announced \/ fault \cap {"crash", "late"} # {}

\* "Persist a call record (best-effort) so the dashboard shows it": a call whose
\* record could not be written records what its caller asks for all the same.
RecordIsBestEffort == "no call row" \notin fault

\* What the agent tells its caller is stored, and what is stored is told to
\* others, by the end of the call.
CallsKept == [](CallTypeOK /\ ToldIsStored) /\ EveryCallEnds /\ CommittedIsAnnounced

============================================================================

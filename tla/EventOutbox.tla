---------------------------- MODULE EventOutbox ----------------------------
(***************************************************************************)
(* How rows become events: a service flushes a row and queues its event on *)
(* the database session, and SQLAlchemy's after_commit hook hands what is  *)
(* queued to background tasks (services/webhooks.py, db/session.py).       *)
(*                                                                         *)
(* A chat session swallows what its tool calls raise (services/chat.py)    *)
(* and commits in the end; any other session is rolled back by an error.   *)
(***************************************************************************)
EXTENDS Integers

CONSTANTS
  Sessions,   \* database sessions that can be open at the same time
  Chats,      \* those of them that run chat turns
  MaxRows     \* bound on the rows that are written through each

ASSUME ChatsAssumption == Chats \subseteq Sessions
ASSUME BoundAssumption == MaxRows \in Nat

\* Leads, bookings, calls and documents, each with its event.
Rows == Sessions \X (1 .. MaxRows)

VARIABLES
  stored,    \* rows the database has committed
  handed,    \* events handed to emit()
  lost,      \* rows whose session ended between its commit and the hook
  tasks,     \* the deliveries of _TASKS, by their event
  serving,   \* FALSE from the end of lifespan to the next start
  session    \* the open sessions

vars == <<stored, handed, lost, tasks, serving, session>>

\* tx is the state of the transaction: "live"; "aborted", in which Postgres
\* accepts nothing more and turns COMMIT into ROLLBACK; "inactive", after a
\* failed flush, in which SQLAlchemy itself refuses to commit.
Closed == [pc |-> "closed", tx |-> "live", mine |-> {}, pending |-> {}]

Init ==
  /\ stored = {} /\ handed = {} /\ lost = {} /\ tasks = {}
  /\ serving = TRUE
  /\ session = [s \in Sessions |-> Closed]

Close(s) == session' = [session EXCEPT ![s] = Closed]
Quiet == UNCHANGED <<stored, handed, lost, tasks, serving>>
Unannounced(s) == IF session[s].pc = "committed" THEN session[s].mine ELSE {}

Begin(s) ==
  /\ serving /\ session[s].pc = "closed"
  /\ session' = [session EXCEPT ![s].pc = "open"]
  /\ Quiet

HandedOnWrite_Early(r) == handed \union {r}
HandedOnWrite(r) == handed

\* The services' flush and emit_on_commit, with nothing in between.
Write(s, n) == LET r == <<s, n>> IN
  /\ session[s].pc = "open" /\ session[s].tx = "live"
  /\ r \notin stored \union session[s].mine
  /\ session' = [session EXCEPT ![s].mine = @ \union {r}, ![s].pending = @ \union {r}]
  /\ handed' = HandedOnWrite(r)
  /\ UNCHANGED <<stored, lost, tasks, serving>>

\* An error that is raised inside a session.  A chat goes on in what is left.
Fails(s, left) ==
  /\ session[s].pc = "open" /\ session[s].tx # "inactive"
  /\ session' = [session EXCEPT ![s] = IF s \in Chats THEN left ELSE Closed]
  /\ Quiet

\* A failed flush rolls back, and _drop_pending empties the queue.
FlushFails_Unnoticed(s) == Fails(s, [session[s] EXCEPT !.mine = {}])
FlushFails(s) == Fails(s, [session[s] EXCEPT !.tx = "inactive", !.mine = {}, !.pending = {}])

\* A failed query leaves the queue: only Postgres knows of the abort.
QueryFails(s) == Fails(s, [session[s] EXCEPT !.tx = "aborted", !.mine = {}])

\* COMMIT, and its answer, which is not an error in an aborted transaction.
Commit(s) ==
  /\ session[s].pc = "open" /\ session[s].tx # "inactive"
  /\ stored' = stored \union session[s].mine
  /\ session' = [session EXCEPT ![s].pc = "committed"]
  /\ UNCHANGED <<handed, lost, tasks, serving>>

CommitRefused(s) ==
  /\ session[s].pc = "open" /\ session[s].tx = "inactive"
  /\ Close(s) /\ Quiet

\* _emit_pending and emit: a task for each queued event.
Emitted_First(s) == IF session[s].pending = {} THEN {} ELSE {CHOOSE r \in session[s].pending : TRUE}
Emitted(s) == session[s].pending

AfterCommit(s) ==
  /\ session[s].pc = "committed"
  /\ handed' = handed \union Emitted(s)
  /\ tasks' = tasks \union Emitted(s)
  /\ Close(s)
  /\ UNCHANGED <<stored, lost, serving>>

\* The request fails in its own code.
Rollback(s) == session[s].pc = "open" /\ Close(s) /\ Quiet

\* The answer to COMMIT is lost, or the request is cancelled while it waits.
Break(s) ==
  /\ session[s].pc # "closed"
  /\ lost' = lost \union Unannounced(s)
  /\ Close(s)
  /\ UNCHANGED <<stored, handed, tasks, serving>>

Finish(r) ==
  /\ r \in tasks
  /\ tasks' = tasks \ {r}
  /\ UNCHANGED <<stored, handed, lost, serving, session>>

\* The server stops when its requests are done; lifespan then drains the tasks.
Shutdown ==
  /\ serving
  /\ \A s \in Sessions : session[s].pc = "closed"
  /\ serving' = FALSE
  /\ UNCHANGED <<stored, handed, lost, tasks, session>>

\* drain() is over, with every task done or after its time.
Restart ==
  /\ ~serving
  /\ tasks' = {}
  /\ serving' = TRUE
  /\ UNCHANGED <<stored, handed, lost, session>>

Crash ==
  /\ lost' = lost \union UNION {Unannounced(s) : s \in Sessions}
  /\ session' = [s \in Sessions |-> Closed]
  /\ tasks' = {}
  /\ serving' = FALSE
  /\ UNCHANGED <<stored, handed>>

Next ==
  \/ \E s \in Sessions :
       \/ Begin(s) \/ \E n \in 1 .. MaxRows : Write(s, n)
       \/ FlushFails(s) \/ QueryFails(s)
       \/ Commit(s) \/ CommitRefused(s) \/ AfterCommit(s) \/ Rollback(s) \/ Break(s)
  \/ \E r \in Rows : Finish(r)
  \/ Shutdown \/ Restart \/ Crash

\* The event loop runs a hook whose commit has returned.
Spec == Init /\ [][Next]_vars /\ \A s \in Sessions : WF_vars(AfterCommit(s))

----------------------------------------------------------------------------
(* Properties                                                              *)

\* What a session has queued it has written, unless Postgres threw it away.
TypeOK ==
  /\ stored \subseteq Rows /\ handed \subseteq Rows /\ lost \subseteq stored
  /\ tasks \subseteq handed
  /\ serving \in BOOLEAN
  /\ session \in [Sessions -> [pc : {"closed", "open", "committed"},
                               tx : {"live", "aborted", "inactive"},
                               mine : SUBSET Rows, pending : SUBSET Rows]]
  /\ \A s \in Sessions : session[s].tx = "live" => session[s].pending = session[s].mine

\* docs/17: "Only committed data is announced": no receiver hears of a row
\* that is not in the database, even if connections break, flushes fail and
\* processes die between any two steps.  Chats are left out: one whose
\* transaction Postgres has aborted unnoticed announces what it has lost.
OnlyCommittedAnnounced == \A r \in handed \ stored : r[1] \in Chats

\* Nothing that is committed is forgotten, whatever other sessions go through,
\* unless its own session ends between the commit and the hook.
EveryCommitAnnounced == \A r \in Rows : r \in stored ~> r \in handed \union lost

============================================================================

------------------------- MODULE KnowledgeIngestion -------------------------
(***************************************************************************)
(* The life of knowledge documents (services/knowledge.py and the routes   *)
(* that call it).  A request commits the document and leaves a background  *)
(* job behind; the job indexes it in one transaction, which keeps the row  *)
(* locked from its first flush on.  Jobs die with their process, and each  *)
(* start of a process looks for documents that were left behind.           *)
(***************************************************************************)
EXTENDS Integers

CONSTANTS
  Docs,       \* knowledge_doc ids
  Servers,    \* API processes
  Mortal,     \* those of them that may die
  Unlucky     \* documents whose indexing may meet a failing statement

ASSUME FaultsAssumption == Mortal \subseteq Servers /\ Unlucky \subseteq Docs

VARIABLES
  doc,        \* committed rows and their chunks
  old,        \* documents created more than INGEST_TIMEOUT_SECONDS ago
  job,        \* the background job of each document
  reindexing, \* documents whose passages a request is embedding again
  announced,  \* documents for which knowledge.ready went out
  server      \* each process

docVars == <<doc, old, job, reindexing, announced, server>>

\* "processing" is written but never committed, so nobody gets to see it.
None == [status |-> "none", chunks |-> "none"]
NoJob == [pc |-> "none", on |-> {}]

DocsInit ==
  /\ doc = [d \in Docs |-> None]
  /\ old = {} /\ reindexing = {} /\ announced = {}
  /\ job = [d \in Docs |-> NoJob]
  /\ server = [p \in Servers |-> "up"]

Exists(d) == doc[d].status # "none"
Locked(d) == job[d].pc = "running"

Settle(d, status, chunks) == doc' = [doc EXCEPT ![d] = [status |-> status, chunks |-> chunks]]
JobEnds(d) == job' = [job EXCEPT ![d] = NoJob]

----------------------------------------------------------------------------
(* add_text, add_url, add_file and ingest_job                              *)

\* A new id each time: nothing is left of a document that had it before.
Add(p, d) ==
  /\ server[p] = "up"
  /\ ~Exists(d) /\ job[d].pc = "none" /\ d \notin reindexing
  /\ Settle(d, "pending", "none")
  /\ job' = [job EXCEPT ![d] = [pc |-> "scheduled", on |-> {p}]]
  /\ old' = old \ {d}
  /\ announced' = announced \ {d}
  /\ UNCHANGED <<reindexing, server>>

\* The document may be deleted by now; else the first flush locks its row.
StartJob(d) ==
  /\ job[d].pc = "scheduled"
  /\ IF Exists(d) THEN job' = [job EXCEPT ![d].pc = "running"] ELSE JobEnds(d)
  /\ UNCHANGED <<doc, old, reindexing, announced, server>>

Announce_Always(d, status) == announced \union {d}
Announce(d, status) == IF status = "ready" THEN announced \union {d} ELSE announced

\* It is indexed, or the source or the embedder failed.  An embedder that returns
\* too few vectors leaves some passages, one that returns too many all of them:
\* they are committed with the failure.
FinishJob(d, status, chunks) ==
  /\ job[d].pc = "running"
  /\ <<status, chunks>> \in ({"failed"} \X {"none", "some", "all"}) \union {<<"ready", "all">>}
  /\ Settle(d, status, chunks)
  /\ announced' = Announce(d, status)
  /\ JobEnds(d)
  /\ UNCHANGED <<old, reindexing, server>>

\* A statement fails: so does the flush that would say so, and the commit.
JobBreaks(d) ==
  /\ d \in Unlucky
  /\ job[d].pc = "running"
  /\ JobEnds(d)
  /\ UNCHANGED <<doc, old, reindexing, announced, server>>

\* The timeout rolls back, and another transaction marks the document.
TimeOut(d) ==
  /\ job[d].pc = "running"
  /\ d \in old
  /\ job' = [job EXCEPT ![d].pc = "marking"]
  /\ UNCHANGED <<doc, old, reindexing, announced, server>>

Mark_Uncommitted(d) == doc' = doc
Mark(d) == doc' = [doc EXCEPT ![d].status = IF @ = "none" THEN @ ELSE "failed"]

MarkFailed(d) ==
  /\ job[d].pc = "marking"
  /\ Mark(d)
  /\ JobEnds(d)
  /\ UNCHANGED <<old, reindexing, announced, server>>

----------------------------------------------------------------------------
(* reindex and delete_doc                                                  *)

Reindex(d) ==
  /\ doc[d].chunks # "none"
  /\ reindexing' = reindexing \union {d}
  /\ UNCHANGED <<doc, old, job, announced, server>>

\* The embedder fails, or the passages are gone by the time they are written.
ReindexFails(d) ==
  /\ d \in reindexing
  /\ reindexing' = reindexing \ {d}
  /\ UNCHANGED <<doc, old, job, announced, server>>

Reindexed(d) ==
  /\ d \in reindexing
  /\ Exists(d) /\ ~Locked(d)
  /\ reindexing' = reindexing \ {d}
  /\ Settle(d, "ready", doc[d].chunks)
  /\ UNCHANGED <<old, job, announced, server>>

Delete(d) ==
  /\ Exists(d) /\ ~Locked(d)
  /\ doc' = [doc EXCEPT ![d] = None]
  /\ UNCHANGED <<old, job, reindexing, announced, server>>

----------------------------------------------------------------------------
(* Processes                                                               *)

Grow(d) ==
  /\ Exists(d) /\ d \notin old
  /\ old' = old \union {d}
  /\ UNCHANGED <<doc, job, reindexing, announced, server>>

ServerDies(p) ==
  /\ p \in Mortal
  /\ server[p] # "down"
  /\ server' = [server EXCEPT ![p] = "down"]
  /\ job' = [d \in Docs |-> IF job[d].on = {p} THEN NoJob ELSE job[d]]
  /\ UNCHANGED <<doc, old, reindexing, announced>>

Start(p) ==
  /\ server[p] = "down"
  /\ server' = [server EXCEPT ![p] = "starting"]
  /\ UNCHANGED <<doc, old, job, reindexing, announced>>

LeftBehind == {d \in old : doc[d].status = "pending"}

\* recover_stale_ingestions: the UPDATE waits for locked rows, and looks again.
Recover(p) ==
  /\ server[p] = "starting"
  /\ \A d \in LeftBehind : ~Locked(d)
  /\ doc' = [d \in Docs |-> IF d \in LeftBehind THEN [doc[d] EXCEPT !.status = "failed"] ELSE doc[d]]
  /\ server' = [server EXCEPT ![p] = "up"]
  /\ UNCHANGED <<old, job, reindexing, announced>>

Work(d) ==
  \/ StartJob(d) \/ TimeOut(d) \/ MarkFailed(d) \/ JobBreaks(d)
  \/ \E s \in {"ready", "failed"}, c \in {"all", "some", "none"} : FinishJob(d, s, c)

DocsNext ==
  \/ \E d \in Docs :
       \/ \E p \in Servers : Add(p, d)
       \/ Work(d) \/ Reindex(d) \/ ReindexFails(d) \/ Reindexed(d) \/ Delete(d) \/ Grow(d)
  \/ \E p \in Servers : ServerDies(p) \/ Start(p) \/ Recover(p)

\* A job runs on or into its timeout, and whoever runs the service starts it
\* again.
DocsFairness ==
  /\ \A d \in Docs : WF_docVars(Work(d)) /\ WF_docVars(Grow(d))
  /\ \A p \in Servers : WF_docVars(Start(p)) /\ WF_docVars(Recover(p))

DocsSpec == DocsInit /\ [][DocsNext]_docVars /\ DocsFairness

----------------------------------------------------------------------------
(* Properties                                                              *)

\* Only pending documents have jobs, except that one may be deleted or given
\* up by another process before its job starts, or after its timeout.
DocsTypeOK ==
  /\ doc \in [Docs -> [status : {"none", "pending", "ready", "failed"},
                       chunks : {"none", "some", "all"}]]
  /\ old \subseteq Docs /\ reindexing \subseteq Docs /\ announced \subseteq Docs
  /\ job \in [Docs -> [pc : {"none", "scheduled", "running", "marking"}, on : SUBSET Servers]]
  /\ server \in [Servers -> {"up", "down", "starting"}]
  /\ \A d \in Docs :
       /\ doc[d].status = "pending" => doc[d].chunks = "none"
       /\ job[d].pc # "none" => doc[d].chunks = "none"

\* recover_stale_ingestions: "a job that is still legitimately running in
\* another process is never interrupted".
RunningNotInterrupted ==
  [][\A d \in Docs : job[d].pc = "running" /\ job'[d] = job[d] => doc'[d] = doc[d]]_docVars

\* A document that is indexed is never called failed, by a late timeout or by
\* the recovery of another process.
IndexedStaysReady ==
  [][\A d \in Docs : doc[d].status = "ready" => doc'[d] = doc[d] \/ doc'[d] = None]_docVars

\* EVENT_TYPES: knowledge.ready means "finished indexing and is now searchable".
AnnouncedIsSearchable ==
  \A d \in announced : Exists(d) => doc[d] = [status |-> "ready", chunks |-> "all"]

\* A source that stalls or fails, or a document that is deleted, leaves nothing
\* pending: what a living process works on is settled, unless a statement fails.
EveryJobSettles ==
  \A d \in Docs \ Unlucky, p \in Servers \ Mortal :
    job[d].on = {p} ~> job[d].on # {p} /\ doc[d].status # "pending"

\* Who hears of a document can search it, nothing half done is on record, and
\* neither a running job nor its result is touched by those who clean up.
IndexSound == [](DocsTypeOK /\ AnnouncedIsSearchable) /\ RunningNotInterrupted /\ IndexedStaysReady

============================================================================

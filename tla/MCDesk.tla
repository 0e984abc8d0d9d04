------------------------------- MODULE MCDesk -------------------------------
(***************************************************************************)
(* Where requests leave work behind, side by side for TLC: API keys,       *)
(* sign-ups, documents that are cut and indexed, and the events of a       *)
(* commit.  They share no state, so a behaviour is one of any of them:     *)
(* part says of which.                                                     *)
(***************************************************************************)
EXTENDS Keyring, Accounts, Chunking, KnowledgeIngestion, EventOutbox

VARIABLE part

allVars == <<part, ringVars, accountVars, chunkVars, docVars, vars>>

AllInit ==
  /\ part \in {"keys", "accounts", "chunks", "documents", "events"}
  /\ RingInit /\ AccountsInit /\ ChunkInit /\ DocsInit /\ Init
  /\ part # "chunks" => words = 0 /\ target = 1

InKeys(A) == part = "keys" /\ A /\ UNCHANGED <<part, accountVars, chunkVars, docVars, vars>>
InAccounts(A) == part = "accounts" /\ A /\ UNCHANGED <<part, ringVars, chunkVars, docVars, vars>>
InChunks(A) == part = "chunks" /\ A /\ UNCHANGED <<part, ringVars, accountVars, docVars, vars>>
InDocuments(A) == part = "documents" /\ A /\ UNCHANGED <<part, ringVars, accountVars, chunkVars, vars>>
InEvents(A) == part = "events" /\ A /\ UNCHANGED <<part, ringVars, accountVars, chunkVars, docVars>>

AllNext ==
  InKeys(RingNext) \/ InAccounts(AccountsNext) \/ InChunks(ChunkNext) \/ InDocuments(DocsNext) \/ InEvents(Next)

\* RingFairness, AccountsFairness, DocsFairness and that of EventOutbox, for the
\* part that goes on
AllFairness ==
  /\ \A u \in Uses : WF_allVars(InKeys(Serve(u)))
  /\ \A v \in Revokers : WF_allVars(InKeys(Revoke(v)))
  /\ \A s \in Signups : WF_allVars(InAccounts(SignupStep(s)))
  /\ \A b \in Browsers : WF_allVars(InAccounts(Expire(b, "access")))
  /\ \A d \in Docs : WF_allVars(InDocuments(Work(d))) /\ WF_allVars(InDocuments(Grow(d)))
  /\ \A p \in Servers : WF_allVars(InDocuments(Start(p))) /\ WF_allVars(InDocuments(Recover(p)))
  /\ \A s \in Sessions : WF_allVars(InEvents(AfterCommit(s)))

AllSpec == AllInit /\ [][AllNext]_allVars /\ AllFairness

============================================================================

---------------------------- MODULE Desk_proofs ----------------------------
(*************************************************************************)
(* Work behind the desk, for any number of documents, processes,         *)
(* sign-ups, sessions and rows: how documents are cut and indexed, whose *)
(* an account is, and what is announced of what is committed.            *)
(*************************************************************************)
EXTENDS Chunking, KnowledgeIngestion, Accounts, EventOutbox, TLAPS

----------------------------------------------------------------------------
(* Chunking                                                                *)

Covered(w) == \E c \in chunks : c[1] <= w /\ w < c[2]

\* The loop has not begun, or has left a window that the next one overlaps,
\* has covered all up to the end of that window, and has not reached the tail.
InTheMiddle ==
  \/ start = 0 /\ chunks = {}
  \/ /\ words > target /\ start < words
     /\ \E b \in chunks : b[1] < start /\ b[2] = start + overlap
     /\ \A w \in 0 .. start + overlap - 1 : Covered(w)
     /\ \A c \in chunks : c[2] < words

CutInv == ChunkTypeOK /\ WordsCovered /\ WindowsOverlap /\ OneLast /\ (cutting => InTheMiddle)

\* The overlap is smaller than the window, so that each window gets further.
LEMMA ClippedIsLess ==
  ASSUME NEW asked \in Nat, NEW size \in Nat \ {0}
  PROVE  Clipped(asked, size) \in 0 .. size - 1
  BY DEF Clipped, Least

LEMMA CutInit == ChunkInit => CutInv
<1> SUFFICES ASSUME ChunkInit PROVE CutInv
  OBVIOUS
<1>1. ChunkTypeOK
  BY SizesAssumption, ClippedIsLess DEF ChunkInit, ChunkTypeOK
<1>2. WordsCovered /\ WindowsOverlap /\ OneLast /\ InTheMiddle
  BY DEF ChunkInit, WordsCovered, WindowsOverlap, OneLast, InTheMiddle
<1> QED
  BY <1>1, <1>2 DEF CutInv

\* A text that fits: one window, or none.
LEMMA WholeKeeps == CutInv /\ Whole => CutInv'
<1> SUFFICES ASSUME CutInv, Whole PROVE CutInv'
  OBVIOUS
<1> USE DEF CutInv, Whole
<1>1. ChunkTypeOK'
  <2>1. words \in Nat /\ <<0, words>> \in Nat \X Nat
    BY DEF ChunkTypeOK
  <2>2. chunks' \subseteq Nat \X Nat
    BY <2>1
  <2> QED
    BY <2>2 DEF ChunkTypeOK
<1>2. CASE words = 0
  BY <1>1, <1>2 DEF ChunkTypeOK, WordsCovered, WindowsOverlap, OneLast
<1>3. CASE words # 0
  <2>1. chunks' = {<<0, words>>} /\ words' = words /\ target' = target /\ overlap' = overlap
    BY <1>3
  <2>2. <<0, words>>[1] = 0 /\ <<0, words>>[2] = words /\ words \in Nat
    BY DEF ChunkTypeOK
  <2>3. WordsCovered'
    BY <2>1, <2>2, \A w \in 0 .. words - 1 : 0 <= w /\ w < words DEF WordsCovered
  <2>4. WindowsOverlap' /\ OneLast'
    BY <2>1, <2>2, <1>3 DEF ChunkTypeOK, WindowsOverlap, OneLast
  <2> QED
    BY <1>1, <2>3, <2>4
<1> QED
  BY <1>2, <1>3

\* What is true of the window that a step cuts, and of all before it.
LEMMA NewWindow ==
  ASSUME CutInv, Cut
  PROVE  LET new == <<start, Least(start + target, words)>> IN
           /\ new \in Nat \X Nat
           /\ new[1] = start /\ start < new[2] /\ new[2] <= words /\ new[2] - start <= target
           /\ IsLast => new[2] = words
           /\ ~IsLast => new[2] = start + target /\ new[2] < words
           /\ start # 0 => \E b \in chunks : b[1] < start /\ b[2] = start + overlap
           /\ \A c \in chunks : c[2] < words
           /\ \A w \in 0 .. start - 1 : Covered(w)
<1> DEFINE end == Least(start + target, words)
<1>1. start \in Nat /\ words \in Nat /\ target \in Nat \ {0} /\ overlap \in 0 .. target - 1 /\ words > target
  BY DEF CutInv, ChunkTypeOK, Cut
<1>2. InTheMiddle
  BY DEF CutInv, Cut
<1>3. start < words
  BY <1>1, <1>2 DEF InTheMiddle
<1>4. end \in Nat /\ start < end /\ end <= words /\ end - start <= target
  BY <1>1, <1>3 DEF Least
<1>5. (IsLast => end = words) /\ (~IsLast => end = start + target /\ end < words)
  BY <1>1 DEF IsLast, Least
<1>6. /\ start # 0 => \E b \in chunks : b[1] < start /\ b[2] = start + overlap
      /\ \A c \in chunks : c[2] < words
      /\ \A w \in 0 .. start - 1 : Covered(w)
  BY <1>1, <1>2 DEF InTheMiddle
<1> HIDE DEF end
<1>7. <<start, end>>[1] = start /\ <<start, end>>[2] = end /\ <<start, end>> \in Nat \X Nat
  BY <1>1, <1>4
<1> QED
  BY <1>4, <1>5, <1>6, <1>7 DEF end

LEMMA CutKeeps == CutInv /\ Cut => CutInv'
<1> SUFFICES ASSUME CutInv, Cut PROVE CutInv'
  OBVIOUS
<1> DEFINE new == <<start, Least(start + target, words)>>
<1>1. start \in Nat /\ words \in Nat /\ target \in Nat \ {0} /\ overlap \in 0 .. target - 1 /\ chunks \subseteq Nat \X Nat
  BY DEF CutInv, ChunkTypeOK
<1>2. /\ new \in Nat \X Nat
      /\ new[1] = start /\ start < new[2] /\ new[2] <= words /\ new[2] - start <= target
      /\ IsLast => new[2] = words
      /\ ~IsLast => new[2] = start + target /\ new[2] < words
      /\ start # 0 => \E b \in chunks : b[1] < start /\ b[2] = start + overlap
      /\ \A c \in chunks : c[2] < words
      /\ \A w \in 0 .. start - 1 : Covered(w)
  BY NewWindow
<1>3. /\ chunks' = chunks \union {new} /\ words' = words /\ target' = target /\ overlap' = overlap
      /\ cutting' = ~IsLast /\ start' = IF IsLast THEN start ELSE start + (target - overlap)
      /\ words > target
  BY DEF Cut, Stride
<1> HIDE DEF new
<1>4. ChunkTypeOK'
  BY <1>1, <1>2, <1>3 DEF ChunkTypeOK
<1>5. \A w \in 0 .. new[2] - 1 : Covered(w)'
  <2> SUFFICES ASSUME NEW w \in 0 .. new[2] - 1 PROVE Covered(w)'
    OBVIOUS
  <2>1. CASE w < start
    <3>1. Covered(w)
      BY <2>1, <1>1, <1>2
    <3> QED
      BY <3>1, <1>3 DEF Covered
  <2>2. CASE w >= start
    BY <2>2, <1>1, <1>2, <1>3 DEF Covered
  <2> QED
    BY <2>1, <2>2, <1>1, <1>2
<1>6. WordsCovered'
  <2>1. cutting' \/ new[2] = words
    BY <1>2, <1>3
  <2> QED
    BY <2>1, <1>3, <1>5 DEF WordsCovered, Covered
<1>7. WindowsOverlap'
  <2> SUFFICES ASSUME NEW c \in chunks'
               PROVE  /\ c[1] < c[2] /\ c[2] <= words /\ c[2] - c[1] <= target
                      /\ c[1] # 0 => \E b \in chunks' : b[1] < c[1] /\ b[2] = c[1] + overlap
    BY <1>3 DEF WindowsOverlap
  <2>1. CASE c \in chunks
    BY <2>1, <1>3 DEF CutInv, WindowsOverlap
  <2>2. CASE c = new
    BY <2>2, <1>2, <1>3
  <2> QED
    BY <2>1, <2>2, <1>3
<1>8. OneLast'
  BY <1>1, <1>2, <1>3 DEF OneLast
<1>9. cutting' => InTheMiddle'
  <2> SUFFICES ASSUME ~IsLast PROVE InTheMiddle'
    BY <1>3
  <2>1. start' = start + (target - overlap) /\ start' + overlap = new[2]
    BY <1>1, <1>2, <1>3
  <2>2. start' < words /\ start < start' /\ start' \in Nat
    BY <2>1, <1>1, <1>2
  <2>3. \E b \in chunks' : b[1] < start' /\ b[2] = start' + overlap
    BY <2>1, <2>2, <1>2, <1>3
  <2>4. \A w \in 0 .. start' + overlap - 1 : Covered(w)'
    <3>1. 0 .. start' + overlap - 1 = 0 .. new[2] - 1
      BY <2>1, <2>2, <1>1, <1>2
    <3> QED
      BY <3>1, <1>5
  <2>5. \A c \in chunks' : c[2] < words
    BY <1>2, <1>3
  <2> QED
    BY <2>2, <2>3, <2>4, <2>5, <1>3 DEF InTheMiddle
<1> QED
  BY <1>4, <1>6, <1>7, <1>8, <1>9 DEF CutInv

LEMMA CutStutters == CutInv /\ UNCHANGED chunkVars => CutInv'
  BY DEF CutInv, chunkVars, ChunkTypeOK, WordsCovered, WindowsOverlap, OneLast, InTheMiddle, Covered

\* Whatever the text, the window and the overlap that were asked for: no word
\* is lost, the windows overlap as they should and only one reaches the end.
THEOREM WindowsAreRight == ChunkSpec => []ChunksAreRight
<1>1. CutInv /\ [ChunkNext]_chunkVars => CutInv'
  BY WholeKeeps, CutKeeps, CutStutters DEF ChunkNext
<1>2. CutInv => ChunksAreRight
  BY DEF CutInv, ChunksAreRight
<1> QED
  BY CutInit, <1>1, <1>2, PTL DEF ChunkSpec

----------------------------------------------------------------------------
(* KnowledgeIngestion                                                      *)

\* What DocsTypeOK rests on: a document that is re-indexed has passages unless
\* it was deleted meanwhile, and has no job; only an indexed one has them all.
PassagesBelong ==
  \A d \in Docs :
    /\ ~Exists(d) => doc[d].chunks = "none"
    /\ doc[d].status = "ready" => doc[d].chunks # "none"
    /\ d \in reindexing => job[d].pc = "none" /\ (Exists(d) => doc[d].chunks # "none")
    /\ Locked(d) => Exists(d)

DocsInv == DocsTypeOK /\ AnnouncedIsSearchable /\ PassagesBelong

\* A step leaves running documents alone, and indexed ones unless it deletes them.
LeavesAlone ==
  \A d \in Docs :
    /\ job[d].pc = "running" /\ job'[d] = job[d] => doc'[d] = doc[d]
    /\ doc[d].status = "ready" => doc'[d] = doc[d] \/ doc'[d] = None

LEMMA DocsInitInv == DocsInit => DocsInv
  BY DEF DocsInit, DocsInv, DocsTypeOK, AnnouncedIsSearchable, PassagesBelong, Exists, Locked, None, NoJob

LEMMA AddKeeps ==
  ASSUME DocsInv, NEW d \in Docs, NEW p \in Servers, Add(p, d)
  PROVE  DocsInv' /\ LeavesAlone
  BY DEF DocsInv, DocsTypeOK, AnnouncedIsSearchable, PassagesBelong, LeavesAlone, Exists, Locked, None, NoJob, Add, Settle

LEMMA StartJobKeeps ==
  ASSUME DocsInv, NEW d \in Docs, StartJob(d)
  PROVE  DocsInv' /\ LeavesAlone
<1> USE DEF DocsInv, DocsTypeOK, NoJob
<1>1. /\ doc' = doc /\ old' = old /\ reindexing' = reindexing /\ announced' = announced /\ server' = server
      /\ job[d].pc = "scheduled"
      /\ \/ Exists(d) /\ job' = [job EXCEPT ![d].pc = "running"]
         \/ job' = [job EXCEPT ![d] = NoJob]
  BY DEF StartJob, JobEnds
<1>2. /\ job' \in [Docs -> [pc : {"none", "scheduled", "running", "marking"}, on : SUBSET Servers]]
      /\ job'[d].pc = "none" \/ (job'[d].pc = "running" /\ Exists(d))
      /\ \A e \in Docs \ {d} : job'[e] = job[e]
  BY <1>1
<1>3. DocsTypeOK'
  BY <1>1, <1>2
<1>4. AnnouncedIsSearchable' /\ LeavesAlone
  BY <1>1 DEF AnnouncedIsSearchable, LeavesAlone, Exists
<1>5. PassagesBelong'
  BY <1>1, <1>2 DEF PassagesBelong, Exists, Locked
<1> QED
  BY <1>3, <1>4, <1>5

\* Of the outcomes only the one that is announced is searchable.
LEMMA FinishJobKeeps ==
  ASSUME DocsInv, NEW d \in Docs, NEW status, NEW passages, FinishJob(d, status, passages)
  PROVE  DocsInv' /\ LeavesAlone
<1> DEFINE row == [status |-> status, chunks |-> passages]
<1>1. \/ status = "ready" /\ passages = "all"
      \/ status = "failed" /\ passages \in {"none", "some", "all"}
  BY DEF FinishJob
<1>2. /\ doc' = [doc EXCEPT ![d] = row] /\ job' = [job EXCEPT ![d] = NoJob]
      /\ announced' = IF status = "ready" THEN announced \union {d} ELSE announced
      /\ old' = old /\ reindexing' = reindexing /\ server' = server
      /\ job[d].pc = "running" /\ doc[d].chunks = "none" /\ Exists(d) /\ d \notin reindexing
  BY DEF FinishJob, Settle, JobEnds, Announce, DocsInv, DocsTypeOK, PassagesBelong, Locked
<1>3. row \in [status : {"ready", "failed"}, chunks : {"none", "some", "all"}]
  BY <1>1
<1>4. DocsTypeOK'
  BY <1>1, <1>2, <1>3 DEF DocsInv, DocsTypeOK, NoJob
<1>5. /\ doc'[d] = row /\ row.status = status /\ row.chunks = passages
      /\ job'[d].pc = "none"
      /\ \A e \in Docs \ {d} : doc'[e] = doc[e] /\ job'[e] = job[e]
  BY <1>2 DEF DocsInv, DocsTypeOK, NoJob
<1>6. AnnouncedIsSearchable'
  BY <1>1, <1>2, <1>5 DEF DocsInv, DocsTypeOK, AnnouncedIsSearchable, Exists
<1>7. PassagesBelong'
  BY <1>1, <1>2, <1>5 DEF DocsInv, DocsTypeOK, PassagesBelong, Exists, Locked
<1>8. LeavesAlone
  <2>1. doc[d].status # "ready" /\ job'[d] # job[d]
    BY <1>2, <1>5 DEF DocsInv, PassagesBelong
  <2> QED
    BY <1>5, <2>1 DEF LeavesAlone
<1> QED
  BY <1>4, <1>6, <1>7, <1>8 DEF DocsInv

LEMMA JobBreaksKeeps ==
  ASSUME DocsInv, NEW d \in Docs, JobBreaks(d)
  PROVE  DocsInv' /\ LeavesAlone
  BY DEF DocsInv, DocsTypeOK, AnnouncedIsSearchable, PassagesBelong, LeavesAlone, Exists, Locked, None, NoJob, JobBreaks, JobEnds

LEMMA TimeOutKeeps ==
  ASSUME DocsInv, NEW d \in Docs, TimeOut(d)
  PROVE  DocsInv' /\ LeavesAlone
  BY DEF DocsInv, DocsTypeOK, AnnouncedIsSearchable, PassagesBelong, LeavesAlone, Exists, Locked, None, NoJob, TimeOut

LEMMA MarkFailedKeeps ==
  ASSUME DocsInv, NEW d \in Docs, MarkFailed(d)
  PROVE  DocsInv' /\ LeavesAlone
  BY DEF DocsInv, DocsTypeOK, AnnouncedIsSearchable, PassagesBelong, LeavesAlone, Exists, Locked, None, NoJob, MarkFailed, Mark, JobEnds

LEMMA ReindexKeeps ==
  ASSUME DocsInv, NEW d \in Docs, Reindex(d) \/ ReindexFails(d)
  PROVE  DocsInv' /\ LeavesAlone
  BY DEF DocsInv, DocsTypeOK, AnnouncedIsSearchable, PassagesBelong, LeavesAlone, Exists, Locked, None, NoJob, Reindex, ReindexFails

LEMMA ReindexedKeeps ==
  ASSUME DocsInv, NEW d \in Docs, Reindexed(d)
  PROVE  DocsInv' /\ LeavesAlone
  BY DEF DocsInv, DocsTypeOK, AnnouncedIsSearchable, PassagesBelong, LeavesAlone, Exists, Locked, None, NoJob, Reindexed, Settle

LEMMA DeleteKeeps ==
  ASSUME DocsInv, NEW d \in Docs, Delete(d)
  PROVE  DocsInv' /\ LeavesAlone
  BY DEF DocsInv, DocsTypeOK, AnnouncedIsSearchable, PassagesBelong, LeavesAlone, Exists, Locked, None, NoJob, Delete

LEMMA GrowKeeps ==
  ASSUME DocsInv, NEW d \in Docs, Grow(d)
  PROVE  DocsInv' /\ LeavesAlone
  BY DEF DocsInv, DocsTypeOK, AnnouncedIsSearchable, PassagesBelong, LeavesAlone, Exists, Locked, None, NoJob, Grow

LEMMA ServerDiesKeeps ==
  ASSUME DocsInv, NEW p \in Servers, ServerDies(p)
  PROVE  DocsInv' /\ LeavesAlone
<1>1. /\ doc' = doc /\ old' = old /\ reindexing' = reindexing /\ announced' = announced
      /\ server' \in [Servers -> {"up", "down", "starting"}]
  BY DEF ServerDies, DocsInv, DocsTypeOK
<1>2. job' = [d \in Docs |-> IF job[d].on = {p} THEN NoJob ELSE job[d]]
  BY DEF ServerDies
<1>3. /\ job' \in [Docs -> [pc : {"none", "scheduled", "running", "marking"}, on : SUBSET Servers]]
      /\ \A d \in Docs : job'[d].pc = "none" \/ job'[d] = job[d]
  BY <1>2 DEF DocsInv, DocsTypeOK, NoJob
<1> QED
  BY <1>1, <1>3 DEF DocsInv, DocsTypeOK, AnnouncedIsSearchable, PassagesBelong, LeavesAlone, Exists, Locked

LEMMA StartKeeps ==
  ASSUME DocsInv, NEW p \in Servers, Start(p)
  PROVE  DocsInv' /\ LeavesAlone
  BY DEF DocsInv, DocsTypeOK, AnnouncedIsSearchable, PassagesBelong, LeavesAlone, Exists, Locked, Start

LEMMA RecoverKeeps ==
  ASSUME DocsInv, NEW p \in Servers, Recover(p)
  PROVE  DocsInv' /\ LeavesAlone
  BY DEF DocsInv, DocsTypeOK, AnnouncedIsSearchable, PassagesBelong, LeavesAlone, Exists, Locked, None, NoJob, Recover, LeftBehind

LEMMA DocsStep ==
  ASSUME DocsInv, [DocsNext]_docVars
  PROVE  DocsInv' /\ LeavesAlone
<1>1. CASE \E d \in Docs, p \in Servers : Add(p, d)
  BY <1>1, AddKeeps
<1>2. CASE \E d \in Docs : Work(d)
  BY <1>2, StartJobKeeps, TimeOutKeeps, MarkFailedKeeps, JobBreaksKeeps, FinishJobKeeps DEF Work
<1>3. CASE \E d \in Docs : Reindex(d) \/ ReindexFails(d) \/ Reindexed(d) \/ Delete(d) \/ Grow(d)
  BY <1>3, ReindexKeeps, ReindexedKeeps, DeleteKeeps, GrowKeeps
<1>4. CASE \E p \in Servers : ServerDies(p) \/ Start(p) \/ Recover(p)
  BY <1>4, ServerDiesKeeps, StartKeeps, RecoverKeeps
<1>5. CASE UNCHANGED docVars
  BY <1>5 DEF docVars, DocsInv, DocsTypeOK, AnnouncedIsSearchable, PassagesBelong, LeavesAlone, Exists, Locked
<1> QED
  BY <1>1, <1>2, <1>3, <1>4, <1>5 DEF DocsNext

\* Whatever documents are added, time out, are re-indexed, deleted or left by
\* dying processes: who was told of one can search it, and neither a running
\* job nor what it left behind is touched by those who clean up.
THEOREM IndexIsSound == DocsSpec => IndexSound
<1>1. DocsInv => DocsTypeOK /\ AnnouncedIsSearchable
  BY DEF DocsInv
<1>2. DocsInv /\ [DocsNext]_docVars => DocsInv'
  BY DocsStep
<1>3. DocsInv /\ [DocsNext]_docVars =>
        [\A d \in Docs : job[d].pc = "running" /\ job'[d] = job[d] => doc'[d] = doc[d]]_docVars
  BY DocsStep DEF LeavesAlone
<1>4. DocsInv /\ [DocsNext]_docVars =>
        [\A d \in Docs : doc[d].status = "ready" => doc'[d] = doc[d] \/ doc'[d] = None]_docVars
  BY DocsStep DEF LeavesAlone
<1> QED
  BY DocsInitInv, <1>1, <1>2, <1>3, <1>4, PTL DEF DocsSpec, IndexSound, RunningNotInterrupted, IndexedStaysReady

----------------------------------------------------------------------------
(*************************************************************************)
(* Accounts: one for each e-mail, one workspace for each slug.           *)
(*************************************************************************)

AccountsSafe == AccountsTypeOK /\ FailsOnlyBesideRival

Stations == {"idle", "asking", "asked", "user", "named", "tenant", "committed", "conflict", "failed", "aborted"}

SignupsTyped ==
  /\ up \in [Signups -> [pc : Stations, email : Emails \union {"none"}, name : Names \union {"none"},
                         slug : Names \union Signups \union {"none"}]]
  /\ rivals \subseteq Signups /\ disabled \subseteq Committed
  /\ \A s \in Signups : up[s].pc # "idle" => up[s].name \in Names

TokensTyped ==
  kept \in [Browsers -> {NoToken} \union [user : Signups, access : {"valid", "expired"}, refresh : {"valid", "expired"}]]

\* An e-mail from its INSERT on, a slug from its own, is one sign-up's.
Owned ==
  /\ \A s, t \in Signups : {up[s].pc, up[t].pc} \subseteq {"user", "named", "tenant", "committed"} /\ s # t
       => up[s].email # up[t].email
  /\ \A s, t \in Signups : {up[s].pc, up[t].pc} \subseteq {"tenant", "committed"} /\ s # t
       => up[s].slug # up[t].slug

\* What a sign-up found free, and is taken since, was taken by a rival.
TakenByRival ==
  /\ \A s, t \in Signups : {s, t} \subseteq Running /\ s # t /\ (up[s].email = up[t].email \/ up[s].name = up[t].name)
       => s \in rivals
  /\ \A s \in Signups : up[s].pc = "asked" /\ EmailTaken(s) => s \in rivals
  /\ \A s \in Signups : up[s].pc \in {"named", "tenant", "committed"} => up[s].slug \in {up[s].name, s}
  /\ \A s \in Signups, t \in Committed : up[s].pc = "named" /\ up[t].slug = up[s].slug => s \in rivals

AccountsInv == SignupsTyped /\ TokensTyped /\ Owned /\ TakenByRival /\ FailsOnlyBesideRival

LEMMA AccountsStart == AccountsInit => AccountsInv
<1> SUFFICES ASSUME AccountsInit PROVE AccountsInv
  OBVIOUS
<1>1. SignupsTyped /\ TokensTyped
  BY DEF AccountsInit, SignupsTyped, TokensTyped, Stations, Committed
<1>2. Owned /\ TakenByRival /\ FailsOnlyBesideRival
  BY DEF AccountsInit, Owned, TakenByRival, FailsOnlyBesideRival, Committed, Running
<1> QED
  BY <1>1, <1>2 DEF AccountsInv

LEMMA AccountsInvIsSafe == AccountsInv => AccountsSafe
<1> SUFFICES ASSUME AccountsInv PROVE AccountsSafe
  OBVIOUS
<1>1. \A b \in Browsers : kept[b] # NoToken => kept[b].user \in Signups
  BY DEF AccountsInv, TokensTyped
<1>2. \A s, t \in Committed : s # t => up[s].email # up[t].email /\ up[s].slug # up[t].slug
  BY DEF AccountsInv, Owned, Committed
<1> QED
  BY <1>1, <1>2 DEF AccountsInv, SignupsTyped, Stations, AccountsTypeOK, AccountsSafe

\* One sign-up goes on to r; nobody else's changes.
LEMMA SignupMoves ==
  ASSUME AccountsInv, NEW s \in Signups,
         NEW r \in [pc : Stations, email : Emails \union {"none"}, name : Names \union {"none"},
                    slug : Names \union Signups \union {"none"}],
         up' = [up EXCEPT ![s] = r], kept' = kept, disabled' = disabled,
         rivals \subseteq rivals', rivals' \subseteq Signups,
         up[s].pc \notin {"committed", "conflict", "failed", "aborted"}, r.pc # "idle", r.name \in Names,
         r.pc \in {"user", "named", "tenant", "committed"} =>
           \A t \in Signups \ {s} : up[t].pc \in {"user", "named", "tenant", "committed"} => up[t].email # r.email,
         r.pc \in {"tenant", "committed"} =>
           \A t \in Signups \ {s} : up[t].pc \in {"tenant", "committed"} => up[t].slug # r.slug,
         r.pc \in {"asking", "asked", "user", "named", "tenant"} =>
           \A t \in Running \ {s} : up[t].email = r.email \/ up[t].name = r.name => {s, t} \subseteq rivals',
         r.pc \in {"asked", "named"} =>
           \A t \in Committed : (r.pc = "asked" /\ up[t].email = r.email) \/ (r.pc = "named" /\ up[t].slug = r.slug)
              => s \in rivals',
         r.pc \in {"named", "tenant", "committed"} => r.slug \in {r.name, s},
         r.pc = "committed" => up[s].pc \in Stations \ {"idle"} /\ s \in Running
                                 /\ up[s].email = r.email /\ up[s].name = r.name,
         r.pc = "failed" => s \in rivals'
  PROVE  AccountsInv'
<1>1. up'[s] = r /\ \A t \in Signups \ {s} : up'[t] = up[t]
  BY DEF AccountsInv, SignupsTyped
<1>2. SignupsTyped'
  <2>1. up' \in [Signups -> [pc : Stations, email : Emails \union {"none"}, name : Names \union {"none"},
                         slug : Names \union Signups \union {"none"}]]
    BY DEF AccountsInv, SignupsTyped
  <2>2. disabled' \subseteq Committed'
    BY <1>1 DEF AccountsInv, SignupsTyped, Committed
  <2>3. \A t \in Signups : up'[t].pc # "idle" => up'[t].name \in Names
    BY <1>1 DEF AccountsInv, SignupsTyped
  <2> QED
    BY <2>1, <2>2, <2>3 DEF SignupsTyped
<1>3. TokensTyped'
  BY DEF AccountsInv, TokensTyped
<1>4. Owned'
  BY <1>1 DEF AccountsInv, Owned
<1>5. Running' \subseteq Running \union {s} /\ (s \in Running' => r.pc \in {"asking", "asked", "user", "named", "tenant"})
  BY <1>1 DEF Running
<1>6. Committed' \subseteq Committed \union {s} /\ (s \in Committed' => r.pc = "committed") /\ s \notin Committed
  BY <1>1 DEF Committed
<1>7. TakenByRival'
  <2>1. \A t, u \in Signups : {t, u} \subseteq Running' /\ t # u /\ (up'[t].email = up'[u].email \/ up'[t].name = up'[u].name)
          => t \in rivals'
    BY <1>1, <1>5 DEF AccountsInv, TakenByRival
  <2>2. \A t \in Signups : up'[t].pc = "asked" /\ (\E u \in Committed' : up'[u].email = up'[t].email) => t \in rivals'
    <3> SUFFICES ASSUME NEW t \in Signups, NEW u \in Committed', up'[t].pc = "asked", up'[u].email = up'[t].email
                 PROVE  t \in rivals'
      OBVIOUS
    <3>1. CASE u = s
      <4>1. t # s /\ t \in Running /\ s \in Running /\ up[s].email = up[t].email
        BY <1>1, <1>6, <3>1 DEF Running
      <4> QED
        BY <4>1 DEF AccountsInv, TakenByRival
    <3>2. CASE u # s
      BY <1>1, <1>6, <3>2 DEF AccountsInv, TakenByRival, EmailTaken, Committed
    <3> QED
      BY <3>1, <3>2
  <2>3. \A t \in Signups : up'[t].pc \in {"named", "tenant", "committed"} => up'[t].slug \in {up'[t].name, t}
    BY <1>1 DEF AccountsInv, TakenByRival
  <2>4. \A t \in Signups, u \in Committed' : up'[t].pc = "named" /\ up'[u].slug = up'[t].slug => t \in rivals'
    <3> SUFFICES ASSUME NEW t \in Signups, NEW u \in Committed', up'[t].pc = "named", up'[u].slug = up'[t].slug
                 PROVE  t \in rivals'
      OBVIOUS
    <3>1. CASE u = s
      <4>1. t # s /\ t \in Running /\ s \in Running /\ up'[t] = up[t] /\ r.slug = up[t].slug /\ r.name = up[s].name
        BY <1>1, <1>6, <3>1 DEF Running
      <4>2. r.slug \in {r.name, s} /\ up[t].slug \in {up[t].name, t} /\ up[t].name \in Names
        BY <1>1, <1>6, <3>1, <4>1 DEF AccountsInv, TakenByRival, SignupsTyped
      <4>3. up[s].name = up[t].name
        BY <4>1, <4>2, SlugsAssumption
      <4> QED
        BY <4>1, <4>3 DEF AccountsInv, TakenByRival
    <3>2. CASE u # s
      BY <1>1, <1>6, <3>2 DEF AccountsInv, TakenByRival, Committed
    <3> QED
      BY <3>1, <3>2
  <2> QED
    BY <2>1, <2>2, <2>3, <2>4 DEF TakenByRival, EmailTaken
<1>8. FailsOnlyBesideRival'
  BY <1>1 DEF AccountsInv, FailsOnlyBesideRival
<1> QED
  BY <1>2, <1>3, <1>4, <1>7, <1>8 DEF AccountsInv

LEMMA SignupIs ==
  ASSUME AccountsInv, NEW s \in Signups
  PROVE  /\ up[s] \in [pc : Stations, email : Emails \union {"none"}, name : Names \union {"none"},
                       slug : Names \union Signups \union {"none"}]
         /\ rivals \subseteq Signups /\ (up[s].pc # "idle" => up[s].name \in Names)
         /\ \A t \in Signups : {s, t} \subseteq Running /\ s # t /\ (up[t].email = up[s].email \/ up[t].name = up[s].name)
              => {s, t} \subseteq rivals
  BY DEF AccountsInv, SignupsTyped, TakenByRival

\* A step that gives a sign-up no value that it did not have.
LEMMA SignupSteps ==
  ASSUME AccountsInv, NEW s \in Signups, NEW pc \in Stations \ {"idle", "named"}, Step(s, pc),
         UNCHANGED <<rivals, disabled, kept>>, s \in Running,
         pc = "asked" => ~ EmailTaken(s),
         pc = "user" => ~ EmailTaken(s) /\ \A t \in Signups \ {s} : ~ HoldsEmail(t, up[s].email),
         pc = "tenant" => /\ up[s].pc = "named" /\ SlugFree(s)
                          /\ ~ \E t \in Committed : up[t].slug = up[s].slug,
         pc = "committed" => up[s].pc = "tenant",
         pc = "failed" => s \in rivals
  PROVE  AccountsInv'
<1> DEFINE r == [up[s] EXCEPT !.pc = pc]
<1>0. /\ up[s] \in [pc : Stations, email : Emails \union {"none"}, name : Names \union {"none"},
                    slug : Names \union Signups \union {"none"}]
      /\ up[s].pc \in {"asking", "asked", "user", "named", "tenant"}
  BY SignupIs DEF Running
<1>1. /\ r \in [pc : Stations, email : Emails \union {"none"}, name : Names \union {"none"},
                slug : Names \union Signups \union {"none"}]
      /\ r.pc = pc /\ r.email = up[s].email /\ r.name = up[s].name /\ r.slug = up[s].slug
  BY <1>0
<1>2. up' = [up EXCEPT ![s] = r]
  BY DEF Step
<1> HIDE DEF r
<1>3. r.pc \in {"user", "named", "tenant", "committed"} =>
        \A t \in Signups \ {s} : up[t].pc \in {"user", "named", "tenant", "committed"} => up[t].email # r.email
  BY <1>0, <1>1 DEF AccountsInv, Owned, EmailTaken, HoldsEmail, Committed
<1>4. r.pc \in {"tenant", "committed"} =>
        \A t \in Signups \ {s} : up[t].pc \in {"tenant", "committed"} => up[t].slug # r.slug
  BY <1>0, <1>1 DEF AccountsInv, Owned, SlugFree, HoldsSlug, Committed
<1>5. \A t \in Running \ {s} : up[t].email = r.email \/ up[t].name = r.name => {s, t} \subseteq rivals
  BY <1>1, SignupIs DEF Running
<1>6. r.pc = "asked" => \A t \in Committed : up[t].email # r.email
  BY <1>1 DEF EmailTaken
<1>7. r.pc \in {"named", "tenant", "committed"} => r.slug \in {r.name, s}
  BY <1>0, <1>1 DEF AccountsInv, TakenByRival
<1>8. r.name \in Names /\ rivals \subseteq Signups
  BY <1>0, <1>1, SignupIs
<1> QED
  BY <1>0, <1>1, <1>2, <1>3, <1>4, <1>5, <1>6, <1>7, <1>8, SignupMoves

LEMMA AskKeeps ==
  ASSUME AccountsInv, NEW s \in Signups, NEW email \in Emails, NEW name \in Names, Ask(s, email, name)
  PROVE  AccountsInv'
<1> DEFINE r == [pc |-> "asking", email |-> email, name |-> name, slug |-> "none"]
           beside == {t \in Running : up[t].email = email \/ up[t].name = name}
<1>1. /\ r \in [pc : Stations, email : Emails \union {"none"}, name : Names \union {"none"},
                slug : Names \union Signups \union {"none"}]
      /\ r.pc = "asking" /\ r.email = email /\ r.name = name
  BY DEF Stations
<1>2. up' = [up EXCEPT ![s] = r] /\ up[s].pc = "idle" /\ UNCHANGED <<disabled, kept>>
  BY DEF Ask
<1>3. rivals \subseteq rivals' /\ rivals' \subseteq Signups /\ (beside # {} => beside \union {s} \subseteq rivals')
  BY SignupIs DEF Ask, Running
<1> HIDE DEF r
<1>4. \A t \in Running \ {s} : up[t].email = r.email \/ up[t].name = r.name => {s, t} \subseteq rivals'
  BY <1>1, <1>3
<1> QED
  BY <1>1, <1>2, <1>3, <1>4, SignupMoves

LEMMA ChooseSlugKeeps ==
  ASSUME AccountsInv, NEW s \in Signups, ChooseSlug(s)
  PROVE  AccountsInv'
<1>0. /\ up[s] \in [pc : Stations, email : Emails \union {"none"}, name : Names \union {"none"},
                    slug : Names \union Signups \union {"none"}]
      /\ up[s].pc = "user" /\ s \in Running
  BY SignupIs DEF Running, ChooseSlug
<1> DEFINE r == [[up[s] EXCEPT !.pc = "named"] EXCEPT !.slug = SlugOf(s)]
<1>1. up[s].name \in Names /\ SlugOf(s) \in {up[s].name, s}
  BY <1>0, SignupIs DEF SlugOf
<1>2. /\ r \in [pc : Stations, email : Emails \union {"none"}, name : Names \union {"none"},
                slug : Names \union Signups \union {"none"}]
      /\ r.pc = "named" /\ r.email = up[s].email /\ r.name = up[s].name /\ r.slug = SlugOf(s)
  BY <1>0, <1>1 DEF Stations
<1>3. up' = [up EXCEPT ![s] = r] /\ UNCHANGED <<rivals, disabled, kept>>
  BY <1>0, SignupIs DEF ChooseSlug, AccountsInv, SignupsTyped
<1> HIDE DEF r
<1>4. \A t \in Signups \ {s} : up[t].pc \in {"user", "named", "tenant", "committed"} => up[t].email # r.email
  BY <1>0, <1>2 DEF AccountsInv, Owned
<1>5. \A t \in Running \ {s} : up[t].email = r.email \/ up[t].name = r.name => {s, t} \subseteq rivals
  BY <1>0, <1>2, SignupIs DEF Running
<1>6. \A t \in Committed : up[t].slug # r.slug
  <2> SUFFICES ASSUME NEW t \in Committed, up[t].slug = SlugOf(s) PROVE FALSE
    BY <1>2
  <2>1. SlugOf(s) = s /\ s \notin Names
    BY <1>1, SlugsAssumption DEF SlugOf
  <2>2. up[t].slug \in {up[t].name, t} /\ up[t].name \in Names
    BY DEF Committed, AccountsInv, TakenByRival, SignupsTyped
  <2>3. t = s
    BY <2>1, <2>2
  <2> QED
    BY <1>0, <2>3 DEF Committed
<1>7. r.slug \in {r.name, s} /\ r.name \in Names /\ rivals \subseteq Signups
  BY <1>0, <1>1, <1>2, SignupIs
<1> QED
  BY <1>0, <1>2, <1>3, <1>4, <1>5, <1>6, <1>7, SignupMoves

LEMMA SignupKeeps ==
  ASSUME AccountsInv, NEW s \in Signups,
         LookForEmail(s) \/ AddUser(s) \/ AddTenant(s) \/ EndSignup(s) \/ SignupFails(s)
  PROVE  AccountsInv'
<1>1. CASE LookForEmail(s)
  BY <1>1, SignupSteps DEF LookForEmail, Running, Stations
<1>2. CASE AddUser(s)
  <2>1. up[s].pc = "asked" /\ s \in Running
    BY <1>2 DEF AddUser, Running
  <2>2. EmailTaken(s) => s \in rivals
    BY <2>1 DEF AccountsInv, TakenByRival
  <2> QED
    BY <1>2, <2>1, <2>2, SignupSteps DEF AddUser, Stations
<1>3. CASE AddTenant(s)
  <2>1. up[s].pc = "named" /\ s \in Running
    BY <1>3 DEF AddTenant, Running
  <2>2. (\E t \in Committed : up[t].slug = up[s].slug) => s \in rivals
    BY <2>1 DEF AccountsInv, TakenByRival
  <2> QED
    BY <1>3, <2>1, <2>2, SignupSteps DEF AddTenant, Stations
<1>4. CASE EndSignup(s)
  BY <1>4, SignupSteps DEF EndSignup, Running, Stations
<1>5. CASE SignupFails(s)
  BY <1>5, SignupSteps DEF SignupFails, Running, Stations
<1> QED
  BY <1>1, <1>2, <1>3, <1>4, <1>5

\* Tokens, and an operator
LEMMA TokensKeep ==
  ASSUME AccountsInv,
         \/ \E s \in Signups : Disable(s) \/ \E b \in Browsers : SignedUp(b, s) \/ Login(b, s)
         \/ \E b \in Browsers : Refresh(b) \/ Expire(b, "access") \/ Expire(b, "refresh")
         \/ UNCHANGED accountVars
  PROVE  AccountsInv'
<1>1. up' = up /\ rivals' = rivals /\ disabled' \subseteq Committed
  BY DEF Disable, SignedUp, Login, Refresh, Expire, accountVars, AccountsInv, SignupsTyped
<1>2. TokensTyped'
  <2>1. CASE \E s \in Signups : \E b \in Browsers : SignedUp(b, s) \/ Login(b, s)
    BY <2>1 DEF AccountsInv, TokensTyped, SignedUp, Login, BothTokens
  <2>2. CASE \E b \in Browsers : Refresh(b)
    BY <2>2 DEF AccountsInv, TokensTyped, Refresh, BothTokens, IsActive, Committed
  <2>3. CASE \E b \in Browsers : Expire(b, "access")
    BY <2>3 DEF AccountsInv, TokensTyped, Expire, NoToken
  <2>4. CASE \E b \in Browsers : Expire(b, "refresh")
    BY <2>4 DEF AccountsInv, TokensTyped, Expire, NoToken
  <2>5. CASE (\E s \in Signups : Disable(s)) \/ UNCHANGED accountVars
    BY <2>5 DEF AccountsInv, TokensTyped, Disable, accountVars
  <2> QED
    BY <2>1, <2>2, <2>3, <2>4, <2>5
<1> QED
  BY <1>1, <1>2 DEF AccountsInv, SignupsTyped, Owned, TakenByRival, FailsOnlyBesideRival, Committed, Running, EmailTaken

LEMMA AccountsKeep == AccountsInv /\ [AccountsNext]_accountVars => AccountsInv'
  BY AskKeeps, ChooseSlugKeeps, SignupKeeps, TokensKeep DEF AccountsNext, SignupStep

\* However many sign-ups run beside each other: one account for each e-mail, one
\* workspace for each slug, and nobody but a rival makes a sign-up fail.
THEOREM AccountsAreUnique == AccountsSpec => []AccountsSafe
<1> QED
  BY AccountsStart, AccountsKeep, AccountsInvIsSafe, PTL DEF AccountsSpec

----------------------------------------------------------------------------
(*************************************************************************)
(* The outbox: what is announced is committed.                           *)
(*************************************************************************)

USE ChatsAssumption, BoundAssumption

\* What the hook hands over is committed because of three facts.  A session
\* queues its own rows only; one that is not a chat is never left with a broken
\* transaction; and once its COMMIT has returned its rows are stored.
OwnRows == \A s \in Sessions : \A r \in session[s].pending : r[1] = s
Unbroken == \A s \in Sessions \ Chats : session[s].tx = "live"
CommittedIsStored ==
  \A s \in Sessions : session[s].pc = "committed" => session[s].mine \subseteq stored
IInv ==
  TypeOK /\ OwnRows /\ Unbroken /\ CommittedIsStored /\ OnlyCommittedAnnounced

SessionType == [pc : {"closed", "open", "committed"}, tx : {"live", "aborted", "inactive"},
                mine : SUBSET Rows, pending : SUBSET Rows]

LEMMA InvInit == Init => IInv
  BY DEF Init, Closed, IInv, TypeOK, OwnRows, Unbroken, CommittedIsStored, OnlyCommittedAnnounced

\* A step that leaves the sets alone and replaces at most one session keeps
\* the invariant if the new session is sound.
LEMMA OneSession ==
  ASSUME IInv, NEW s \in Sessions, NEW new \in SessionType,
         session' = [session EXCEPT ![s] = new], Quiet,
         new.tx = "live" => new.pending = new.mine,
         \A r \in new.pending : r[1] = s,
         s \notin Chats => new.tx = "live",
         new.pc = "committed" => new.mine \subseteq stored
  PROVE  IInv'
  BY DEF Quiet, SessionType, IInv, TypeOK, OwnRows, Unbroken, CommittedIsStored,
         OnlyCommittedAnnounced

\* A session that ends loses at most what it had stored.
LEMMA UnannouncedIsStored ==
  ASSUME IInv, NEW s \in Sessions
  PROVE  Unannounced(s) \subseteq stored
  BY DEF IInv, CommittedIsStored, Unannounced

LEMMA ClosedIsSound ==
  /\ Closed \in SessionType
  /\ Closed.tx = "live" /\ Closed.pc = "closed" /\ Closed.mine = {} /\ Closed.pending = {}
  BY DEF Closed, SessionType

LEMMA InvStep == IInv /\ [Next]_vars => IInv'
<1> SUFFICES ASSUME IInv, [Next]_vars PROVE IInv'
  OBVIOUS
<1>s. session \in [Sessions -> SessionType]
  BY DEF IInv, TypeOK, SessionType
\* A session that is closed without a commit takes nothing with it.
<1>c. ASSUME NEW s \in Sessions, Close(s), Quiet PROVE IInv'
  BY <1>c, OneSession, ClosedIsSound DEF Close
<1>1. ASSUME NEW s \in Sessions, Begin(s) PROVE IInv'
  <2> DEFINE new == [session[s] EXCEPT !.pc = "open"]
  <2>1. session' = [session EXCEPT ![s] = new] /\ Quiet
    BY <1>1, <1>s DEF Begin, SessionType
  <2>2. new \in SessionType /\ new.pc = "open" /\ new.tx = session[s].tx
        /\ new.mine = session[s].mine /\ new.pending = session[s].pending
    BY <1>s DEF SessionType
  <2> HIDE DEF new
  <2>3. /\ new.tx = "live" => new.pending = new.mine
        /\ \A r \in new.pending : r[1] = s
        /\ s \notin Chats => new.tx = "live"
        /\ new.pc # "committed"
    BY <2>2 DEF IInv, TypeOK, OwnRows, Unbroken
  <2> QED
    BY <2>1, <2>2, <2>3, OneSession
<1>2. ASSUME NEW s \in Sessions, NEW n \in 1 .. MaxRows, Write(s, n) PROVE IInv'
  <2> DEFINE r == <<s, n>>
             new == [session[s] EXCEPT !.mine = @ \union {r}, !.pending = @ \union {r}]
  <2>1. r \in Rows /\ r[1] = s
    BY DEF Rows
  <2>2. session' = [session EXCEPT ![s] = new] /\ Quiet
    BY <1>2, <1>s DEF Write, HandedOnWrite, Quiet, SessionType
  <2>3. /\ new \in SessionType /\ new.pc = session[s].pc /\ new.tx = session[s].tx
        /\ new.mine = session[s].mine \union {r}
        /\ new.pending = session[s].pending \union {r}
    BY <2>1, <1>s DEF SessionType
  <2>4. session[s].pc = "open"
    BY <1>2 DEF Write
  <2> HIDE DEF new, r
  <2>5. /\ new.tx = "live" => new.pending = new.mine
        /\ \A q \in new.pending : q[1] = s
        /\ s \notin Chats => new.tx = "live"
        /\ new.pc # "committed"
    BY <2>1, <2>3, <2>4 DEF IInv, TypeOK, OwnRows, Unbroken
  <2> QED
    BY <2>2, <2>3, <2>5, OneSession
\* After an error only a chat goes on, and in a transaction that is not live.
<1>3. ASSUME NEW s \in Sessions, NEW tx \in {"inactive", "aborted"},
             NEW pending \in {{}, session[s].pending},
             Fails(s, [session[s] EXCEPT !.tx = tx, !.mine = {}, !.pending = pending])
      PROVE  IInv'
  <2> DEFINE left == [session[s] EXCEPT !.tx = tx, !.mine = {}, !.pending = pending]
  <2>1. /\ left \in SessionType /\ left.pc = session[s].pc /\ left.tx = tx
        /\ left.mine = {} /\ left.pending = pending
    BY <1>s DEF SessionType
  <2>2. CASE s \in Chats
    <3>1. session' = [session EXCEPT ![s] = left] /\ Quiet
      BY <1>3, <2>2 DEF Fails
    <3> HIDE DEF left
    <3>2. /\ left.tx # "live"
          /\ \A r \in left.pending : r[1] = s
          /\ left.pc = "committed" => left.mine \subseteq stored
      BY <2>1 DEF IInv, OwnRows
    <3> QED
      BY <2>1, <2>2, <3>1, <3>2, OneSession
  <2>3. CASE s \notin Chats
    BY <1>3, <2>3, <1>c DEF Fails, Close
  <2> QED
    BY <2>2, <2>3
<1>4. ASSUME NEW s \in Sessions, FlushFails(s) \/ QueryFails(s) PROVE IInv'
  <2>1. CASE FlushFails(s)
    BY <2>1, <1>3 DEF FlushFails
  <2>2. CASE QueryFails(s)
    <3>1. [session[s] EXCEPT !.tx = "aborted", !.mine = {}]
          = [session[s] EXCEPT !.tx = "aborted", !.mine = {}, !.pending = session[s].pending]
      BY <1>s DEF SessionType
    <3> QED
      BY <2>2, <3>1, <1>3 DEF QueryFails
  <2> QED
    BY <1>4, <2>1, <2>2
<1>5. ASSUME NEW s \in Sessions, Commit(s) PROVE IInv'
  BY <1>5, <1>s DEF Commit, SessionType, IInv, TypeOK, OwnRows, Unbroken, CommittedIsStored,
                    OnlyCommittedAnnounced
<1>6. ASSUME NEW s \in Sessions, CommitRefused(s) \/ Rollback(s) PROVE IInv'
  BY <1>6, <1>c DEF CommitRefused, Rollback
<1>7. ASSUME NEW s \in Sessions, AfterCommit(s) PROVE IInv'
  <2>1. session[s].pc = "committed" /\ session' = [session EXCEPT ![s] = Closed]
        /\ handed' = handed \union session[s].pending
        /\ tasks' = tasks \union session[s].pending
        /\ UNCHANGED <<stored, lost, serving>>
    BY <1>7 DEF AfterCommit, Emitted, Close
  <2>2. \A r \in session[s].pending \ stored : r[1] \in Chats
    BY <2>1, <1>s DEF IInv, TypeOK, OwnRows, Unbroken, CommittedIsStored
  <2>3. session[s].pending \subseteq Rows
    BY <1>s DEF SessionType
  <2> QED
    BY <2>1, <2>2, <2>3, ClosedIsSound
    DEF IInv, SessionType, TypeOK, OwnRows, Unbroken, CommittedIsStored, OnlyCommittedAnnounced
<1>8. ASSUME NEW s \in Sessions, Break(s) PROVE IInv'
  <2>1. session' = [session EXCEPT ![s] = Closed] /\ lost' \subseteq stored
        /\ UNCHANGED <<stored, handed, tasks, serving>>
    BY <1>8, UnannouncedIsStored DEF Break, Close, IInv, TypeOK
  <2> QED
    BY <2>1, ClosedIsSound
    DEF IInv, SessionType, TypeOK, OwnRows, Unbroken, CommittedIsStored, OnlyCommittedAnnounced
<1>9. ASSUME NEW r \in Rows, Finish(r) PROVE IInv'
  BY <1>9 DEF Finish, IInv, TypeOK, OwnRows, Unbroken, CommittedIsStored, OnlyCommittedAnnounced
<1>10. CASE Shutdown \/ Restart
  BY <1>10 DEF Shutdown, Restart, IInv, TypeOK, OwnRows, Unbroken, CommittedIsStored,
               OnlyCommittedAnnounced
<1>11. CASE Crash
  <2>1. /\ session' = [s \in Sessions |-> Closed] /\ lost' \subseteq stored
        /\ tasks' = {} /\ serving' = FALSE /\ UNCHANGED <<stored, handed>>
    BY <1>11, UnannouncedIsStored DEF Crash, IInv, TypeOK
  <2> QED
    BY <2>1, ClosedIsSound
    DEF IInv, SessionType, TypeOK, OwnRows, Unbroken, CommittedIsStored, OnlyCommittedAnnounced
<1>12. CASE UNCHANGED vars
  BY <1>12 DEF vars, IInv, TypeOK, OwnRows, Unbroken, CommittedIsStored, OnlyCommittedAnnounced
<1> QED
  BY <1>1, <1>2, <1>4, <1>5, <1>6, <1>7, <1>8, <1>9, <1>10, <1>11, <1>12 DEF Next

LEMMA InvHolds == Spec => []IInv
<1> QED
  BY InvInit, InvStep, PTL DEF Spec

\* The outbox keeps its shape, and what is queued in a live transaction is
\* exactly what it has written.
THEOREM TypeCorrect == Spec => []TypeOK
<1>1. IInv => TypeOK
  BY DEF IInv
<1> QED
  BY <1>1, InvHolds, PTL

\* Whatever fails, and wherever a session or the process ends, an event that
\* is handed to a delivery and is not a chat's is of a row in the database.
THEOREM OnlyCommittedIsAnnounced == Spec => []OnlyCommittedAnnounced
<1>1. IInv => OnlyCommittedAnnounced
  BY DEF IInv
<1> QED
  BY <1>1, InvHolds, PTL

============================================================================

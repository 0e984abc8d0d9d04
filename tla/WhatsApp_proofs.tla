--------------------------- MODULE WhatsApp_proofs ---------------------------
(***************************************************************************)
(* Proofs about the WhatsApp channel, for any number of messages, tasks,   *)
(* managers and gateways: that messages are answered once and truly, that  *)
(* the agent is never shown an answer without its question, and that row   *)
(* and gateway agree.                                                      *)
(***************************************************************************)
EXTENDS WhatsAppInbound, WhatsAppMemory, WhatsAppLink, FiniteSetTheorems, SequenceTheorems, TLAPS

----------------------------------------------------------------------------
(* WhatsAppInbound                                                         *)

\* The tasks on their way to an answer of this message.
OnTheWay(m) == {h \in Handlers : handler[h].pc \in {"load", "chat", "send"} /\ m \in handler[h].msg}

\* An answer costs the key in Redis, which outlives the event, or an outage.
Allowed(m) == (IF m \in seen \/ m \notin fresh THEN 1 ELSE 0) + unchecked[m]

AnswersCounted == \A m \in Messages : sent[m] + Cardinality(OnTheWay(m)) <= Allowed(m)

Task == [pc : {"free", "new", "load", "chat", "send", "commit", "done"},
         msg : SUBSET Messages, conn : 0 .. MaxConnections,
         flushed : BOOLEAN, dead : BOOLEAN, books : BOOLEAN, replied : BOOLEAN]

\* What a task has behind it, by where it stands: a booking is flushed with the
\* connection's row, which stays locked up to the commit.
InOrder(t, answers, bookings) ==
  /\ t.pc # "free" => \E m \in Messages : t.msg = {m}
  /\ t.pc \in {"free", "new", "load", "chat"} => ~t.flushed /\ ~t.dead /\ ~t.books /\ ~t.replied
  /\ t.pc \in {"send", "commit"} /\ t.books => t.flushed /\ ~t.dead
  /\ t.pc = "done" => ~t.flushed
  /\ t.pc = "done" /\ t.books /\ t.replied => t.msg \subseteq bookings
  /\ t.replied => \A m \in t.msg : answers[m] > 0

TasksInOrder == \A h \in Handlers : InOrder(handler[h], sent, booked)

WorldTyped ==
  /\ fresh \subseteq Messages /\ seen \subseteq Messages
  /\ unchecked \in [Messages -> 0 .. MaxOutages]
  /\ connected \in BOOLEAN /\ current \in 1 .. MaxConnections
  /\ via \in [Messages -> 0 .. MaxConnections]
  /\ sent \in [Messages -> Nat]
  /\ log \subseteq Messages \X {"in", "out"}
  /\ booked \subseteq Messages

RecordsInv == InboundTypeOK /\ TasksInOrder /\ LogIsTrue
InboundInv == RecordsInv /\ AnswersCounted

----------------------------------------------------------------------------
\* Counting the tasks on their way

LEMMA OnTheWayCounted ==
  ASSUME NEW m
  PROVE  IsFiniteSet(OnTheWay(m)) /\ Cardinality(OnTheWay(m)) \in Nat
<1>1. OnTheWay(m) \subseteq Handlers
  BY DEF OnTheWay
<1> QED
  BY <1>1, BoundAssumption, FS_Subset, FS_CardinalityType

\* Who starts may be one more.
LEMMA OneMore ==
  ASSUME NEW m, NEW h \in Handlers, OnTheWay(m)' \subseteq OnTheWay(m) \union {h}
  PROVE  Cardinality(OnTheWay(m)') \in Nat /\ Cardinality(OnTheWay(m)') <= Cardinality(OnTheWay(m)) + 1
<1>1. IsFiniteSet(OnTheWay(m)) /\ Cardinality(OnTheWay(m)) \in Nat
  BY OnTheWayCounted
<1>2. /\ IsFiniteSet(OnTheWay(m) \union {h})
      /\ Cardinality(OnTheWay(m) \union {h}) =
           IF h \in OnTheWay(m) THEN Cardinality(OnTheWay(m)) ELSE Cardinality(OnTheWay(m)) + 1
  BY <1>1, FS_AddElement
<1>3. /\ Cardinality(OnTheWay(m)') \in Nat
      /\ Cardinality(OnTheWay(m)') <= Cardinality(OnTheWay(m) \union {h})
  BY <1>2, FS_Subset, FS_CardinalityType
<1> QED
  BY <1>1, <1>2, <1>3

LEMMA NoMore ==
  ASSUME NEW m, OnTheWay(m)' \subseteq OnTheWay(m)
  PROVE  Cardinality(OnTheWay(m)') \in Nat /\ Cardinality(OnTheWay(m)') <= Cardinality(OnTheWay(m))
<1>1. IsFiniteSet(OnTheWay(m)) /\ Cardinality(OnTheWay(m)) \in Nat
  BY OnTheWayCounted
<1> QED
  BY <1>1, FS_Subset, FS_CardinalityType

LEMMA OneLess ==
  ASSUME NEW m, NEW h \in OnTheWay(m), OnTheWay(m)' \subseteq OnTheWay(m) \ {h}
  PROVE  Cardinality(OnTheWay(m)') \in Nat /\ Cardinality(OnTheWay(m)') <= Cardinality(OnTheWay(m)) - 1
<1>1. /\ IsFiniteSet(OnTheWay(m) \ {h})
      /\ Cardinality(OnTheWay(m) \ {h}) = Cardinality(OnTheWay(m)) - 1
  BY OnTheWayCounted, FS_RemoveElement
<1> QED
  BY <1>1, OnTheWayCounted, FS_Subset, FS_CardinalityType

----------------------------------------------------------------------------
\* Each step keeps the records and the tasks in order

LEMMA RecordsInit == InboundInit => RecordsInv
<1> SUFFICES ASSUME InboundInit PROVE RecordsInv
  OBVIOUS
<1>1. InboundTypeOK
  BY BoundAssumption DEF InboundInit, InboundTypeOK, FreeTask
<1>2. TasksInOrder /\ LogIsTrue
  BY DEF InboundInit, TasksInOrder, InOrder, LogIsTrue, FreeTask
<1> QED
  BY <1>1, <1>2 DEF RecordsInv

LEMMA TaskFacts ==
  ASSUME RecordsInv, NEW h \in Handlers
  PROVE  WorldTyped /\ handler[h] \in Task /\ InOrder(handler[h], sent, booked)
  BY DEF RecordsInv, InboundTypeOK, WorldTyped, Task, TasksInOrder

LEMMA FreeTaskFacts == FreeTask \in Task /\ ~FreeTask.flushed /\ FreeTask.pc = "free"
  BY BoundAssumption DEF FreeTask, Task

\* A step of one task: it holds the row only if that is there and nobody else does.
LEMMA OneTaskMoves ==
  ASSUME RecordsInv, NEW h \in Handlers, NEW t \in Task, Set(h, t),
         WorldTyped', LogIsTrue', connected' = connected, current' = current,
         \A m \in Messages : sent[m] > 0 => sent'[m] > 0, booked \subseteq booked',
         t.flushed => connected /\ current = t.conn /\ ~RowLocked({h}),
         InOrder(t, sent', booked')
  PROVE  RecordsInv'
<1>1. handler \in [Handlers -> Task]
  BY DEF RecordsInv, InboundTypeOK, Task
<1>2. /\ handler' \in [Handlers -> Task] /\ handler'[h] = t
      /\ \A g \in Handlers \ {h} : handler'[g] = handler[g]
  BY <1>1 DEF Set
<1>3. \A g \in Handlers : handler'[g].flushed => RowExists(g)' /\ ~RowLocked({g})'
  BY <1>2 DEF RecordsInv, InboundTypeOK, RowExists, RowLocked
<1>4. InboundTypeOK'
  BY <1>2, <1>3 DEF InboundTypeOK, WorldTyped, Task
<1>5. TasksInOrder'
  <2> SUFFICES ASSUME NEW g \in Handlers PROVE InOrder(handler'[g], sent', booked')
    BY DEF TasksInOrder
  <2>1. CASE g = h
    BY <1>2, <2>1
  <2>2. CASE g # h
    <3>1. handler'[g] = handler[g] /\ handler[g].msg \subseteq Messages /\ InOrder(handler[g], sent, booked)
      BY <1>1, <1>2, <2>2 DEF RecordsInv, TasksInOrder, Task
    <3> QED
      BY <3>1 DEF InOrder
  <2> QED
    BY <2>1, <2>2
<1> QED
  BY <1>4, <1>5 DEF RecordsInv

\* A step of one task that leaves the records and the replies as they are.
LEMMA OneTaskMovesQuietly ==
  ASSUME RecordsInv, NEW h \in Handlers, NEW t \in Task, Set(h, t), WorldTyped',
         connected' = connected, current' = current, sent' = sent, log' = log, booked' = booked,
         t.flushed => connected /\ current = t.conn /\ ~RowLocked({h}),
         InOrder(t, sent, booked)
  PROVE  RecordsInv'
<1>1. LogIsTrue'
  BY DEF RecordsInv, LogIsTrue
<1> QED
  BY <1>1, OneTaskMoves

LEMMA ReceiveRecords ==
  ASSUME RecordsInv, NEW h \in Handlers, NEW m \in Messages, Receive(h, m)
  PROVE  RecordsInv'
<1> DEFINE t == [FreeTask EXCEPT !.pc = "new", !.msg = {m}, !.conn = current]
<1>1. /\ Set(h, t) /\ via' = [via EXCEPT ![m] = IF m \in fresh THEN current ELSE 0]
      /\ fresh' = fresh /\ seen' = seen /\ unchecked' = unchecked /\ connected' = connected
      /\ current' = current /\ sent' = sent /\ log' = log /\ booked' = booked
  BY DEF Receive, redis, records
<1>2. current \in 0 .. MaxConnections /\ {m} \in SUBSET Messages /\ WorldTyped
  BY TaskFacts, BoundAssumption DEF WorldTyped
<1>3. WorldTyped'
  BY <1>1, <1>2, BoundAssumption DEF WorldTyped
<1>4. t \in Task /\ t.pc = "new" /\ t.msg = {m} /\ ~t.flushed /\ ~t.dead /\ ~t.books /\ ~t.replied
  <2>1. ~FreeTask.dead /\ ~FreeTask.books /\ ~FreeTask.replied
    BY DEF FreeTask
  <2> QED
    BY <1>2, <2>1, FreeTaskFacts DEF Task
<1> HIDE DEF t
<1>5. InOrder(t, sent, booked)
  BY <1>4 DEF InOrder
<1> QED
  BY <1>1, <1>3, <1>4, <1>5, OneTaskMovesQuietly

\* Failures, and whatever else ends a task.
LEMMA EndTaskRecords ==
  ASSUME RecordsInv, NEW h \in Handlers, EndTask(h), UNCHANGED <<fresh, redis, link, sent, records>>
  PROVE  RecordsInv'
<1>1. Set(h, FreeTask) /\ WorldTyped'
  BY TaskFacts DEF EndTask, WorldTyped, redis, link, records
<1>2. InOrder(FreeTask, sent, booked)
  BY DEF InOrder, FreeTask
<1> QED
  BY <1>1, <1>2, FreeTaskFacts, OneTaskMovesQuietly DEF link, records

LEMMA TakeRecords ==
  ASSUME RecordsInv, NEW h \in Handlers, Take(h) \/ TakeUnchecked(h)
  PROVE  RecordsInv'
<1>1. CASE EndTask(h) /\ UNCHANGED <<fresh, redis, link, sent, records>>
  BY <1>1, EndTaskRecords
<1>2. CASE Set(h, [handler[h] EXCEPT !.pc = "load"])
  <2> DEFINE t == [handler[h] EXCEPT !.pc = "load"]
  <2>1. WorldTyped /\ handler[h] \in Task /\ InOrder(handler[h], sent, booked) /\ handler[h].pc = "new"
    BY TaskFacts DEF Take, TakeUnchecked, Stands
  <2>2. /\ t \in Task /\ t.pc = "load" /\ t.msg = handler[h].msg /\ t.flushed = handler[h].flushed
        /\ t.dead = handler[h].dead /\ t.books = handler[h].books /\ t.replied = handler[h].replied
    BY <2>1 DEF Task
  <2>3. /\ fresh' = fresh /\ connected' = connected /\ current' = current /\ via' = via
        /\ sent' = sent /\ log' = log /\ booked' = booked
    BY DEF Take, TakeUnchecked, link, records
  <2>4. seen' \subseteq Messages /\ unchecked' \in [Messages -> 0 .. MaxOutages]
    BY <2>1, BoundAssumption DEF Take, TakeUnchecked, WorldTyped, Task
  <2>5. WorldTyped'
    BY <2>1, <2>3, <2>4 DEF WorldTyped
  <2> HIDE DEF t
  <2>6. InOrder(t, sent, booked) /\ ~t.flushed
    BY <2>1, <2>2 DEF InOrder
  <2> QED
    BY <1>2, <2>2, <2>3, <2>5, <2>6, OneTaskMovesQuietly DEF t
<1> QED
  BY <1>1, <1>2 DEF Take, TakeUnchecked, redis

\* The steps between: what the task has written is unchanged.
LEMMA GoOnRecords ==
  ASSUME RecordsInv, NEW h \in Handlers, NEW pc \in {"chat", "send", "commit"},
         Set(h, [handler[h] EXCEPT !.pc = pc]),
         \/ handler[h].pc \in {"load", "chat"}
         \/ handler[h].pc = "send" /\ pc = "commit",
         UNCHANGED <<fresh, redis, link, sent, records>>
  PROVE  RecordsInv'
<1> DEFINE t == [handler[h] EXCEPT !.pc = pc]
<1>1. WorldTyped /\ handler[h] \in Task /\ InOrder(handler[h], sent, booked)
  BY TaskFacts
<1>2. /\ t \in Task /\ t.pc = pc /\ t.msg = handler[h].msg /\ t.conn = handler[h].conn
      /\ t.flushed = handler[h].flushed
      /\ t.dead = handler[h].dead /\ t.books = handler[h].books /\ t.replied = handler[h].replied
  BY <1>1 DEF Task
<1>3. WorldTyped'
  BY <1>1 DEF WorldTyped, redis, link, records
<1> HIDE DEF t
<1>4. InOrder(t, sent, booked)
  BY <1>1, <1>2 DEF InOrder
<1>5. t.flushed => connected /\ current = t.conn /\ ~RowLocked({h})
  BY <1>2 DEF RecordsInv, InboundTypeOK, RowExists
<1> QED
  BY <1>2, <1>3, <1>4, <1>5, OneTaskMovesQuietly DEF t, link, records

LEMMA ChatBooksRecords ==
  ASSUME RecordsInv, NEW h \in Handlers, ChatBooks(h)
  PROVE  RecordsInv'
<1> DEFINE t == [handler[h] EXCEPT !.pc = "send", !.flushed = RowExists(h),
                                   !.books = RowExists(h), !.dead = ~RowExists(h)]
<1>1. /\ Set(h, t) /\ handler[h].pc = "chat" /\ ~RowLocked({h})
      /\ UNCHANGED <<fresh, redis, link, sent, records>>
  BY DEF ChatBooks, Flushed, Stands
<1>2. WorldTyped /\ handler[h] \in Task /\ InOrder(handler[h], sent, booked)
  BY TaskFacts
<1>3. RowExists(h) \in BOOLEAN /\ (RowExists(h) => connected /\ current = handler[h].conn)
  BY <1>2 DEF RowExists, WorldTyped
<1>4. /\ t \in Task /\ t.pc = "send" /\ t.msg = handler[h].msg /\ t.conn = handler[h].conn
      /\ t.flushed = RowExists(h) /\ t.dead = ~RowExists(h) /\ t.books = RowExists(h)
      /\ t.replied = handler[h].replied
  BY <1>2, <1>3 DEF Task
<1>5. WorldTyped'
  BY <1>1, <1>2 DEF WorldTyped, redis, link, records
<1> HIDE DEF t
<1>6. InOrder(t, sent, booked)
  BY <1>1, <1>2, <1>4 DEF InOrder
<1> QED
  BY <1>1, <1>3, <1>4, <1>5, <1>6, OneTaskMovesQuietly DEF link, records

LEMMA SendRecords ==
  ASSUME RecordsInv, NEW h \in Handlers, Send(h)
  PROVE  RecordsInv'
<1> DEFINE t == [handler[h] EXCEPT !.pc = "commit", !.replied = TRUE]
<1>1. WorldTyped /\ handler[h] \in Task /\ InOrder(handler[h], sent, booked) /\ handler[h].pc = "send"
  BY TaskFacts DEF Send, Stands
<1>2. PICK m \in Messages : handler[h].msg = {m}
  BY <1>1 DEF InOrder
<1>3. /\ Set(h, t) /\ sent' = [sent EXCEPT ![m] = @ + 1]
      /\ UNCHANGED <<fresh, redis, link, records>>
  BY <1>2 DEF Send
<1>4. /\ t \in Task /\ t.pc = "commit" /\ t.msg = {m} /\ t.conn = handler[h].conn
      /\ t.flushed = handler[h].flushed /\ t.dead = handler[h].dead /\ t.books = handler[h].books
  BY <1>1, <1>2 DEF Task
<1>5. WorldTyped' /\ sent' \in [Messages -> Nat]
  BY <1>1, <1>3 DEF WorldTyped, redis, link, records
<1>6. sent'[m] > 0 /\ \A n \in Messages : sent[n] > 0 => sent'[n] > 0
  BY <1>1, <1>3 DEF WorldTyped
<1>7. LogIsTrue'
  BY <1>1, <1>3, <1>6 DEF RecordsInv, LogIsTrue, WorldTyped, records
<1> HIDE DEF t
<1>8. InOrder(t, sent', booked')
  BY <1>1, <1>4, <1>6 DEF InOrder
<1>9. t.flushed => connected /\ current = t.conn /\ ~RowLocked({h})
  BY <1>4 DEF RecordsInv, InboundTypeOK, RowExists
<1> QED
  BY <1>3, <1>4, <1>5, <1>6, <1>7, <1>8, <1>9, OneTaskMoves DEF link, records

\* What the commit writes was said, and what it does not write was not booked.
LEMMA CommitRecords ==
  ASSUME RecordsInv, NEW h \in Handlers, CommitTurn(h) \/ CommitTurnFails(h)
  PROVE  RecordsInv'
<1> DEFINE t == [handler[h] EXCEPT !.pc = "done", !.flushed = FALSE]
<1>1. /\ WorldTyped /\ handler[h] \in Task /\ InOrder(handler[h], sent, booked) /\ handler[h].pc = "commit"
      /\ handler[h].flushed => RowExists(h)
  BY TaskFacts DEF CommitTurn, CommitTurnFails, Stands, RecordsInv, InboundTypeOK
<1>2. PICK m \in Messages : handler[h].msg = {m}
  BY <1>1 DEF InOrder
<1>3. Set(h, t) /\ UNCHANGED <<fresh, redis, link, sent>>
  BY DEF CommitTurn, CommitTurnFails
<1>4. /\ t \in Task /\ t.pc = "done" /\ t.msg = {m} /\ ~t.flushed
      /\ t.books = handler[h].books /\ t.replied = handler[h].replied
  BY <1>1, <1>2 DEF Task
<1>5. \/ /\ log' = log \union ({m} \X (IF handler[h].replied THEN {"in", "out"} ELSE {"in"}))
         /\ booked' = IF handler[h].books THEN booked \union {m} ELSE booked
      \/ log' = log /\ booked' = booked /\ ~handler[h].books
  <2>1. CASE CommitTurn(h)
    BY <1>2, <2>1 DEF CommitTurn, LoggedRows
  <2>2. CASE CommitTurnFails(h)
    BY <1>1, <2>2 DEF CommitTurnFails, InOrder, records
  <2> QED
    BY <2>1, <2>2
<1>6. WorldTyped'
  BY <1>1, <1>3, <1>5 DEF WorldTyped, redis, link
<1>7. LogIsTrue'
  BY <1>1, <1>2, <1>3, <1>5 DEF RecordsInv, LogIsTrue, InOrder, WorldTyped
<1> HIDE DEF t
<1>8. InOrder(t, sent', booked')
  BY <1>1, <1>2, <1>3, <1>4, <1>5 DEF InOrder
<1> QED
  BY <1>3, <1>4, <1>5, <1>6, <1>7, <1>8, OneTaskMoves DEF link

LEMMA AroundRecords ==
  ASSUME RecordsInv,
         \/ \E m \in Messages : EventAges(m) \/ Forget(m)
         \/ Disconnect \/ Connect \/ UNCHANGED inboundVars
  PROVE  RecordsInv'
<1>1. /\ handler' = handler /\ sent' = sent /\ log' = log /\ booked' = booked /\ unchecked' = unchecked
      /\ fresh' \subseteq fresh /\ seen' \subseteq seen
      /\ \A m \in Messages : via'[m] \in {0, via[m]}
  BY DEF EventAges, Forget, Disconnect, Connect, inboundVars, redis, link, records, RecordsInv, InboundTypeOK
<1>2. /\ via' \in [Messages -> 0 .. MaxConnections]
      /\ connected' \in BOOLEAN /\ current' \in 1 .. MaxConnections
  <2>1. CASE \E m \in Messages : EventAges(m)
    BY <2>1, BoundAssumption DEF EventAges, RecordsInv, InboundTypeOK
  <2>2. CASE Connect
    BY <2>2 DEF Connect, RecordsInv, InboundTypeOK
  <2>3. CASE (\E m \in Messages : Forget(m)) \/ Disconnect \/ UNCHANGED inboundVars
    BY <2>3 DEF Forget, Disconnect, inboundVars, link, RecordsInv, InboundTypeOK
  <2> QED
    BY <2>1, <2>2, <2>3
<1>3. \/ connected' = connected /\ current' = current
      \/ ~RowLocked({})
      \/ ~connected
  BY DEF EventAges, Forget, Disconnect, Connect, inboundVars, redis, link
<1>4. \A h \in Handlers : handler'[h].flushed => RowExists(h)' /\ ~RowLocked({h})'
  BY <1>1, <1>3 DEF RecordsInv, InboundTypeOK, RowExists, RowLocked
<1>5. InboundTypeOK'
  BY <1>1, <1>2, <1>4 DEF RecordsInv, InboundTypeOK
<1>6. TasksInOrder' /\ LogIsTrue'
  BY <1>1 DEF RecordsInv, TasksInOrder, LogIsTrue
<1> QED
  BY <1>5, <1>6 DEF RecordsInv

LEMMA HandlingRecords ==
  ASSUME RecordsInv, NEW h \in Handlers, Handle(h)
  PROVE  RecordsInv'
<1>1. CASE Take(h) \/ TakeUnchecked(h) \/ \E m \in Messages : Receive(h, m)
  BY <1>1, ReceiveRecords, TakeRecords
<1>2. CASE Load(h)
  BY <1>2, EndTaskRecords, GoOnRecords DEF Load, Stands
<1>3. CASE Reply(h) \/ SendFails(h)
  BY <1>3, GoOnRecords DEF Reply, SendFails, Stands
<1>4. CASE ChatFails(h) \/ Finish(h) \/ Break(h)
  BY <1>4, EndTaskRecords DEF ChatFails, Finish, Break
<1>5. CASE ChatBooks(h) \/ Send(h) \/ CommitTurn(h) \/ CommitTurnFails(h)
  BY <1>5, ChatBooksRecords, SendRecords, CommitRecords
<1> QED
  BY <1>1, <1>2, <1>3, <1>4, <1>5 DEF Handle

----------------------------------------------------------------------------
\* Each step keeps the answers counted

LEMMA CountTypes ==
  ASSUME InboundTypeOK, NEW m \in Messages
  PROVE  sent[m] \in Nat /\ unchecked[m] \in Nat
  BY BoundAssumption DEF InboundTypeOK

\* A step that neither answers nor starts to, nor forgets a key too early.
LEMMA QuietCounts ==
  ASSUME RecordsInv, AnswersCounted, sent' = sent, unchecked' = unchecked,
         \A m \in Messages : m \in seen \/ m \notin fresh => m \in seen' \/ m \notin fresh',
         \A m \in Messages : OnTheWay(m)' \subseteq OnTheWay(m)
  PROVE  AnswersCounted'
<1> SUFFICES ASSUME NEW m \in Messages
             PROVE  sent'[m] + Cardinality(OnTheWay(m)') <= Allowed(m)'
  BY DEF AnswersCounted
<1>1. sent[m] \in Nat /\ unchecked[m] \in Nat /\ Cardinality(OnTheWay(m)) \in Nat
  BY CountTypes, OnTheWayCounted DEF RecordsInv
<1>2. /\ Cardinality(OnTheWay(m)') \in Nat
      /\ Cardinality(OnTheWay(m)') <= Cardinality(OnTheWay(m))
  BY NoMore
<1> QED
  BY <1>1, <1>2 DEF AnswersCounted, Allowed

LEMMA HandlingQuietly ==
  ASSUME RecordsInv, AnswersCounted, NEW h \in Handlers,
         \/ \E m \in Messages : Receive(h, m)
         \/ Load(h) \/ Reply(h) \/ ChatFails(h) \/ ChatBooks(h) \/ SendFails(h)
         \/ CommitTurn(h) \/ CommitTurnFails(h) \/ Finish(h) \/ Break(h)
  PROVE  AnswersCounted'
<1>1. sent' = sent /\ unchecked' = unchecked /\ seen' = seen /\ fresh' = fresh
  BY DEF Receive, Load, Reply, ChatFails, ChatBooks, SendFails, CommitTurn, CommitTurnFails, Finish, Break, redis
<1>2. \/ handler'[h].pc \notin {"load", "chat", "send"}
      \/ handler[h].pc \in {"load", "chat", "send"} /\ handler'[h].msg = handler[h].msg
  <2> USE DEF RecordsInv, InboundTypeOK, Set, EndTask, Stands
  <2>1. CASE \E m \in Messages : Receive(h, m)
    <3>1. PICK m \in Messages : Set(h, [FreeTask EXCEPT !.pc = "new", !.msg = {m}, !.conn = current])
      BY <2>1 DEF Receive
    <3>2. handler'[h].pc = "new"
      BY <3>1 DEF FreeTask
    <3> QED
      BY <3>2
  <2>2. CASE Load(h)
    BY <2>2 DEF Load, FreeTask
  <2>3. CASE Reply(h) \/ ChatBooks(h)
    BY <2>3 DEF Reply, ChatBooks
  <2>4. CASE SendFails(h) \/ CommitTurn(h) \/ CommitTurnFails(h)
    BY <2>4 DEF SendFails, CommitTurn, CommitTurnFails
  <2>5. CASE ChatFails(h) \/ Finish(h) \/ Break(h)
    BY <2>5 DEF ChatFails, Finish, Break, FreeTask
  <2> QED
    BY <2>1, <2>2, <2>3, <2>4, <2>5
<1>3. \A g \in Handlers \ {h} : handler'[g] = handler[g]
  BY DEF Receive, Load, Reply, ChatFails, ChatBooks, SendFails, CommitTurn, CommitTurnFails, Finish, Break,
         RecordsInv, InboundTypeOK, Set, EndTask
<1>4. \A m \in Messages : OnTheWay(m)' \subseteq OnTheWay(m)
  BY <1>2, <1>3 DEF OnTheWay
<1> QED
  BY <1>1, <1>4, QuietCounts

LEMMA AroundQuietly ==
  ASSUME RecordsInv, AnswersCounted,
         \/ \E m \in Messages : EventAges(m) \/ Forget(m)
         \/ Disconnect \/ Connect \/ UNCHANGED inboundVars
  PROVE  AnswersCounted'
<1>1. /\ sent' = sent /\ unchecked' = unchecked /\ handler' = handler
      /\ \A m \in Messages : m \in seen \/ m \notin fresh => m \in seen' \/ m \notin fresh'
  BY DEF EventAges, Forget, KeyMayExpire, Disconnect, Connect, inboundVars, redis
<1>2. \A m \in Messages : OnTheWay(m)' \subseteq OnTheWay(m)
  BY <1>1 DEF OnTheWay
<1> QED
  BY <1>1, <1>2, QuietCounts

\* A task that sets the key, or finds Redis down, starts what is allowed to it.
LEMMA TakeCounts ==
  ASSUME RecordsInv, AnswersCounted, NEW h \in Handlers, Take(h) \/ TakeUnchecked(h)
  PROVE  AnswersCounted'
<1>1. CASE handler'[h].pc = "free"
  <2>1. /\ sent' = sent /\ unchecked' = unchecked /\ seen' = seen /\ fresh' = fresh
        /\ \A g \in Handlers \ {h} : handler'[g] = handler[g]
    BY <1>1 DEF Take, TakeUnchecked, RecordsInv, InboundTypeOK, Set, EndTask
  <2>2. \A m \in Messages : OnTheWay(m)' \subseteq OnTheWay(m)
    BY <1>1, <2>1 DEF OnTheWay
  <2> QED
    BY <2>1, <2>2, QuietCounts
<1>2. CASE handler'[h].pc # "free"
  <2>1. PICK m \in Messages : handler[h].msg = {m}
    BY DEF RecordsInv, TasksInOrder, InOrder, Take, TakeUnchecked, Stands
  <2>2. /\ m \in fresh /\ fresh' = fresh /\ sent' = sent
        /\ \/ m \notin seen /\ seen' = seen \union {m} /\ unchecked' = unchecked
           \/ seen' \in {seen, seen \union {m}} /\ unchecked' = [unchecked EXCEPT ![m] = @ + 1]
    BY <1>2, <2>1 DEF Take, TakeUnchecked, RecordsInv, InboundTypeOK, Set, EndTask, FreeTask
  <2>3. /\ handler'[h].msg = {m}
        /\ \A g \in Handlers \ {h} : handler'[g] = handler[g]
    BY <1>2, <2>1 DEF Take, TakeUnchecked, RecordsInv, InboundTypeOK, Set, EndTask, FreeTask
  <2> SUFFICES ASSUME NEW n \in Messages
               PROVE  sent'[n] + Cardinality(OnTheWay(n)') <= Allowed(n)'
    BY DEF AnswersCounted
  <2>4. /\ sent[n] \in Nat /\ unchecked[n] \in Nat /\ Cardinality(OnTheWay(n)) \in Nat
        /\ unchecked \in [Messages -> 0 .. MaxOutages]
    BY CountTypes, OnTheWayCounted DEF RecordsInv, InboundTypeOK
  <2>5. CASE n = m
    <3>1. OnTheWay(n)' \subseteq OnTheWay(n) \union {h}
      BY <2>3 DEF OnTheWay
    <3>2. Cardinality(OnTheWay(n)') \in Nat /\ Cardinality(OnTheWay(n)') <= Cardinality(OnTheWay(n)) + 1
      BY <3>1, OneMore
    <3>3. Allowed(n)' >= Allowed(n) + 1
      BY <2>2, <2>4, <2>5 DEF Allowed
    <3>4. Allowed(n) \in Nat /\ Allowed(n)' \in Nat
      BY <2>2, <2>4, <2>5 DEF Allowed
    <3> QED
      BY <2>2, <2>4, <3>2, <3>3, <3>4 DEF AnswersCounted
  <2>6. CASE n # m
    <3>1. OnTheWay(n)' \subseteq OnTheWay(n)
      BY <2>3, <2>6 DEF OnTheWay
    <3>2. Cardinality(OnTheWay(n)') \in Nat /\ Cardinality(OnTheWay(n)') <= Cardinality(OnTheWay(n))
      BY <3>1, NoMore
    <3>3. Allowed(n)' = Allowed(n)
      BY <2>2, <2>4, <2>6 DEF Allowed
    <3> QED
      BY <2>2, <2>4, <3>2, <3>3 DEF AnswersCounted, Allowed
  <2> QED
    BY <2>5, <2>6
<1> QED
  BY <1>1, <1>2

\* What is sent was on its way.
LEMMA SendCounts ==
  ASSUME RecordsInv, AnswersCounted, NEW h \in Handlers, Send(h)
  PROVE  AnswersCounted'
<1>1. PICK m \in Messages : handler[h].msg = {m}
  BY DEF RecordsInv, TasksInOrder, InOrder, Send, Stands
<1>2. /\ sent' = [sent EXCEPT ![m] = @ + 1]
      /\ fresh' = fresh /\ seen' = seen /\ unchecked' = unchecked
      /\ handler[h].pc = "send" /\ handler'[h].pc = "commit"
      /\ \A g \in Handlers \ {h} : handler'[g] = handler[g]
  BY <1>1 DEF Send, Stands, Set, redis, RecordsInv, InboundTypeOK
<1> SUFFICES ASSUME NEW n \in Messages
             PROVE  sent'[n] + Cardinality(OnTheWay(n)') <= Allowed(n)'
  BY DEF AnswersCounted
<1>3. /\ sent[n] \in Nat /\ unchecked[n] \in Nat /\ Cardinality(OnTheWay(n)) \in Nat
      /\ sent \in [Messages -> Nat]
  BY CountTypes, OnTheWayCounted DEF RecordsInv, InboundTypeOK
<1>4. CASE n = m
  <2>1. h \in OnTheWay(n) /\ OnTheWay(n)' \subseteq OnTheWay(n) \ {h}
    BY <1>1, <1>2, <1>4 DEF OnTheWay
  <2>2. Cardinality(OnTheWay(n)') \in Nat /\ Cardinality(OnTheWay(n)') <= Cardinality(OnTheWay(n)) - 1
    BY <2>1, OneLess
  <2> QED
    BY <1>2, <1>3, <1>4, <2>2 DEF AnswersCounted, Allowed
<1>5. CASE n # m
  <2>1. OnTheWay(n)' \subseteq OnTheWay(n)
    BY <1>2 DEF OnTheWay
  <2>2. Cardinality(OnTheWay(n)') \in Nat /\ Cardinality(OnTheWay(n)') <= Cardinality(OnTheWay(n))
    BY <2>1, NoMore
  <2> QED
    BY <1>2, <1>3, <1>5, <2>2 DEF AnswersCounted, Allowed
<1> QED
  BY <1>4, <1>5

----------------------------------------------------------------------------

LEMMA InboundStarts == InboundInit => InboundInv
<1> SUFFICES ASSUME InboundInit PROVE AnswersCounted
  BY RecordsInit DEF InboundInv
<1>1. \A m \in Messages : OnTheWay(m) = {} /\ sent[m] = 0 /\ Allowed(m) = 0
  BY DEF InboundInit, OnTheWay, FreeTask, Allowed
<1> QED
  BY <1>1, FS_EmptySet DEF AnswersCounted

LEMMA InboundStep == InboundInv /\ [InboundNext]_inboundVars => InboundInv'
<1> SUFFICES ASSUME RecordsInv, AnswersCounted, [InboundNext]_inboundVars PROVE RecordsInv' /\ AnswersCounted'
  BY DEF InboundInv
<1>1. CASE \E h \in Handlers : Handle(h)
  <2>1. PICK h \in Handlers : Handle(h)
    BY <1>1
  <2>2. RecordsInv'
    BY <2>1, HandlingRecords
  <2>3. AnswersCounted'
    BY <2>1, HandlingQuietly, TakeCounts, SendCounts DEF Handle
  <2> QED
    BY <2>2, <2>3
<1>2. CASE \/ \E m \in Messages : EventAges(m) \/ Forget(m)
           \/ Disconnect \/ Connect \/ UNCHANGED inboundVars
  BY <1>2, AroundRecords, AroundQuietly
<1> QED
  BY <1>1, <1>2 DEF InboundNext

\* However the gateway repeats itself, Redis fails and managers disconnect: a
\* customer gets one answer to a message and at most one more for each outage,
\* and is told and shown nothing but what happened.
THEOREM AnswersAreKept == InboundSpec => []AnswersKept
<1>1. InboundInv => AnswersKept
  <2> SUFFICES ASSUME InboundInv, NEW m \in Messages PROVE sent[m] <= 1 + unchecked[m]
    BY DEF InboundInv, RecordsInv, AnswersKept, AnsweredOnce, ToldIsBooked, TasksInOrder, InOrder, Stands
  <2>1. sent[m] \in Nat /\ unchecked[m] \in Nat /\ Cardinality(OnTheWay(m)) \in Nat
    BY CountTypes, OnTheWayCounted DEF InboundInv, RecordsInv
  <2> QED
    BY <2>1 DEF InboundInv, AnswersCounted, Allowed
<1> QED
  BY InboundStarts, InboundStep, <1>1, PTL DEF InboundSpec

----------------------------------------------------------------------------
(* WhatsAppLink                                                            *)

Row == [id : Connects \union {Nothing}, base : Gateways \union {Nothing},
        by : Connects \union {Nothing}, hook : Connects \union {Nothing}]

Call == [pc : {"idle", "read", "detached", "flushed", "registered"} \union Ended,
         base : Gateways \union {Nothing}, saw : Row,
         id : Connects \union {Nothing}, hook : Connects \union {Nothing}]

\* A row names no connect, or one that is done, and the registration it made.
IsRow(r) ==
  /\ r.by = Nothing => r = NoConn
  /\ r.by # Nothing => Stage(r.by, "done")
  /\ r.hook \in {r.by, Nothing}

\* What a call may rely on while it goes on: the row is the one that it read,
\* unless another call went on beside it; what it detached has not come back;
\* and what it registered is there.
CallOK(m) ==
  LET c == manage[m] IN
    /\ IsRow(c.saw)
    /\ c.saw.by = conn.by => c.saw = conn
    /\ c.saw = conn \/ (m \in overlapped /\ (conn = NoConn \/ conn.by \in overlapped))
    /\ c.pc # "read" => c.saw.hook \notin remote \/ c.saw.hook \in lost
    /\ c.pc = "registered" =>
         m \in remote /\ c.hook \in {m, Nothing} /\ (c.hook = Nothing => m \in lost)

CallsTyped == manage \in [Managers -> Call]
RowInOrder == IsRow(conn)
CallsInOrder == \A m \in UnderWay : CallOK(m)
BesideIsOverlapped == \A m, n \in UnderWay : m # n => m \in overlapped

LinkInv ==
  /\ LinkSound /\ CallsTyped /\ RowInOrder /\ CallsInOrder /\ BesideIsOverlapped

LEMMA LinkStarts == LinkInit => LinkInv
<1> SUFFICES ASSUME LinkInit PROVE LinkInv
  OBVIOUS
<1>1. /\ NoConn \in Row /\ NoManage \in Call
      /\ \A m \in Managers : manage[m] = NoManage
  BY DEF LinkInit, NoConn, NoManage, Row, Call
<1>2. CallsTyped /\ UnderWay = {}
  BY <1>1 DEF LinkInit, CallsTyped, UnderWay, NoManage
<1>3. LinkTypeOK
  BY <1>1, NamesAssumption DEF LinkInit, LinkTypeOK, NoManage, Row
<1>4. ConnectedHears /\ NoStrayRegistration /\ RowIsOneConnect
  BY DEF LinkInit, ConnectedHears, NoStrayRegistration, RowIsOneConnect
<1>5. RowInOrder
  BY DEF LinkInit, RowInOrder, IsRow, NoConn
<1> QED
  BY <1>2, <1>3, <1>4, <1>5 DEF LinkInv, LinkSound, CallsInOrder, BesideIsOverlapped

\* Only a call under way moves, and no other one with it.
Moves(m, c) ==
  /\ manage' = [manage EXCEPT ![m] = c]
  /\ manage[m].pc \notin Ended
  /\ overlapped \subseteq overlapped' /\ lost \subseteq lost'

LEMMA MoveOfOne ==
  ASSUME LinkInv, NEW m \in Managers, NEW c \in Call, Moves(m, c)
  PROVE  /\ CallsTyped' /\ manage'[m] = c
         /\ \A n \in Managers \ {m} : manage'[n] = manage[n]
         /\ \A k \in Managers : Stage(k, "done") => k # m /\ Stage(k, "done")'
         /\ \A n \in UnderWay' : n # m => n \in UnderWay
  BY DEF LinkInv, CallsTyped, Moves, Stage, UnderWay, Ended

LEMMA RowsStand ==
  ASSUME LinkInv, NEW m \in Managers, NEW c \in Call, Moves(m, c), NEW r \in Row, IsRow(r)
  PROVE  IsRow(r)'
<1>1. r.by # Nothing => r.by \in Managers
  BY DEF Row, Managers
<1> QED
  BY <1>1, MoveOfOne DEF IsRow

\* The others may go on relying on what they relied on, if the row stays and
\* only registrations of calls that are done are removed.
LEMMA OthersInOrder ==
  ASSUME LinkInv, NEW m \in Managers, NEW c \in Call, Moves(m, c), conn' = conn,
         remote' \subseteq remote \union {m},
         \A h \in remote \ remote' : Stage(h, "done")
  PROVE  RowInOrder' /\ \A n \in UnderWay' \ {m} : CallOK(n)'
<1>1. conn \in Row
  BY DEF LinkInv, LinkSound, LinkTypeOK, Row
<1>2. RowInOrder'
  BY <1>1, RowsStand DEF LinkInv, RowInOrder
<1>3. ASSUME NEW n \in UnderWay' \ {m} PROVE CallOK(n)'
  <2>1. n \in UnderWay /\ n \in Managers /\ manage'[n] = manage[n] /\ CallOK(n) /\ manage[n].saw \in Row
    BY <1>3, MoveOfOne DEF LinkInv, CallsInOrder, UnderWay, CallsTyped, Call
  <2>2. IsRow(manage[n].saw)'
    BY <2>1, RowsStand DEF CallOK
  <2>3. manage[n].saw.hook \notin remote => manage[n].saw.hook \notin remote'
    <3>1. manage[n].saw.hook # m
      BY <2>1, MoveOfOne, NamesAssumption DEF CallOK, IsRow, Row, Managers
    <3> QED
      BY <3>1
  <2>4. n \in remote /\ manage[n].pc = "registered" => n \in remote'
    BY DEF Stage
  <2> QED
    BY <2>1, <2>2, <2>3, <2>4 DEF CallOK, Moves
<1> QED
  BY <1>2, <1>3

Removers == {"detached", "flushed", "registered", "failed"}

\* A step that leaves the row: what it has to show of its own call.
LEMMA RowStays ==
  ASSUME LinkInv, NEW m \in Managers, NEW c \in Call, Moves(m, c), conn' = conn,
         LinkTypeOK', BesideIsOverlapped', m \in UnderWay' => CallOK(m)',
         remote' \subseteq remote \union {m},
         \A h \in remote \ remote' : Stage(h, "done") /\ h = c.saw.hook /\ c.pc = "detached",
         manage[m].pc = "registered" \/ m \in remote' \ remote => c.pc = "registered" \/ m \in lost',
         \/ conn = NoConn
         \/ manage[m].pc \in Removers /\ manage[m].saw.hook = conn.by =>
              c.pc \in Removers /\ c.saw.hook = manage[m].saw.hook
  PROVE  LinkInv'
<1>1. RowInOrder' /\ CallsInOrder'
  BY OthersInOrder DEF CallsInOrder
<1>2. conn \in Row /\ IsRow(conn) /\ remote \subseteq Connects
  BY DEF LinkInv, LinkSound, LinkTypeOK, Row, RowInOrder
<1>3. RowIsOneConnect'
  <2>1. conn # NoConn => conn.by \in Managers /\ Stage(conn.by, "done")
    BY <1>2 DEF IsRow, Row, Managers
  <2> QED
    BY <2>1, MoveOfOne DEF LinkInv, LinkSound, RowIsOneConnect, Moves
<1>4. NoStrayRegistration'
  <2> SUFFICES ASSUME NEW h \in remote'
               PROVE  h = conn.hook \/ Stage(h, "registered")' \/ h \in overlapped' \union lost'
    BY DEF NoStrayRegistration
  <2>1. CASE h = m
    <3>1. m # conn.hook
      BY <1>2, MoveOfOne, NamesAssumption DEF IsRow, Row, Managers
    <3>2. m \in remote => Stage(m, "registered") \/ m \in overlapped \union lost
      BY <3>1 DEF LinkInv, LinkSound, NoStrayRegistration
    <3>3. c.pc = "registered" \/ m \in overlapped' \union lost'
      BY <2>1, <3>2 DEF Stage, Moves
    <3> QED
      BY <2>1, <3>3, MoveOfOne DEF Stage
  <2>2. CASE h # m
    BY <1>2, <2>2, MoveOfOne DEF LinkInv, LinkSound, NoStrayRegistration, Stage, Moves, Managers
  <2> QED
    BY <2>1, <2>2
<1>5. ConnectedHears'
  <2> SUFFICES ASSUME conn # NoConn, conn.by \notin remote'
               PROVE  \E n \in Managers : manage'[n].saw.hook = conn.by /\ manage'[n].pc \in Removers
    BY DEF ConnectedHears, Removers
  <2>1. CASE conn.by \in remote
    BY <2>1, MoveOfOne DEF Removers
  <2>2. CASE conn.by \notin remote
    <3>1. PICK n \in Managers : manage[n].saw.hook = conn.by /\ manage[n].pc \in Removers
      BY <2>2 DEF LinkInv, LinkSound, ConnectedHears, Removers
    <3> QED
      BY <3>1, MoveOfOne
  <2> QED
    BY <2>1, <2>2
<1> QED
  BY <1>1, <1>3, <1>4, <1>5, MoveOfOne DEF LinkInv, LinkSound

\* A step that replaces the row with its own, or removes it: whatever the row
\* named at the gateway was detached before, unless somebody overlapped.
LEMMA RowGoes ==
  ASSUME LinkInv, NEW m \in UnderWay, NEW c \in Call, Moves(m, c),
         manage[m].pc # "read", c.pc = "done", conn' \in Row,
         remote' = remote, overlapped' = overlapped, lost' = lost, LinkTypeOK',
         \/ conn' = NoConn /\ manage[m].pc # "registered"
         \/ /\ conn'.by = m /\ conn'.hook \in {m, Nothing} /\ m \in remote
            /\ conn'.hook = Nothing => m \in lost
            /\ conn'.base = c.base \/ m \in overlapped
  PROVE  LinkInv'
<1>1. /\ m \in Managers /\ CallOK(m) /\ conn \in Row /\ IsRow(conn)
      /\ remote \subseteq Connects /\ m # Nothing
  BY NamesAssumption DEF UnderWay, LinkInv, LinkSound, LinkTypeOK, CallsInOrder, RowInOrder, Row
<1>2. Stage(m, "done")' /\ CallsTyped' /\ m \notin UnderWay'
  BY <1>1, MoveOfOne DEF Stage, UnderWay, Ended
<1>3. RowInOrder'
  BY <1>1, <1>2 DEF RowInOrder, IsRow, NoConn
<1>4. \A n \in UnderWay' : n \in UnderWay /\ n \in overlapped /\ m \in overlapped
  BY <1>1, <1>2, MoveOfOne DEF LinkInv, BesideIsOverlapped
<1>5. CallsInOrder'
  <2> SUFFICES ASSUME NEW n \in UnderWay' PROVE CallOK(n)'
    BY DEF CallsInOrder
  <2>1. /\ CallOK(n) /\ n \in Managers /\ n # m /\ manage'[n] = manage[n] /\ manage[n].saw \in Row
    BY <1>1, <1>2, <1>4, MoveOfOne DEF LinkInv, CallsInOrder, UnderWay, CallsTyped, Call
  <2>2. IsRow(manage[n].saw)'
    BY <1>1, <2>1, RowsStand DEF CallOK
  <2>3. manage[n].saw.by # m
    BY <1>1, <2>1, MoveOfOne DEF CallOK, IsRow
  <2>4. manage[n].saw.by = conn'.by => manage[n].saw = conn'
    BY <1>1, <2>1, <2>3 DEF CallOK, IsRow, NoConn
  <2> QED
    BY <1>4, <2>1, <2>2, <2>4 DEF CallOK
<1>6. BesideIsOverlapped'
  BY <1>4 DEF BesideIsOverlapped
<1>7. NoStrayRegistration'
  <2> SUFFICES ASSUME NEW h \in remote
               PROVE  h = conn'.hook \/ Stage(h, "registered")' \/ h \in overlapped \union lost
    BY DEF NoStrayRegistration
  <2>1. CASE h = m
    <3>1. m # conn.hook
      BY <1>1, MoveOfOne DEF IsRow
    <3>2. Stage(m, "registered") \/ m \in overlapped \union lost
      BY <2>1, <3>1 DEF LinkInv, LinkSound, NoStrayRegistration
    <3> QED
      BY <2>1, <3>2 DEF Stage
  <2>2. CASE h = conn.hook
    <3>1. h = conn.by /\ conn # NoConn
      BY <1>1, <2>2, NamesAssumption DEF IsRow, NoConn, Managers
    <3> QED
      BY <1>1, <2>2, <3>1 DEF CallOK
  <2>3. CASE h # m /\ h # conn.hook
    BY <1>1, <2>3, MoveOfOne DEF LinkInv, LinkSound, NoStrayRegistration, Stage, Managers
  <2> QED
    BY <2>1, <2>2, <2>3
<1>8. ConnectedHears' /\ RowIsOneConnect'
  BY <1>1, MoveOfOne DEF ConnectedHears, RowIsOneConnect
<1> QED
  BY <1>2, <1>3, <1>5, <1>6, <1>7, <1>8 DEF LinkInv, LinkSound

\* The lock belongs to whoever has flushed.
LEMMA LockStays ==
  ASSUME LinkInv, NEW m \in Managers, NEW c \in Call, Moves(m, c),
         conn' \in Row, remote' \subseteq Connects,
         overlapped' \subseteq Managers, lost' \subseteq Connects \union {Nothing},
         \/ /\ lock' = lock
            /\ c.pc \in {"flushed", "registered"} <=> manage[m].pc \in {"flushed", "registered"}
         \/ lock = Free /\ lock' = m /\ m \in Connects /\ c.pc = "flushed"
         \/ lock = m /\ lock' = Free /\ c.pc \notin {"flushed", "registered"}
  PROVE  LinkTypeOK'
<1>1. \A n \in Managers : lock = n <=> manage[n].pc \in {"flushed", "registered"}
  BY DEF LinkInv, LinkSound, LinkTypeOK
<1>2. \A n \in Managers : lock' = n <=> manage'[n].pc \in {"flushed", "registered"}
  BY <1>1, MoveOfOne, NamesAssumption
<1>3. \A n \in Managers : manage'[n].pc \in {"idle", "read", "detached", "flushed", "registered"} \union Ended
  BY MoveOfOne DEF CallsTyped, Call
<1>4. lock' \in Connects \union {Free}
  BY DEF LinkInv, LinkSound, LinkTypeOK
<1> QED
  BY <1>2, <1>3, <1>4 DEF LinkTypeOK, Row

\* What is known of a call that goes on.
LEMMA UnderWayFacts ==
  ASSUME LinkInv, NEW m \in Managers, manage[m].pc \notin Ended \union {"idle"}
  PROVE  /\ m \in UnderWay /\ CallOK(m) /\ manage[m] \in Call
         /\ conn \in Row /\ IsRow(conn) /\ remote \subseteq Connects
         /\ overlapped \subseteq Managers /\ lost \subseteq Connects \union {Nothing}
         /\ manage[m].pc \in {"flushed", "registered"} => lock = m /\ m \in Connects
         /\ manage[m].saw.hook \in Connects \union {Nothing}
         /\ manage[m].saw.hook \in Connects => Stage(manage[m].saw.hook, "done")
  BY NamesAssumption DEF LinkInv, LinkSound, LinkTypeOK, CallsInOrder, UnderWay, RowInOrder, CallsTyped,
     Call, Row, CallOK, IsRow, Managers

\* With nobody new under way, nobody new overlaps.
LEMMA StillBeside ==
  ASSUME LinkInv, NEW m \in UnderWay, NEW c \in Call, Moves(m, c)
  PROVE  BesideIsOverlapped'
<1>1. m \in Managers
  BY DEF UnderWay
<1>2. UnderWay' \subseteq UnderWay
  BY <1>1, MoveOfOne
<1> QED
  BY <1>2 DEF LinkInv, BesideIsOverlapped, Moves

LEMMA BeginManageKeeps ==
  ASSUME LinkInv, NEW m \in Managers, NEW g \in Gateways, BeginManage(m, g)
  PROVE  LinkInv'
<1> DEFINE c == [NoManage EXCEPT !.pc = "read", !.saw = conn, !.base = IF m \in Connects THEN g ELSE Nothing]
<1>1. conn \in Row /\ IsRow(conn) /\ remote \subseteq Connects /\ lost \subseteq Connects \union {Nothing}
  BY DEF LinkInv, LinkSound, LinkTypeOK, RowInOrder, Row
<1>2. c \in Call /\ c.pc = "read" /\ c.saw = conn
  <2>1. NoManage \in Call
    BY DEF NoManage, NoConn, Call, Row
  <2> QED
    BY <1>1, <2>1 DEF Call
<1>3. /\ Moves(m, c) /\ conn' = conn /\ lock' = lock /\ remote' = remote /\ lost' = lost
      /\ manage[m].pc = "idle"
      /\ overlapped' = IF UnderWay = {} THEN overlapped ELSE overlapped \union UnderWay \union {m}
  BY DEF BeginManage, Moves, Stage, Ended
<1> HIDE DEF c
<1>4. overlapped' \subseteq Managers
  BY <1>3 DEF LinkInv, LinkSound, LinkTypeOK, UnderWay
<1>5. LinkTypeOK'
  BY <1>1, <1>2, <1>3, <1>4, LockStays
<1>6. BesideIsOverlapped'
  <2>1. \A n \in UnderWay' : n = m \/ n \in UnderWay
    BY <1>2, <1>3, MoveOfOne
  <2>2. \A n \in UnderWay : n \in overlapped' /\ m \in overlapped'
    BY <1>3
  <2> QED
    BY <2>1, <2>2 DEF BesideIsOverlapped
<1>7. CallOK(m)'
  <2>1. IsRow(conn)' /\ manage'[m] = c
    BY <1>1, <1>2, <1>3, RowsStand, MoveOfOne
  <2> QED
    BY <1>2, <1>3, <2>1 DEF CallOK
<1> QED
  BY <1>2, <1>3, <1>5, <1>6, <1>7, RowStays DEF Removers

\* What is left of a call that ends.
EndOf(m, pc) ==
  [NoManage EXCEPT !.pc = pc, !.base = manage[m].base,
                   !.saw.hook = IF pc = "failed" THEN manage[m].saw.hook ELSE Nothing]

LEMMA Endings ==
  ASSUME LinkInv, NEW m \in Managers, manage[m].pc \notin Ended, NEW pc \in Ended
  PROVE  /\ EndOf(m, pc) \in Call /\ EndOf(m, pc).pc = pc /\ EndOf(m, pc).base = manage[m].base
         /\ pc = "failed" => EndOf(m, pc).saw.hook = manage[m].saw.hook
<1>1. manage[m].base \in Gateways \union {Nothing} /\ manage[m].saw.hook \in Connects \union {Nothing}
  BY DEF LinkInv, CallsTyped, Call, Row
<1>2. NoManage \in Call
  BY DEF NoManage, NoConn, Call, Row
<1> QED
  BY <1>1, <1>2 DEF EndOf, Call, Row

LEMMA NotConnectedKeeps ==
  ASSUME LinkInv, NEW m \in Managers, NotConnected(m)
  PROVE  LinkInv'
<1> DEFINE c == EndOf(m, "refused")
<1>1. /\ manage[m].pc = "read" /\ Moves(m, c)
      /\ conn' = conn /\ lock' = lock /\ remote' = remote /\ lost' = lost /\ overlapped' = overlapped
  BY DEF NotConnected, End, EndOf, Moves, Stage, Ended
<1>2. c \in Call /\ c.pc = "refused"
  BY <1>1, Endings DEF Ended
<1> HIDE DEF c
<1>3. LinkTypeOK' /\ BesideIsOverlapped' /\ m \notin UnderWay'
  BY <1>1, <1>2, UnderWayFacts, LockStays, StillBeside, MoveOfOne DEF Ended, UnderWay
<1> QED
  BY <1>1, <1>2, <1>3, RowStays DEF Removers

LEMMA DetachKeeps ==
  ASSUME LinkInv, NEW m \in Managers, Detach(m)
  PROVE  LinkInv'
<1> DEFINE c == [manage[m] EXCEPT !.pc = "detached"]
<1>1. /\ manage[m].pc = "read" /\ Moves(m, c)
      /\ conn' = conn /\ lock' = lock /\ overlapped' = overlapped
      /\ \/ remote' = remote \ {manage[m].saw.hook} /\ lost' = lost
         \/ remote' = remote /\ lost' = lost \union {manage[m].saw.hook}
  BY DEF Detach, Detached, Goto, Moves, Stage, Ended, LinkInv, CallsTyped
<1>2. manage[m].pc \notin Ended \union {"idle"}
  BY <1>1 DEF Ended
<1>3. /\ CallOK(m) /\ m \in UnderWay /\ manage[m] \in Call /\ conn \in Row
      /\ remote \subseteq Connects /\ overlapped \subseteq Managers /\ lost \subseteq Connects \union {Nothing}
      /\ manage[m].saw.hook \in Connects \union {Nothing}
      /\ manage[m].saw.hook \in Connects => Stage(manage[m].saw.hook, "done")
  BY <1>2, UnderWayFacts
<1>4. c \in Call /\ c.pc = "detached" /\ c.saw = manage[m].saw
  BY <1>3 DEF Call
<1> HIDE DEF c
<1>5. LinkTypeOK'
  BY <1>1, <1>3, <1>4, LockStays
<1>6. BesideIsOverlapped'
  BY <1>1, <1>3, <1>4, StillBeside
<1>7. CallOK(m)'
  <2>1. IsRow(manage[m].saw)' /\ manage'[m] = c
    BY <1>1, <1>3, <1>4, RowsStand, MoveOfOne DEF CallOK, Call
  <2> QED
    BY <1>1, <1>3, <1>4, <2>1 DEF CallOK
<1>8. \A h \in remote \ remote' : Stage(h, "done") /\ h = c.saw.hook
  BY <1>1, <1>3, <1>4, NamesAssumption
<1> QED
  BY <1>1, <1>3, <1>4, <1>5, <1>6, <1>7, <1>8, RowStays DEF Removers

LEMMA FlushRowKeeps ==
  ASSUME LinkInv, NEW m \in Managers, FlushRow(m)
  PROVE  LinkInv'
<1>1. /\ manage[m].pc = "detached" /\ manage[m].pc \notin Ended \union {"idle"} /\ m \in Connects /\ lock = Free
      /\ conn' = conn /\ remote' = remote /\ lost' = lost /\ overlapped' = overlapped
  BY DEF FlushRow, Stage, Ended
<1>2. /\ CallOK(m) /\ m \in UnderWay /\ manage[m] \in Call /\ conn \in Row
      /\ remote \subseteq Connects /\ overlapped \subseteq Managers /\ lost \subseteq Connects \union {Nothing}
  BY <1>1, UnderWayFacts
<1>3. CASE manage[m].saw.id = conn.id
  <2> DEFINE c == [manage[m] EXCEPT !.pc = "flushed", !.id = IF conn = NoConn THEN m ELSE conn.id]
  <2>1. c \in Call /\ c.pc = "flushed" /\ c.saw = manage[m].saw
    BY <1>1, <1>2 DEF Call, Row
  <2>2. Moves(m, c) /\ lock' = m
    BY <1>1, <1>2, <1>3 DEF FlushRow, Moves, LinkInv, CallsTyped
  <2> HIDE DEF c
  <2>3. LinkTypeOK' /\ BesideIsOverlapped'
    BY <1>1, <1>2, <2>1, <2>2, LockStays, StillBeside
  <2>4. CallOK(m)'
    <3>1. IsRow(manage[m].saw)' /\ manage'[m] = c
      BY <1>2, <2>1, <2>2, RowsStand, MoveOfOne DEF CallOK, Call
    <3> QED
      BY <1>1, <1>2, <2>1, <3>1 DEF CallOK
  <2> QED
    BY <1>1, <2>1, <2>2, <2>3, <2>4, RowStays DEF Removers
<1>4. CASE manage[m].saw.id # conn.id
  <2> DEFINE c == EndOf(m, "failed")
  <2>1. c \in Call /\ c.pc = "failed" /\ c.saw.hook = manage[m].saw.hook
    BY <1>1, Endings DEF Ended
  <2>2. Moves(m, c) /\ lock' = lock
    BY <1>1, <1>4 DEF FlushRow, Moves, End, EndOf
  <2> HIDE DEF c
  <2>3. LinkTypeOK' /\ BesideIsOverlapped' /\ m \notin UnderWay'
    BY <1>1, <1>2, <2>1, <2>2, LockStays, StillBeside, MoveOfOne DEF Ended, UnderWay
  <2> QED
    BY <1>1, <2>1, <2>2, <2>3, RowStays DEF Removers
<1> QED
  BY <1>3, <1>4

LEMMA RegisterKeeps ==
  ASSUME LinkInv, NEW m \in Managers, Register(m)
  PROVE  LinkInv'
<1>1. PICK h \in {m, Nothing} :
        /\ manage' = [manage EXCEPT ![m].pc = "registered", ![m].hook = h]
        /\ lost' = IF h = Nothing THEN lost \union {m} ELSE lost
  BY DEF Register
<1> DEFINE c == [manage[m] EXCEPT !.pc = "registered", !.hook = h]
<1>2. /\ manage[m].pc = "flushed" /\ manage[m].pc \notin Ended \union {"idle"}
      /\ conn' = conn /\ remote' = remote \union {m} /\ lock' = lock /\ overlapped' = overlapped
  BY DEF Register, Stage, Ended
<1>3. /\ CallOK(m) /\ m \in UnderWay /\ manage[m] \in Call /\ conn \in Row /\ m \in Connects
      /\ remote \subseteq Connects /\ overlapped \subseteq Managers /\ lost \subseteq Connects \union {Nothing}
      /\ manage[m].saw.hook \in Connects => Stage(manage[m].saw.hook, "done")
  BY <1>2, UnderWayFacts
<1>4. c \in Call /\ c.pc = "registered" /\ c.saw = manage[m].saw /\ c.hook = h
  BY <1>3 DEF Call
<1>5. Moves(m, c)
  BY <1>1, <1>2 DEF Moves, LinkInv, CallsTyped
<1> HIDE DEF c
<1>6. LinkTypeOK' /\ BesideIsOverlapped'
  BY <1>1, <1>2, <1>3, <1>4, <1>5, LockStays, StillBeside
<1>7. CallOK(m)'
  <2>1. IsRow(manage[m].saw)' /\ manage'[m] = c
    BY <1>3, <1>4, <1>5, RowsStand, MoveOfOne DEF CallOK, Call
  <2>2. manage[m].saw.hook # m
    BY <1>2, <1>3 DEF Stage
  <2> QED
    BY <1>1, <1>2, <1>3, <1>4, <2>1, <2>2 DEF CallOK
<1> QED
  BY <1>2, <1>4, <1>5, <1>6, <1>7, RowStays DEF Removers

LEMMA FailingKeeps ==
  ASSUME LinkInv, NEW m \in Managers, RegisterFails(m) \/ CommitFails(m)
  PROVE  LinkInv'
<1> DEFINE c == EndOf(m, "failed")
<1>1. /\ manage[m].pc \in {"flushed", "registered"} /\ manage[m].pc \notin Ended \union {"idle"} /\ Moves(m, c)
      /\ conn' = conn /\ lock' = Free /\ overlapped' = overlapped
      /\ remote' \in {remote, remote \union {m}} /\ lost' = lost \union {m}
  BY DEF RegisterFails, CommitFails, End, EndOf, Moves, Stage, Ended
<1>2. /\ m \in UnderWay /\ conn \in Row /\ lock = m /\ m \in Connects
      /\ remote \subseteq Connects /\ overlapped \subseteq Managers /\ lost \subseteq Connects \union {Nothing}
  BY <1>1, UnderWayFacts
<1>3. c \in Call /\ c.pc = "failed" /\ c.saw.hook = manage[m].saw.hook
  BY <1>1, Endings DEF Ended
<1> HIDE DEF c
<1>4. LinkTypeOK' /\ BesideIsOverlapped' /\ m \notin UnderWay'
  BY <1>1, <1>2, <1>3, LockStays, StillBeside, MoveOfOne DEF Ended, UnderWay
<1> QED
  BY <1>1, <1>3, <1>4, RowStays DEF Removers

LEMMA CommitConnectKeeps ==
  ASSUME LinkInv, NEW m \in Managers, CommitConnect(m)
  PROVE  LinkInv'
<1> DEFINE c == EndOf(m, "done")
<1>1. /\ manage[m].pc = "registered" /\ manage[m].pc \notin Ended \union {"idle"} /\ Moves(m, c)
      /\ conn' = RowOf(m) /\ lock' = Free /\ overlapped' = overlapped /\ remote' = remote /\ lost' = lost
  BY DEF CommitConnect, End, EndOf, Moves, Stage, Ended
<1>2. /\ CallOK(m) /\ m \in UnderWay /\ manage[m] \in Call /\ conn \in Row /\ lock = m /\ m \in Connects
      /\ remote \subseteq Connects /\ overlapped \subseteq Managers /\ lost \subseteq Connects \union {Nothing}
  BY <1>1, UnderWayFacts
<1>3. c \in Call /\ c.pc = "done" /\ c.base = manage[m].base
  BY <1>1, Endings DEF Ended
<1>4. RowOf(m) \in Row /\ RowOf(m).by = m /\ RowOf(m).hook = manage[m].hook
  BY <1>2 DEF RowOf, BaseOf, Call, Row
<1>5. RowOf(m).base = manage[m].base \/ m \in overlapped
  BY <1>2 DEF RowOf, BaseOf, CallOK
<1>6. manage[m].hook \in {m, Nothing} /\ m \in remote /\ (manage[m].hook = Nothing => m \in lost)
  BY <1>1, <1>2 DEF CallOK
<1> HIDE DEF c
<1>7. LinkTypeOK'
  BY <1>1, <1>2, <1>3, <1>4, LockStays
<1> QED
  BY <1>1, <1>2, <1>3, <1>4, <1>5, <1>6, <1>7, RowGoes

LEMMA DeleteRowKeeps ==
  ASSUME LinkInv, NEW m \in Managers, DeleteRow(m)
  PROVE  LinkInv'
<1>1. /\ manage[m].pc = "detached" /\ manage[m].pc \notin Ended \union {"idle"}
      /\ lock' = lock /\ overlapped' = overlapped /\ remote' = remote /\ lost' = lost
  BY DEF DeleteRow, Stage, Ended
<1>2. /\ CallOK(m) /\ m \in UnderWay /\ conn \in Row /\ IsRow(conn)
      /\ remote \subseteq Connects /\ overlapped \subseteq Managers /\ lost \subseteq Connects \union {Nothing}
  BY <1>1, UnderWayFacts
<1>3. NoConn \in Row
  BY DEF NoConn, Row
<1>4. PICK pc \in {"done", "failed"} :
        /\ Moves(m, EndOf(m, pc))
        /\ \/ pc = "done" /\ conn' = (IF conn.id = manage[m].saw.id THEN NoConn ELSE conn)
           \/ pc = "failed" /\ conn' = conn
  BY <1>1 DEF DeleteRow, End, EndOf, Moves
<1> DEFINE c == EndOf(m, pc)
<1>5. c \in Call /\ c.pc = pc /\ (pc = "failed" => c.saw.hook = manage[m].saw.hook) /\ Moves(m, c)
  BY <1>1, <1>4, Endings DEF Ended
<1> HIDE DEF c
<1>6. LinkTypeOK' /\ BesideIsOverlapped' /\ m \notin UnderWay'
  BY <1>1, <1>2, <1>3, <1>4, <1>5, LockStays, StillBeside, MoveOfOne DEF Ended, UnderWay
<1>7. CASE conn' = NoConn /\ pc = "done"
  BY <1>1, <1>2, <1>3, <1>5, <1>6, <1>7, RowGoes
<1>8. CASE conn' = conn /\ (pc = "done" => conn.id # manage[m].saw.id)
  <2>1. conn # NoConn /\ manage[m].saw.hook = conn.by => pc = "failed"
    BY <1>2, <1>4, <1>8 DEF CallOK, IsRow
  <2> QED
    BY <1>1, <1>4, <1>5, <1>6, <1>8, <2>1, RowStays DEF Removers
<1> QED
  BY <1>4, <1>7, <1>8

LEMMA LinkStep == LinkInv /\ [LinkNext]_linkVars => LinkInv'
<1> SUFFICES ASSUME LinkInv, [LinkNext]_linkVars PROVE LinkInv'
  OBVIOUS
<1>1. CASE LinkNext
  BY <1>1, BeginManageKeeps, NotConnectedKeeps, DetachKeeps, FlushRowKeeps, RegisterKeeps, FailingKeeps,
     CommitConnectKeeps, DeleteRowKeeps DEF LinkNext
<1>2. CASE UNCHANGED linkVars
  BY <1>2 DEF linkVars, LinkInv, LinkSound, LinkTypeOK, ConnectedHears, NoStrayRegistration, RowIsOneConnect,
     CallsTyped, RowInOrder, CallsInOrder, BesideIsOverlapped, CallOK, IsRow, UnderWay, Stage
<1> QED
  BY <1>1, <1>2

\* However connects and disconnects follow each other, overlap and fail, with
\* any number of managers and gateways: a workspace that is connected hears its
\* gateway, no registration is left behind and no row mixes two connects, but
\* for what a failure or an overlap explains.
THEOREM LinkIsSound == LinkSpec => []LinkSound
<1>1. LinkInv => LinkSound
  BY DEF LinkInv
<1> QED
  BY LinkStarts, LinkStep, <1>1, PTL DEF LinkSpec

----------------------------------------------------------------------------
(* WhatsAppMemory                                                          *)

\* LRANGE and LTRIM with -n .. -1: the last n lines, or all.
LEMMA LastOfIsSuffix ==
  ASSUME NEW S, NEW s \in Seq(S), NEW n \in Nat
  PROVE  /\ LastOf(s, n) \in Seq(S)
         /\ Len(LastOf(s, n)) = IF Len(s) <= n THEN Len(s) ELSE n
         /\ \A i \in 1 .. Len(LastOf(s, n)) :
              LastOf(s, n)[i] = s[i + (Len(s) - Len(LastOf(s, n)))]
<1>1. CASE Len(s) <= n
  BY <1>1 DEF LastOf
<1>2. CASE ~(Len(s) <= n)
  <2>1. Len(s) - n + 1 \in 1 .. Len(s) + 1 /\ Len(s) \in Nat
    BY <1>2
  <2>2. LastOf(s, n) = SubSeq(s, Len(s) - n + 1, Len(s))
    BY <1>2 DEF LastOf
  <2>3. Len(LastOf(s, n)) = n /\ LastOf(s, n) \in Seq(S)
    BY <1>2, <2>1, <2>2
  <2>4. \A i \in 1 .. n : LastOf(s, n)[i] = s[i + (Len(s) - n)]
    BY <1>2, <2>1, <2>2
  <2> QED
    BY <1>2, <2>3, <2>4
<1> QED
  BY <1>1, <1>2

\* An even number of lines is taken off the front, so that pairs stay pairs.
LEMMA WholeSuffix ==
  ASSUME NEW s \in Seq(Spoken), NEW n \in Nat, Whole(s)
  PROVE  Whole(LastOf(s, 2 * n))
<1> DEFINE r == LastOf(s, 2 * n)
           d == Len(s) - Len(r)
<1>1. /\ r \in Seq(Spoken) /\ Len(r) \in Nat /\ Len(s) \in Nat
      /\ Len(r) = IF Len(s) <= 2 * n THEN Len(s) ELSE 2 * n
      /\ \A i \in 1 .. Len(r) : r[i] = s[i + d]
  BY LastOfIsSuffix, 2 * n \in Nat
<1>2. PICK k \in Nat, j \in Nat : Len(r) = 2 * k /\ d = 2 * j /\ Len(s) = 2 * (k + j)
  <2>1. PICK h \in Nat : Len(s) = 2 * h
    BY <1>1 DEF Whole
  <2>2. CASE Len(s) <= 2 * n
    <3>1. Len(r) = 2 * h /\ d = 2 * 0 /\ Len(s) = 2 * (h + 0)
      BY <1>1, <2>1, <2>2
    <3> HIDE DEF r, d
    <3> WITNESS h \in Nat, 0 \in Nat
    <3> QED
      BY <3>1
  <2>3. CASE ~(Len(s) <= 2 * n)
    <3>1. h - n \in Nat
      BY <2>1, <2>3
    <3>2. Len(r) = 2 * n /\ d = 2 * (h - n) /\ Len(s) = 2 * (n + (h - n))
      <4>1. Len(r) = 2 * n
        BY <1>1, <2>3
      <4>2. d = 2 * h - 2 * n
        BY <2>1, <4>1
      <4> HIDE DEF r, d
      <4> QED
        BY <2>1, <4>1, <4>2
    <3> HIDE DEF r, d
    <3>3. n \in Nat
      OBVIOUS
    <3> WITNESS n \in Nat, h - n \in Nat
    <3> QED
      BY <3>2
  <2> QED
    BY <2>2, <2>3
<1>3. ASSUME NEW i \in 1 .. k
      PROVE  r[2 * i - 1][2] = "user" /\ r[2 * i] = <<r[2 * i - 1][1], "assistant">>
  <2>1. i + j \in 1 .. Len(s) \div 2
    BY <1>2
  <2>2. /\ s[2 * (i + j) - 1][2] = "user"
        /\ s[2 * (i + j)] = <<s[2 * (i + j) - 1][1], "assistant">>
    BY <2>1 DEF Whole
  <2>3. r[2 * i - 1] = s[2 * (i + j) - 1] /\ r[2 * i] = s[2 * (i + j)]
    <3>1. 2 * i - 1 \in 1 .. Len(r) /\ 2 * i \in 1 .. Len(r)
      BY <1>2
    <3>2. 2 * i - 1 + d = 2 * (i + j) - 1 /\ 2 * i + d = 2 * (i + j)
      BY <1>2
    <3> QED
      BY <1>1, <3>1, <3>2
  <2> QED
    BY <2>2, <2>3
<1>4. Len(r) % 2 = 0 /\ Len(r) \div 2 = k
  BY <1>2
<1> QED
  BY <1>3, <1>4 DEF Whole

\* RPUSH adds a whole exchange to whole exchanges.
LEMMA WholeWithAdded ==
  ASSUME NEW s \in Seq(Spoken), NEW e \in Exchanges, Whole(s)
  PROVE  /\ s \o Added(e) \in Seq(Spoken)
         /\ Len(s \o Added(e)) = Len(s) + 2
         /\ Whole(s \o Added(e))
<1> DEFINE r == s \o Added(e)
<1>1. /\ Added(e) \in Seq(Spoken) /\ Len(Added(e)) = 2
      /\ Added(e)[1] = <<e, "user">> /\ Added(e)[2] = <<e, "assistant">>
  BY DEF Added, Spoken
<1>2. /\ r \in Seq(Spoken) /\ Len(r) = Len(s) + 2 /\ Len(s) \in Nat
      /\ \A i \in 1 .. Len(s) : r[i] = s[i]
      /\ r[Len(s) + 1] = <<e, "user">> /\ r[Len(s) + 2] = <<e, "assistant">>
  <2> DEFINE a == Added(e)
  <2>1. a \in Seq(Spoken) /\ Len(a) = 2 /\ a[1] = <<e, "user">> /\ a[2] = <<e, "assistant">>
    BY <1>1
  <2> HIDE DEF a
  <2>2. \A i \in 1 .. Len(s) + 2 : (s \o a)[i] = IF i <= Len(s) THEN s[i] ELSE a[i - Len(s)]
    BY <2>1, ConcatProperties
  <2> HIDE DEF r
  <2>3. s \o a \in Seq(Spoken) /\ Len(s \o a) = Len(s) + 2 /\ Len(s) \in Nat
    <3>1. Len(s \o a) = Len(s) + Len(a) /\ s \o a \in Seq(Spoken)
      BY <2>1, ConcatProperties, Zenon
    <3>2. Len(s) \in Nat
      OBVIOUS
    <3> QED
      BY <2>1, <3>1, <3>2
  <2>4. \A i \in 1 .. Len(s) : (s \o a)[i] = s[i]
    BY <2>2, <2>3
  <2>5. Len(s) + 1 - Len(s) = 1 /\ Len(s) + 2 - Len(s) = 2
    BY <2>3
  <2>6. (s \o a)[Len(s) + 1] = a[1] /\ (s \o a)[Len(s) + 2] = a[2]
    BY <2>2, <2>3, <2>5
  <2> QED
    BY <2>1, <2>3, <2>4, <2>6 DEF a, r
<1>3. PICK k \in Nat : Len(s) = 2 * k
  BY <1>2 DEF Whole
<1>4. ASSUME NEW i \in 1 .. k + 1
      PROVE  r[2 * i - 1][2] = "user" /\ r[2 * i] = <<r[2 * i - 1][1], "assistant">>
  <2> HIDE DEF r
  <2>1. CASE i = k + 1
    <3>1. 2 * i - 1 = Len(s) + 1 /\ 2 * i = Len(s) + 2
      BY <1>3, <2>1
    <3>2. r[2 * i - 1] = <<e, "user">> /\ r[2 * i] = <<e, "assistant">>
      BY <1>2, <3>1
    <3> QED
      BY <3>2
  <2>2. CASE i \in 1 .. k
    <3>1. i \in 1 .. Len(s) \div 2 /\ 2 * i - 1 \in 1 .. Len(s) /\ 2 * i \in 1 .. Len(s)
      BY <1>3, <2>2
    <3>2. s[2 * i - 1][2] = "user" /\ s[2 * i] = <<s[2 * i - 1][1], "assistant">>
      BY <3>1 DEF Whole
    <3> QED
      BY <1>2, <3>1, <3>2
  <2>3. i = k + 1 \/ i \in 1 .. k
    OBVIOUS
  <2> QED
    BY <2>1, <2>2, <2>3
<1>5. Len(r) % 2 = 0 /\ Len(r) \div 2 = k + 1
  BY <1>2, <1>3
<1> QED
  BY <1>2, <1>4, <1>5 DEF Whole

----------------------------------------------------------------------------
(* The invariant: every action keeps what the memory is                    *)

\* The tasks that have added an exchange and not trimmed.
Overlong == {e \in Exchanges : exchange[e] \in {"trimming", "pushed"}}
MemoryInv == MemoryTypeOK /\ WholeExchanges /\ MemoryBounded /\ MemoryDies

LEMMA OverlongIsCounted ==
  ASSUME NEW X \in SUBSET Exchanges, NEW e \in Exchanges
  PROVE  /\ Cardinality(X) \in Nat
         /\ e \notin X => Cardinality(X \union {e}) = Cardinality(X) + 1
<1>1. IsFiniteSet(X)
  BY MemoryAssumption, FS_Subset
<1> QED
  BY <1>1, FS_CardinalityType, FS_AddElement

LEMMA MemoryStarts == MemoryInit => MemoryInv
<1> SUFFICES ASSUME MemoryInit PROVE MemoryInv
  OBVIOUS
<1>1. << >> \in Seq(Spoken) /\ Len(<< >>) = 0 /\ Whole(<< >>)
  BY DEF Whole
<1>2. MemoryTypeOK /\ WholeExchanges
  BY <1>1 DEF MemoryInit, MemoryTypeOK, WholeExchanges
<1>3. MemoryBounded
  <2>1. Overlong = {}
    BY DEF MemoryInit, Overlong
  <2> QED
    BY <1>1, <2>1, FS_EmptySet, MemoryAssumption DEF MemoryInit, MemoryBounded, Overlong
<1>4. MemoryDies
  BY DEF MemoryInit, MemoryDies
<1> QED
  BY <1>2, <1>3, <1>4 DEF MemoryInv

LEMMA RecallKeeps ==
  ASSUME MemoryInv, NEW e \in Exchanges, Recall(e)
  PROVE  MemoryInv'
<1> USE DEF MemoryInv, Recall, Step
<1>1. LastOf(LastOf(lines, 2 * Kept), 2 * Shown) \in Seq(Spoken)
  BY LastOfIsSuffix, MemoryAssumption, 2 * Kept \in Nat, 2 * Shown \in Nat DEF MemoryTypeOK
<1>2. Whole(LastOf(LastOf(lines, 2 * Kept), 2 * Shown))
  <2>1. LastOf(lines, 2 * Kept) \in Seq(Spoken)
    BY LastOfIsSuffix, MemoryAssumption, 2 * Kept \in Nat DEF MemoryTypeOK
  <2>2. Whole(LastOf(lines, 2 * Kept))
    BY WholeSuffix, MemoryAssumption DEF MemoryTypeOK, WholeExchanges
  <2> QED
    BY <2>1, <2>2, WholeSuffix, MemoryAssumption
<1>3. MemoryTypeOK'
  BY <1>1 DEF MemoryTypeOK
<1>4. WholeExchanges'
  BY <1>2 DEF MemoryTypeOK, WholeExchanges
<1>5. Overlong' = Overlong
  BY DEF Overlong, MemoryTypeOK
<1>6. MemoryBounded'
  BY <1>5 DEF MemoryBounded, Overlong
<1>7. MemoryDies'
  BY DEF MemoryDies, MemoryTypeOK
<1> QED
  BY <1>3, <1>4, <1>6, <1>7

LEMMA ChatEndsKeeps ==
  ASSUME MemoryInv, NEW e \in Exchanges, ChatEnds(e)
  PROVE  MemoryInv'
<1> USE DEF MemoryInv, ChatEnds, Step
<1>1. MemoryTypeOK' /\ WholeExchanges'
  BY DEF MemoryTypeOK, WholeExchanges
<1>2. Overlong' = Overlong
  BY DEF Overlong, MemoryTypeOK
<1>3. MemoryBounded'
  BY <1>2 DEF MemoryBounded, Overlong
<1>4. MemoryDies'
  BY DEF MemoryDies, MemoryTypeOK
<1> QED
  BY <1>1, <1>3, <1>4

\* Two lines more, and one task more that has not trimmed.
LEMMA PushKeeps ==
  ASSUME MemoryInv, NEW e \in Exchanges, Push(e)
  PROVE  MemoryInv'
<1> USE DEF MemoryInv, Push, Step
<1>1. /\ lines' \in Seq(Spoken) /\ Len(lines') = Len(lines) + 2 /\ Whole(lines')
      /\ Len(lines) \in Nat
  BY WholeWithAdded DEF MemoryTypeOK, WholeExchanges
<1>2. MemoryTypeOK' /\ WholeExchanges'
  BY <1>1 DEF MemoryTypeOK, WholeExchanges
<1>3. MemoryBounded'
  <2>1. Overlong' = Overlong \union {e} /\ e \notin Overlong /\ Overlong \in SUBSET Exchanges
    BY DEF Overlong, MemoryTypeOK
  <2>2. Cardinality(Overlong') = Cardinality(Overlong) + 1 /\ Cardinality(Overlong) \in Nat
    BY <2>1, OverlongIsCounted
  <2>3. Len(lines) <= 2 * (Kept + Cardinality(Overlong))
    BY DEF MemoryBounded, Overlong
  <2>4. Len(lines') <= 2 * (Kept + Cardinality(Overlong'))
    BY <1>1, <2>2, <2>3, MemoryAssumption
  <2> QED
    BY <2>4 DEF MemoryBounded, Overlong
<1>4. MemoryDies'
  BY DEF MemoryDies, MemoryTypeOK
<1> QED
  BY <1>2, <1>3, <1>4

\* At most 2 * Kept lines, whoever has not trimmed.
LEMMA TrimKeeps ==
  ASSUME MemoryInv, NEW e \in Exchanges, Trim(e)
  PROVE  MemoryInv'
<1> USE DEF MemoryInv, Trim, Step
<1>1. lines' \in Seq(Spoken) /\ Len(lines') <= 2 * Kept /\ Len(lines') \in Nat /\ Whole(lines')
  <2>1. Kept \in Nat /\ 2 * Kept \in Nat
    BY MemoryAssumption
  <2>2. lines' \in Seq(Spoken) /\ Len(lines') <= 2 * Kept
    BY <2>1, LastOfIsSuffix DEF MemoryTypeOK, Trimmed
  <2>3. Whole(lines')
    BY <2>1, WholeSuffix DEF MemoryTypeOK, WholeExchanges, Trimmed
  <2> QED
    BY <2>2, <2>3
<1>2. MemoryTypeOK' /\ WholeExchanges'
  BY <1>1 DEF MemoryTypeOK, WholeExchanges
<1>3. MemoryBounded'
  <2>1. Overlong' \in SUBSET Exchanges
    BY DEF Overlong
  <2>2. Cardinality(Overlong') \in Nat
    BY <2>1, OverlongIsCounted
  <2>3. Len(lines') <= 2 * (Kept + Cardinality(Overlong'))
    BY <1>1, <2>2, MemoryAssumption
  <2> QED
    BY <2>3 DEF MemoryBounded, Overlong
<1>4. MemoryDies'
  BY DEF MemoryDies, MemoryTypeOK
<1> QED
  BY <1>2, <1>3, <1>4

LEMMA SetExpiryKeeps ==
  ASSUME MemoryInv, NEW e \in Exchanges, SetExpiry(e)
  PROVE  MemoryInv'
<1> USE DEF MemoryInv, SetExpiry, Step
<1>1. MemoryTypeOK' /\ WholeExchanges'
  BY DEF MemoryTypeOK, WholeExchanges
<1>2. Overlong' = Overlong
  BY DEF Overlong, MemoryTypeOK
<1>3. MemoryBounded'
  BY <1>2 DEF MemoryBounded, Overlong
<1>4. MemoryDies'
  BY DEF MemoryDies
<1> QED
  BY <1>1, <1>3, <1>4

LEMMA CommandFailsKeeps ==
  ASSUME MemoryInv, NEW e \in Exchanges, CommandFails(e)
  PROVE  MemoryInv'
<1> USE DEF MemoryInv, CommandFails, Step
<1>1. MemoryTypeOK' /\ WholeExchanges'
  BY DEF MemoryTypeOK, WholeExchanges
<1>2. Overlong' = Overlong
  BY DEF Overlong, MemoryTypeOK
<1>3. MemoryBounded'
  BY <1>2 DEF MemoryBounded, Overlong
<1>4. MemoryDies'
  BY DEF MemoryDies, MemoryTypeOK
<1> QED
  BY <1>1, <1>3, <1>4

LEMMA DayPassesKeeps ==
  ASSUME MemoryInv, DayPasses
  PROVE  MemoryInv'
<1> USE DEF MemoryInv, DayPasses
<1>1. << >> \in Seq(Spoken) /\ Len(<< >>) = 0 /\ Whole(<< >>)
  BY DEF Whole
<1>2. MemoryTypeOK' /\ WholeExchanges'
  BY <1>1 DEF MemoryTypeOK, WholeExchanges
<1>3. MemoryBounded'
  <2>1. Overlong' \in SUBSET Exchanges /\ lines' = << >>
    BY DEF Overlong
  <2>2. Cardinality(Overlong') \in Nat \/ Exchanges = {}
    BY <2>1, OverlongIsCounted
  <2>3. Exchanges = {} => Cardinality(Overlong') = 0
    BY <2>1, FS_EmptySet
  <2>4. Len(lines') <= 2 * (Kept + Cardinality(Overlong'))
    BY <1>1, <2>1, <2>2, <2>3, MemoryAssumption
  <2> QED
    BY <2>4 DEF MemoryBounded, Overlong
<1>4. MemoryDies'
  BY DEF MemoryDies
<1> QED
  BY <1>2, <1>3, <1>4

LEMMA MemoryRests ==
  ASSUME MemoryInv, UNCHANGED memoryVars
  PROVE  MemoryInv'
BY DEF MemoryInv, memoryVars, MemoryTypeOK, WholeExchanges, MemoryBounded, MemoryDies

LEMMA MemoryInvHolds == MemorySpec => []MemoryInv
<1>1. MemoryInv /\ [MemoryNext]_memoryVars => MemoryInv'
  BY RecallKeeps, ChatEndsKeeps, PushKeeps, TrimKeeps, SetExpiryKeeps, CommandFailsKeeps,
     DayPassesKeeps, MemoryRests DEF MemoryNext
<1> QED
  BY MemoryStarts, <1>1, PTL DEF MemorySpec

----------------------------------------------------------------------------
(* What is forgotten first                                                 *)

LEMMA LastLineSurvives ==
  ASSUME MemoryInv, [MemoryNext]_memoryVars, lines # << >>, lines' # << >>
  PROVE  \E i \in 1 .. Len(lines') : lines'[i] = lines[Len(lines)]
<1>1. lines \in Seq(Spoken) /\ Len(lines) \in Nat \ {0} /\ Kept \in Nat \ {0} /\ 2 * Kept \in Nat \ {0}
  BY MemoryAssumption DEF MemoryInv, MemoryTypeOK
<1>2. CASE lines' = lines
  BY <1>1, <1>2
<1>3. ASSUME NEW e \in Exchanges, Push(e)
      PROVE  \E i \in 1 .. Len(lines') : lines'[i] = lines[Len(lines)]
  <2>1. Added(e) \in Seq(Spoken)
    BY DEF Added, Spoken
  <2>2. lines' = lines \o Added(e) /\ Len(lines') = Len(lines) + 2
    BY <1>3, <1>1, WholeWithAdded DEF Push, MemoryInv, WholeExchanges
  <2>3. lines'[Len(lines)] = lines[Len(lines)]
    BY <1>1, <2>1, <2>2, ConcatProperties
  <2> QED
    BY <1>1, <2>2, <2>3
<1>4. ASSUME NEW e \in Exchanges, Trim(e)
      PROVE  \E i \in 1 .. Len(lines') : lines'[i] = lines[Len(lines)]
  <2>1. /\ Len(lines') = IF Len(lines) <= 2 * Kept THEN Len(lines) ELSE 2 * Kept
        /\ \A i \in 1 .. Len(lines') : lines'[i] = lines[i + (Len(lines) - Len(lines'))]
    BY <1>1, <1>4, LastOfIsSuffix DEF Trim, Trimmed
  <2>2. Len(lines') \in 1 .. Len(lines') /\ Len(lines') + (Len(lines) - Len(lines')) = Len(lines)
    BY <1>1, <2>1
  <2> QED
    BY <2>1, <2>2
<1>5. lines' = lines \/ \E e \in Exchanges : Push(e) \/ Trim(e)
  BY DEF MemoryNext, memoryVars, Recall, ChatEnds, SetExpiry, CommandFails, DayPasses
<1> QED
  BY <1>2, <1>3, <1>4, <1>5

\* MemoryKept: for every number of turns kept and shown, and of messages answered
\* side by side with failing commands among them, an agent is shown whole
\* exchanges, the list stays bounded and mortal, and its end is never cut off.
THEOREM MemoryIsKept == MemorySpec => MemoryKept
<1>1. MemoryInv => MemoryTypeOK /\ WholeExchanges /\ MemoryBounded /\ MemoryDies
  BY DEF MemoryInv
<1>2. MemoryInv /\ [MemoryNext]_memoryVars
      => [lines # << >> /\ lines' # << >>
          => \E i \in 1 .. Len(lines') : lines'[i] = lines[Len(lines)]]_memoryVars
  BY LastLineSurvives
<1> QED
  BY MemoryInvHolds, <1>1, <1>2, PTL DEF MemorySpec, MemoryKept, LastTurnStays

============================================================================

-------------------------- MODULE WhatsAppInbound --------------------------
(***************************************************************************)
(* Answering WhatsApp messages (services/whatsapp.py handle_inbound and    *)
(* the inbound route).  The gateway may deliver a message again, each      *)
(* delivery is a background task of its own, and a task holds one database *)
(* transaction around the chat turn and the reply it sends.  Meanwhile a   *)
(* manager may disconnect the workspace, and connect it again.             *)
(***************************************************************************)
EXTENDS Integers, FiniteSets

CONSTANTS
  Messages,        \* message ids of the gateway
  Handlers,        \* deliveries that can be handled at the same time
  MaxConnections,  \* bound on the connection ids in use at the same time
  MaxOutages       \* bound on the deliveries of a message that find Redis down

ASSUME BoundAssumption == MaxConnections \in Nat \ {0} /\ MaxOutages \in Nat /\ IsFiniteSet(Handlers)

VARIABLES
  fresh,      \* messages whose events are at most MAX_EVENT_AGE old
  seen,       \* wa:seen keys in Redis, of each message for its connection
  unchecked,  \* how many deliveries of a message found Redis down
  connected,  \* whether the workspace's connection row exists,
  current,       \* and which one it is, or was last
  via,        \* the connection whose URL the gateway posts a fresh message to, or 0
  sent,       \* how many replies the customer got to a message
  log,        \* committed channel_message rows: message and direction
  booked,     \* committed bookings, by the message that asked for them
  handler     \* the background tasks

inboundVars == <<fresh, seen, unchecked, connected, current, via, sent, log, booked, handler>>
redis == <<seen, unchecked>>
link == <<connected, current, via>>
records == <<log, booked>>

\* flushed: the connection row is written, hence locked, by the transaction.
\* dead: a flush has failed, and SQLAlchemy refuses to commit.
\* books: the turn has booked.  replied: the reply was accepted by the gateway.
FreeTask == [pc |-> "free", msg |-> {}, conn |-> 0, flushed |-> FALSE, dead |-> FALSE,
         books |-> FALSE, replied |-> FALSE]

InboundInit ==
  /\ fresh = Messages
  /\ seen = {} /\ unchecked = [m \in Messages |-> 0]
  /\ connected = TRUE /\ current = 1 /\ via = [m \in Messages |-> 0]
  /\ sent = [m \in Messages |-> 0]
  /\ log = {} /\ booked = {}
  /\ handler = [h \in Handlers |-> FreeTask]

Stands(h, label) == handler[h].pc = label
Set(h, fields) == handler' = [handler EXCEPT ![h] = fields]
EndTask(h) == Set(h, FreeTask)
RowExists(h) == connected /\ current = handler[h].conn
RowLocked(except) == \E h \in Handlers \ except : handler[h].flushed

----------------------------------------------------------------------------
(* The gateway and the clock                                               *)

\* whatsapp_inbound, for an event that is signed with the connection's secret.
\* The gateway repeats a delivery at the URL that was registered for it.
Receive(h, m) ==
  /\ Stands(h, "free") /\ connected
  /\ via[m] \in {0, current}
  /\ via' = [via EXCEPT ![m] = IF m \in fresh THEN current ELSE 0]
  /\ Set(h, [FreeTask EXCEPT !.pc = "new", !.msg = {m}, !.conn = current])
  /\ UNCHANGED <<fresh, redis, connected, current, sent, records>>

EventAges(m) ==
  /\ m \in fresh
  /\ fresh' = fresh \ {m}
  /\ via' = [via EXCEPT ![m] = 0]
  /\ UNCHANGED <<redis, connected, current, sent, records, handler>>

\* The key lives for a day, an event for ten minutes.
KeyMayExpire_Early(m) == TRUE
KeyMayExpire(m) == m \notin fresh

Forget(m) ==
  /\ m \in seen /\ KeyMayExpire(m)
  /\ seen' = seen \ {m}
  /\ UNCHANGED <<fresh, unchecked, link, sent, records, handler>>

----------------------------------------------------------------------------
(* handle_inbound, one action between two awaits                           *)

\* parse_inbound ignores some kinds and what is too old; SET NX is atomic.
Take(h) ==
  /\ Stands(h, "new")
  /\ \/ EndTask(h) /\ UNCHANGED seen
     \/ \E m \in handler[h].msg :
          /\ m \in fresh /\ m \notin seen
          /\ seen' = seen \union {m}
          /\ Set(h, [handler[h] EXCEPT !.pc = "load"])
  /\ UNCHANGED <<fresh, unchecked, link, sent, records>>

\* "Redis down: answering twice beats not answering", though the key may be set.
TakeUnchecked(h) ==
  /\ Stands(h, "new")
  /\ \E m \in handler[h].msg :
       /\ m \in fresh /\ unchecked[m] < MaxOutages
       /\ unchecked' = [unchecked EXCEPT ![m] = @ + 1]
       /\ seen' \in {seen, seen \union {m}}
  /\ Set(h, [handler[h] EXCEPT !.pc = "load"])
  /\ UNCHANGED <<fresh, link, sent, records>>

\* The connection is read again; a customer over the limit gets no answer.
Load(h) ==
  /\ Stands(h, "load")
  /\ IF RowExists(h)
     THEN \E next \in {"chat", "commit"} : Set(h, [handler[h] EXCEPT !.pc = next])
     ELSE EndTask(h)
  /\ UNCHANGED <<fresh, redis, link, sent, records>>

\* A chat turn that writes nothing, or the fixed reply to what is not text.
Reply(h) ==
  /\ Stands(h, "chat")
  /\ Set(h, [handler[h] EXCEPT !.pc = "send"])
  /\ UNCHANGED <<fresh, redis, link, sent, records>>

\* The language model fails, and the whole task with it.
ChatFails(h) ==
  /\ Stands(h, "chat")
  /\ EndTask(h)
  /\ UNCHANGED <<fresh, redis, link, sent, records>>

\* A turn that books: the flush of the booking also writes the connection's
\* last_inbound_at, so it waits for the row, and fails if that is gone.
Flushed(h) == RowExists(h)

ChatBooks(h) ==
  /\ Stands(h, "chat")
  /\ ~RowLocked({h})
  /\ Set(h, [handler[h] EXCEPT !.pc = "send", !.flushed = Flushed(h),
                               !.books = RowExists(h), !.dead = ~RowExists(h)])
  /\ UNCHANGED <<fresh, redis, link, sent, records>>

Send(h) ==
  /\ Stands(h, "send")
  /\ \E m \in handler[h].msg : sent' = [sent EXCEPT ![m] = @ + 1]
  /\ Set(h, [handler[h] EXCEPT !.pc = "commit", !.replied = TRUE])
  /\ UNCHANGED <<fresh, redis, link, records>>

\* The gateway refuses; last_error is kept with the rest.
SendFails(h) ==
  /\ Stands(h, "send")
  /\ Set(h, [handler[h] EXCEPT !.pc = "commit"])
  /\ UNCHANGED <<fresh, redis, link, sent, records>>

LoggedRows(h) == handler[h].msg \X (IF handler[h].replied THEN {"in", "out"} ELSE {"in"})

\* The commit writes the connection as well, if no flush has done so before.
CommitTurn(h) ==
  /\ Stands(h, "commit") /\ ~handler[h].dead
  /\ RowExists(h) /\ ~RowLocked({h})
  /\ log' = log \union LoggedRows(h)
  /\ booked' = IF handler[h].books THEN booked \union handler[h].msg ELSE booked
  /\ Set(h, [handler[h] EXCEPT !.pc = "done", !.flushed = FALSE])
  /\ UNCHANGED <<fresh, redis, link, sent>>

\* The connection row is gone, or a flush had failed before.
CommitTurnFails(h) ==
  /\ Stands(h, "commit")
  /\ handler[h].dead \/ ~RowExists(h)
  /\ Set(h, [handler[h] EXCEPT !.pc = "done", !.flushed = FALSE])
  /\ UNCHANGED <<fresh, redis, link, sent, records>>

Finish(h) ==
  /\ Stands(h, "done")
  /\ EndTask(h)
  /\ UNCHANGED <<fresh, redis, link, sent, records>>

\* The process dies, or the commit is lost.
Break(h) ==
  /\ ~Stands(h, "free")
  /\ EndTask(h)
  /\ UNCHANGED <<fresh, redis, link, sent, records>>

----------------------------------------------------------------------------
(* The dashboard                                                           *)

Disconnect ==
  /\ connected /\ ~RowLocked({})
  /\ connected' = FALSE
  /\ UNCHANGED <<fresh, redis, current, via, sent, records, handler>>

\* A new connection has a new id, which no task knows, and a new inbound URL.
Connect ==
  /\ ~connected
  /\ connected' = TRUE
  /\ \E id \in 1 .. MaxConnections :
       /\ current' = id
       /\ \A h \in Handlers : handler[h].conn # id
       /\ \A m \in Messages : via[m] # id
  /\ UNCHANGED <<fresh, redis, via, sent, records, handler>>

Handle(h) ==
  \/ \E m \in Messages : Receive(h, m)
  \/ Take(h) \/ TakeUnchecked(h) \/ Load(h) \/ Reply(h) \/ ChatFails(h) \/ ChatBooks(h)
  \/ Send(h) \/ SendFails(h) \/ CommitTurn(h) \/ CommitTurnFails(h) \/ Finish(h) \/ Break(h)

InboundNext ==
  \/ \E h \in Handlers : Handle(h)
  \/ \E m \in Messages : EventAges(m) \/ Forget(m)
  \/ Disconnect \/ Connect

InboundSpec == InboundInit /\ [][InboundNext]_inboundVars

----------------------------------------------------------------------------
(* Properties                                                              *)

\* No two transactions hold the connection row, and none holds one that is gone.
InboundTypeOK ==
  /\ fresh \subseteq Messages /\ seen \subseteq Messages
  /\ unchecked \in [Messages -> 0 .. MaxOutages]
  /\ connected \in BOOLEAN /\ current \in 1 .. MaxConnections
  /\ via \in [Messages -> 0 .. MaxConnections]
  /\ sent \in [Messages -> Nat]
  /\ log \subseteq Messages \X {"in", "out"}
  /\ booked \subseteq Messages
  /\ handler \in [Handlers -> [pc : {"free", "new", "load", "chat", "send", "commit", "done"},
                               msg : SUBSET Messages, conn : 0 .. MaxConnections,
                               flushed : BOOLEAN, dead : BOOLEAN, books : BOOLEAN,
                               replied : BOOLEAN]]
  /\ \A h \in Handlers : handler[h].flushed => RowExists(h) /\ ~RowLocked({h})

\* docs/21: "each message ID is answered at most once", though the gateway
\* delivers it again, at once or after Redis has forgotten it.  Every delivery
\* that finds Redis down costs at most one answer more.
AnsweredOnce == \A m \in Messages : sent[m] <= 1 + unchecked[m]

\* What the dashboard shows is what happened: an answer in the log was sent,
\* and neither it nor a booking is there without the question.
LogIsTrue ==
  /\ \A m \in Messages : <<m, "out">> \in log => sent[m] > 0
  /\ \A m \in Messages : <<m, "out">> \in log \/ m \in booked => <<m, "in">> \in log

\* A customer whose turn booked and who got the reply has the booking, even if
\* a manager disconnects the workspace in the middle of the turn.  Only a task
\* that dies before its commit breaks this promise.
ToldIsBooked ==
  \A h \in Handlers :
    Stands(h, "done") /\ handler[h].books /\ handler[h].replied => handler[h].msg \subseteq booked

\* Customers are answered once, and told and shown nothing but what happened.
AnswersKept == InboundTypeOK /\ AnsweredOnce /\ LogIsTrue /\ ToldIsBooked

============================================================================

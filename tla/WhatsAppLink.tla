---------------------------- MODULE WhatsAppLink ----------------------------
(***************************************************************************)
(* Connecting a workspace to a WhatsApp gateway (connect and disconnect in *)
(* services/whatsapp.py).  A call reads the row, detaches the old          *)
(* registration at the gateway, writes the row, registers anew and only    *)
(* then commits; each of the gateway's answers may be lost.                *)
(***************************************************************************)
EXTENDS FiniteSets

CONSTANTS
  Gateways,     \* a gateway's address with a session and its API key
  Connects,     \* PUT requests; each makes its own secret and registration
  Disconnects   \* DELETE requests

Managers == Connects \union Disconnects

VARIABLES
  conn,    \* the committed row
  lock,    \* the transaction that has flushed it
  remote,  \* the registrations at the gateways
  manage,  \* each call
  overlapped, \* history: calls that went on beside another one
  lost     \* history: registrations whose removal, answer or commit failed

linkVars == <<conn, lock, remote, manage, overlapped, lost>>

Nothing == "nothing"
Free == "free"
ASSUME NamesAssumption == Nothing \notin Managers /\ Free \notin Managers

\* by: the connect whose key and secret the row has; hook: the one that made
\* the registration it names; id: the one that inserted the row.
NoConn == [id |-> Nothing, base |-> Nothing, by |-> Nothing, hook |-> Nothing]
NoManage == [pc |-> "idle", base |-> Nothing, saw |-> NoConn, id |-> Nothing, hook |-> Nothing]

LinkInit ==
  /\ conn = NoConn /\ lock = Free /\ remote = {} /\ overlapped = {} /\ lost = {}
  /\ manage = [m \in Managers |-> NoManage]

Ended == {"refused", "failed", "done"}
UnderWay == {m \in Managers : manage[m].pc \notin Ended \union {"idle"}}

Stage(m, pc) == manage[m].pc = pc
\* What a call read matters no longer, but which registration a failed one removed.
End(m, pc) ==
  manage' = [manage EXCEPT ![m] =
    [NoManage EXCEPT !.pc = pc, !.base = manage[m].base,
                     !.saw.hook = IF pc = "failed" THEN manage[m].saw.hook ELSE Nothing]]
Goto(m, pc) == manage' = [manage EXCEPT ![m].pc = pc]

\* The gateway has proved address, session and key; the row is read.
BeginManage(m, g) ==
  /\ Stage(m, "idle")
  /\ manage' = [manage EXCEPT ![m] =
       [NoManage EXCEPT !.pc = "read", !.saw = conn, !.base = IF m \in Connects THEN g ELSE Nothing]]
  /\ overlapped' = IF UnderWay = {} THEN overlapped ELSE overlapped \union UnderWay \union {m}
  /\ UNCHANGED <<conn, lock, remote, lost>>

NotConnected(m) ==
  /\ Stage(m, "read") /\ m \in Disconnects /\ manage[m].saw = NoConn
  /\ End(m, "refused")
  /\ UNCHANGED <<conn, lock, remote, overlapped, lost>>

\* Failing to detach stops nobody.  Connect's own key is not needed for it.
Detached_New(m) == remote \ {m}
Detached(m) == remote \ {manage[m].saw.hook}

Detach(m) ==
  /\ Stage(m, "read")
  /\ m \in Connects \/ manage[m].saw # NoConn
  /\ \/ remote' = Detached(m) /\ UNCHANGED lost
     \/ remote' = remote /\ lost' = lost \union {manage[m].saw.hook}
  /\ Goto(m, "detached")
  /\ UNCHANGED <<conn, lock, overlapped>>

\* The first flush waits for the other writer.  An UPDATE has only the columns
\* that differ from the row as it was read, and fails when the row is gone; an
\* INSERT fails when there is one by now.
FlushRow(m) ==
  /\ Stage(m, "detached") /\ m \in Connects /\ lock = Free
  /\ IF manage[m].saw.id = conn.id
       THEN /\ lock' = m
            /\ manage' = [manage EXCEPT ![m].pc = "flushed",
                            ![m].id = IF conn = NoConn THEN m ELSE conn.id]
       ELSE UNCHANGED lock /\ End(m, "failed")
  /\ UNCHANGED <<conn, remote, overlapped, lost>>

BaseOf(m) == IF manage[m].base = manage[m].saw.base THEN conn.base ELSE manage[m].base

RowOf(m) == [id |-> manage[m].id, base |-> BaseOf(m), by |-> m, hook |-> manage[m].hook]

\* The gateway registers, with or without an id in its answer.
Register(m) ==
  /\ Stage(m, "flushed")
  /\ remote' = remote \union {m}
  /\ \E h \in {m, Nothing} :
       /\ manage' = [manage EXCEPT ![m].pc = "registered", ![m].hook = h]
       /\ lost' = IF h = Nothing THEN lost \union {m} ELSE lost
  /\ UNCHANGED <<conn, lock, overlapped>>

\* It does not, or its answer is lost, and the session is rolled back.
RegisterFails(m) ==
  /\ Stage(m, "flushed")
  /\ remote' \in {remote, remote \union {m}}
  /\ lost' = lost \union {m}
  /\ lock' = Free
  /\ End(m, "failed")
  /\ UNCHANGED <<conn, overlapped>>

CommitConnect(m) ==
  /\ Stage(m, "registered")
  /\ conn' = RowOf(m)
  /\ lock' = Free
  /\ End(m, "done")
  /\ UNCHANGED <<remote, overlapped, lost>>

CommitFails(m) ==
  /\ Stage(m, "registered")
  /\ lost' = lost \union {m}
  /\ lock' = Free
  /\ End(m, "failed")
  /\ UNCHANGED <<conn, remote, overlapped>>

\* disconnect deletes the row that it read, if it is still there.
DeleteRow(m) ==
  /\ Stage(m, "detached") /\ m \in Disconnects /\ lock = Free
  /\ \/ conn' = (IF conn.id = manage[m].saw.id THEN NoConn ELSE conn) /\ End(m, "done")
     \/ conn' = conn /\ End(m, "failed")
  /\ UNCHANGED <<lock, remote, overlapped, lost>>

LinkNext ==
  \E m \in Managers :
    \/ \E g \in Gateways : BeginManage(m, g)
    \/ NotConnected(m) \/ Detach(m) \/ FlushRow(m) \/ Register(m) \/ RegisterFails(m)
    \/ CommitConnect(m) \/ CommitFails(m) \/ DeleteRow(m)

LinkSpec == LinkInit /\ [][LinkNext]_linkVars

----------------------------------------------------------------------------
(* Properties                                                              *)

\* Types, and: who has flushed the row holds it.
LinkTypeOK ==
  /\ conn \in [id : Connects \union {Nothing}, base : Gateways \union {Nothing},
               by : Connects \union {Nothing}, hook : Connects \union {Nothing}]
  /\ lock \in Connects \union {Free} /\ remote \subseteq Connects
  /\ overlapped \subseteq Managers /\ lost \subseteq Connects \union {Nothing}
  /\ \A m \in Managers :
       /\ manage[m].pc \in {"idle", "read", "detached", "flushed", "registered"} \union Ended
       /\ lock = m <=> manage[m].pc \in {"flushed", "registered"}

\* A connected workspace hears its gateway: the registration with the
\* secret of the row is there.  Only a call that detached it and has not
\* committed, because it goes on or because it failed, leaves a row that is deaf.
ConnectedHears ==
  conn # NoConn =>
    \/ conn.by \in remote
    \/ \E m \in Managers : manage[m].saw.hook = conn.by /\ manage[m].pc \in {"detached", "flushed", "registered", "failed"}

\* "so the old session stops calling us": calls that follow each other leave no
\* registration behind but the row's own, unless the gateway or a commit failed.
NoStrayRegistration ==
  \A h \in remote : h = conn.hook \/ Stage(h, "registered") \/ h \in overlapped \union lost

\* A row is of one connect: its address is the one its key and secret are for,
\* unless another call wrote the row between the read and the flush.
RowIsOneConnect == conn # NoConn => conn.base = manage[conn.by].base \/ conn.by \in overlapped

\* The row and the gateway agree, but for what a failure or an overlap explains.
LinkSound == LinkTypeOK /\ ConnectedHears /\ NoStrayRegistration /\ RowIsOneConnect

============================================================================

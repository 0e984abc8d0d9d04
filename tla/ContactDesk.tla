---------------------------- MODULE ContactDesk ----------------------------
(***************************************************************************)
(* Requests for custom solutions (services/contact.py, its public route    *)
(* and the admins' inbox).  A submission looks for an equal recent one,    *)
(* commits its row and leaves a background task that writes to the admins  *)
(* and the requester.  Admins read a row, may send an e-mail, and write    *)
(* back the columns that they have changed in the row as they read it.     *)
(***************************************************************************)
EXTENDS FiniteSets

CONSTANTS
  Submissions,  \* posts of the contact form; one that is stored names its row
  Texts,        \* what they say, with the address they come from
  LinkStuffed,  \* the texts with more than four links
  AdminCalls    \* requests of admins about one row

ASSUME TextsAssumption == LinkStuffed \subseteq Texts

Open == {"new", "contacted"}
Statuses == Open \union {"scheduled", "closed", "spam"}   \* closed: won or lost
NoRow == "none"

VARIABLES
  post,     \* each submission: where it is, what it says, what was answered before it
  row,      \* the committed status of each row
  aged,     \* rows created more than _DEDUPE_WINDOW ago
  notice,   \* the background task of each row: none, queued, sent, skipped
  call,     \* each admin's request: the row, the columns it sets, the status it read
  invited,  \* rows whose requester got the scheduling e-mail
  marked,   \* rows with last_contacted_at
  vetted    \* rows whose status was set by an admin's hand

deskVars == <<post, row, aged, notice, call, invited, marked, vetted>>

NoCall == [pc |-> "idle", on |-> NoRow, saw |-> NoRow, set |-> NoRow]

DeskInit ==
  /\ post = [s \in Submissions |-> [pc |-> "idle", text |-> "none", after |-> {}]]
  /\ row = [s \in Submissions |-> NoRow]
  /\ aged = {} /\ invited = {} /\ marked = {} /\ vetted = {}
  /\ notice = [s \in Submissions |-> "none"]
  /\ call = [a \in AdminCalls |-> NoCall]

Stored == {s \in Submissions : row[s] # NoRow}

----------------------------------------------------------------------------
(* submit_contact and create_request                                       *)

\* A filled honeypot and the hourly limit of the address end it here.
Submit(s, text) ==
  /\ post[s].pc = "idle"
  /\ \E pc \in {"looking", "refused"} :
       post' = [post EXCEPT ![s] =
         [pc |-> pc, text |-> text, after |-> {t \in Submissions : post[t].pc = "answered"}]]
  /\ UNCHANGED <<row, aged, notice, call, invited, marked, vetted>>

Equal(s) == {t \in Stored \ aged : post[t].text = post[s].text}

\* An equal row is answered with; its own is added otherwise.
Look(s) ==
  /\ post[s].pc = "looking"
  /\ post' = [post EXCEPT ![s].pc = IF Equal(s) = {} THEN "adding" ELSE "answered"]
  /\ UNCHANGED <<row, aged, notice, call, invited, marked, vetted>>

FirstStatus(s) == IF post[s].text \in LinkStuffed THEN "spam" ELSE "new"

\* The commit comes before the task is left, and before the answer.
Store(s) ==
  /\ post[s].pc = "adding"
  /\ row' = [row EXCEPT ![s] = FirstStatus(s)]
  /\ notice' = [notice EXCEPT ![s] = "queued"]
  /\ post' = [post EXCEPT ![s].pc = "answered"]
  /\ UNCHANGED <<aged, call, invited, marked, vetted>>

StoreFails(s) ==
  /\ post[s].pc \in {"looking", "adding"}
  /\ post' = [post EXCEPT ![s].pc = "refused"]
  /\ UNCHANGED <<row, aged, notice, call, invited, marked, vetted>>

Age(s) ==
  /\ s \in Stored \ aged
  /\ aged' = aged \union {s}
  /\ UNCHANGED <<post, row, notice, call, invited, marked, vetted>>

Noticed(s) == IF row[s] \in {NoRow, "spam"} THEN "skipped" ELSE "sent"

\* notify_new_request: e-mails that fail and the operator's hook stop nothing.
NotifyAdmins(s) ==
  /\ notice[s] = "queued"
  /\ notice' = [notice EXCEPT ![s] = Noticed(s)]
  /\ UNCHANGED <<post, row, aged, call, invited, marked, vetted>>

----------------------------------------------------------------------------
(* The admins' inbox                                                       *)

Over(a, pc) == call' = [call EXCEPT ![a] = [NoCall EXCEPT !.pc = pc, !.on = call[a].on]]

Read(a, s, pc, set) ==
  /\ call[a].pc = "idle" /\ s \in Stored
  /\ call' = [call EXCEPT ![a] = [pc |-> pc, on |-> s, saw |-> row[s], set |-> set]]
  /\ UNCHANGED <<post, row, aged, notice, invited, marked, vetted>>

\* update_request: a status, a meeting (which schedules an open request), or
\* only columns beside them.  A value equal to the one read is not written.
AutoStatus(saw) == IF saw \in Open THEN "scheduled" ELSE NoRow

ReadForUpdate(a, s) ==
  \/ \E status \in Statuses : Read(a, s, "set", IF status = row[s] THEN NoRow ELSE status)
  \/ Read(a, s, "auto", AutoStatus(row[s]))
  \/ Read(a, s, "auto", NoRow)

\* send_scheduling_email: without a link or a mailer, and when the e-mail
\* fails, nothing is written.
ReadForMail(a, s) == Read(a, s, "mailing", NoRow)

MailStatus_Any(saw) == "contacted"
MailStatus(saw) == IF saw = "new" THEN "contacted" ELSE NoRow

MailSent(a) ==
  /\ call[a].pc = "mailing"
  /\ invited' = invited \union {call[a].on}
  /\ call' = [call EXCEPT ![a].pc = "mailed", ![a].set = MailStatus(call[a].saw)]
  /\ UNCHANGED <<post, row, aged, notice, marked, vetted>>

MailFails(a) ==
  /\ call[a].pc = "mailing"
  /\ Over(a, "failed")
  /\ UNCHANGED <<post, row, aged, notice, invited, marked, vetted>>

\* The row as it is now keeps what was not set.  A row that was deleted makes
\* the flush fail, after the e-mail.
Keep(a) == IF call[a].set = NoRow THEN row[call[a].on] ELSE call[a].set

Mark(a) == IF call[a].pc = "mailed" THEN marked \union {call[a].on} ELSE marked

Write(a) ==
  /\ call[a].pc \in {"set", "auto", "mailed"}
  /\ IF call[a].on \in Stored
       THEN /\ row' = [row EXCEPT ![call[a].on] = Keep(a)]
            /\ marked' = Mark(a)
            /\ vetted' = IF call[a].pc = "set" /\ call[a].set # NoRow THEN vetted \union {call[a].on} ELSE vetted
       ELSE UNCHANGED <<row, marked, vetted>>
  /\ Over(a, IF call[a].on \in Stored THEN "done" ELSE "failed")
  /\ UNCHANGED <<post, aged, notice, invited>>

WriteFails(a) ==
  /\ call[a].pc \in {"set", "auto", "mailed"}
  /\ Over(a, "failed")
  /\ UNCHANGED <<post, row, aged, notice, invited, marked, vetted>>

\* delete_request
Delete(a, s) ==
  /\ call[a].pc = "idle" /\ s \in Stored
  /\ row' = [row EXCEPT ![s] = NoRow]
  /\ call' = [call EXCEPT ![a] = [NoCall EXCEPT !.pc = "done", !.on = s]]
  /\ UNCHANGED <<post, aged, notice, invited, marked, vetted>>

DeskNext ==
  \/ \E s \in Submissions :
       \/ \E text \in Texts : Submit(s, text)
       \/ Look(s) \/ Store(s) \/ StoreFails(s) \/ Age(s) \/ NotifyAdmins(s)
       \/ \E a \in AdminCalls : ReadForUpdate(a, s) \/ ReadForMail(a, s) \/ Delete(a, s)
  \/ \E a \in AdminCalls : MailSent(a) \/ MailFails(a) \/ Write(a) \/ WriteFails(a)

DeskSpec == DeskInit /\ [][DeskNext]_deskVars

----------------------------------------------------------------------------
(* Properties                                                              *)

\* Types, and what belongs together: only a submission that was answered has
\* a row or a notice, and only rows are written about.
DeskTypeOK ==
  /\ row \in [Submissions -> Statuses \union {NoRow}]
  /\ notice \in [Submissions -> {"none", "queued", "sent", "skipped"}]
  /\ \A s \in Submissions : row[s] # NoRow => post[s].pc = "answered" /\ notice[s] # "none"
  /\ marked \subseteq invited /\ vetted \union invited \subseteq {s \in Submissions : notice[s] # "none"}

\* "a double-submit returns the earlier row": of two equal submissions one is
\* stored if the second was made after the first was answered, unless it came
\* after the window.
ResubmittedOnce ==
  \A s, t \in Stored \ aged : post[s].text = post[t].text => s \notin post[t].after

\* "persist before the notification task reads it": a task finds the row it
\* was left for, and is silent only about spam or what an admin has decided.
NoticeFindsItsRow ==
  \A s \in Submissions :
    notice[s] = "skipped" =>
      \/ post[s].text \in LinkStuffed \/ s \in vetted
      \/ \E a \in AdminCalls : call[a].on = s /\ call[a].pc = "done"

\* Nobody gets an e-mail for a link-stuffed text, unless an admin set its status
\* or wrote to its sender.
SpamIsSilent ==
  \A s \in Submissions : notice[s] = "sent" /\ post[s].text \in LinkStuffed => s \in vetted

\* Whoever got the scheduling e-mail is marked as contacted, unless the row was
\* deleted under the call or its commit failed.
InvitationRecorded ==
  \A s \in invited \ marked :
    \/ row[s] = NoRow
    \/ \E a \in AdminCalls : call[a].on = s /\ call[a].pc \in {"mailed", "failed"}

\* What an admin has decided by hand is undone by no meeting and no e-mail of
\* another, except by one that read the row before the decision.
DecisionKept ==
  [][\A s \in Submissions, a \in AdminCalls :
       /\ row[s] \in Statuses \ Open /\ row'[s] \notin {row[s], NoRow}
       /\ call[a].on = s /\ call[a].pc # call'[a].pc
       => call[a].pc = "set" \/ call[a].saw \in Open]_<<row, call>>

\* What the desk promises of every request, and of the hands that work on it.
RequestsKept ==
  DeskTypeOK /\ ResubmittedOnce /\ NoticeFindsItsRow /\ SpamIsSilent /\ InvitationRecorded
DeskKept == []RequestsKept /\ DecisionKept

============================================================================

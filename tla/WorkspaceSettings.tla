------------------------- MODULE WorkspaceSettings -------------------------
(***************************************************************************)
(* The settings of a workspace and its agent (services/tenants.py and the  *)
(* routes that save), and the e-mail alerts that read them                 *)
(* (services/notifications.py).  A save merges its keys into the settings  *)
(* its request has read, and writes the whole column with an audit row.    *)
(***************************************************************************)
EXTENDS Integers, FiniteSets

CONSTANTS
  Saves,   \* requests of managers; each writes values of its own
  Parts,   \* top-level keys of settings; "notifications" is one
  Alerts   \* events of the workspace, and their alert tasks

ASSUME PartsAssumption == "notifications" \in Parts

VARIABLES
  settings, \* the committed column: for each key, the save that wrote it
  held,     \* the save that has flushed the row
  save,     \* each request
  audit,    \* saves with an audit row
  raced,    \* history: saves during which another one committed
  agent,    \* whether the workspace's agent is active
  alert     \* each event: since when, and what its task read

settingsVars == <<settings, held, save, audit, raced, agent, alert>>

Initially == "initially"
NoOne == "no one"
ASSUME SavesAssumption == NoOne \notin Saves

SettingsInit ==
  /\ settings = [k \in Parts |-> Initially]
  /\ held = NoOne /\ audit = {} /\ raced = {} /\ agent = TRUE
  /\ save = [w \in Saves |-> [pc |-> "idle", saw |-> settings, part |-> NoOne, after |-> {}]]
  /\ alert = [e \in Alerts |-> [pc |-> "idle", after |-> {}, used |-> NoOne]]

Saved == {w \in Saves : save[w].pc = "done"}
Changed == {w \in Saved : save[w].part # NoOne}

----------------------------------------------------------------------------
(* update_tenant, save_alerts and update_agent                             *)

\* get_context reads the tenant; the request sets one key, or other columns.
BeginSave(w, part) ==
  /\ save[w].pc = "idle"
  /\ save' = [save EXCEPT ![w] = [pc |-> "read", saw |-> settings, part |-> part, after |-> Saved]]
  /\ UNCHANGED <<settings, held, audit, raced, agent, alert>>

\* validate refuses the addresses or the events.
Invalid(w) ==
  /\ save[w].pc = "read"
  /\ save' = [save EXCEPT ![w].pc = "refused"]
  /\ UNCHANGED <<settings, held, audit, raced, agent, alert>>

Flush(w) ==
  /\ save[w].pc = "read" /\ held = NoOne
  /\ held' = w
  /\ save' = [save EXCEPT ![w].pc = "flushed"]
  /\ UNCHANGED <<settings, audit, raced, agent, alert>>

\* "merge, so a partial update never wipes other keys"
Merged_Replaced(w) == [k \in Parts |-> IF k = save[w].part THEN w ELSE Initially]
Merged(w) == IF save[w].part = NoOne THEN settings ELSE [save[w].saw EXCEPT ![save[w].part] = w]

\* The audit row is of the same transaction.
CommitSave(w) ==
  /\ save[w].pc = "flushed"
  /\ settings' = Merged(w)
  /\ audit' = audit \union {w}
  /\ raced' = raced \union {v \in Saves \ {w} : save[v].pc \in {"read", "flushed"}}
  /\ held' = NoOne
  /\ save' = [save EXCEPT ![w].pc = "done"]
  /\ UNCHANGED <<agent, alert>>

SaveFails(w) ==
  /\ save[w].pc = "flushed"
  /\ held' = NoOne
  /\ save' = [save EXCEPT ![w].pc = "failed"]
  /\ UNCHANGED <<settings, audit, raced, agent, alert>>

\* PUT /agents/current, of the oldest active agent; sign-up has made one.
SaveAgent(active) ==
  /\ agent
  /\ agent' = active
  /\ UNCHANGED <<settings, held, save, audit, raced, alert>>

----------------------------------------------------------------------------
(* Alerts                                                                  *)

\* emit starts the task for an event of a commit.
Raise(e) ==
  /\ alert[e].pc = "idle"
  /\ alert' = [alert EXCEPT ![e] = [pc |-> "raised", after |-> Changed, used |-> NoOne]]
  /\ UNCHANGED <<settings, held, save, audit, raced, agent>>

\* notify reads who wants it, and sends; failing stops nobody.
Notify(e) ==
  /\ alert[e].pc = "raised"
  /\ alert' = [alert EXCEPT ![e].pc = "sent", ![e].used = settings["notifications"]]
  /\ UNCHANGED <<settings, held, save, audit, raced, agent>>

SettingsNext ==
  \/ \E w \in Saves :
       \/ \E part \in Parts \union {NoOne} : BeginSave(w, part)
       \/ Invalid(w) \/ Flush(w) \/ CommitSave(w) \/ SaveFails(w)
  \/ \E active \in BOOLEAN : SaveAgent(active)
  \/ \E e \in Alerts : Raise(e) \/ Notify(e)

SettingsSpec == SettingsInit /\ [][SettingsNext]_settingsVars

----------------------------------------------------------------------------
(* Properties                                                              *)

\* Types, and: exactly what was committed is in the audit log.
SettingsTypeOK ==
  /\ settings \in [Parts -> Saves \union {Initially}]
  /\ held \in Saves \union {NoOne} /\ audit = Saved /\ raced \subseteq Saves /\ agent \in BOOLEAN
  /\ \A w \in Saves : save[w].pc \in {"idle", "read", "flushed", "refused", "done", "failed"}
  /\ \A w \in Saves : held = w <=> save[w].pc = "flushed"
  /\ \A e \in Alerts : alert[e].pc \in {"idle", "raised", "sent"}

\* A save is undone by a later save of the same key only, or by one that had
\* read the settings before it was committed and overwrites them all.
Superseded(w) ==
  \E v \in Changed \ {w} :
    (w \in save[v].after /\ save[v].part = save[w].part) \/ (w \notin save[v].after /\ v \in raced)

SaveStands == \A w \in Changed : settings[save[w].part] = w \/ Superseded(w)

\* An alert goes to the recipients of the settings as saved before its event,
\* or later: never to those that a save of the alerts had replaced by then,
\* unless another save has brought them back.
AlertsFollowSettings ==
  \A e \in Alerts :
    alert[e].pc = "sent" =>
      \A w \in alert[e].after :
        save[w].part = "notifications" => alert[e].used = w \/ Superseded(w)

\* What managers save stands, is audited, and is what the alerts go by.
SettingsStand == SettingsTypeOK /\ SaveStands /\ AlertsFollowSettings

============================================================================

# TLA+ models of Agentic-OpenFrontDesk

The system is a multi-tenant AI receptionist. Python processes serve an HTTP API (`src/src/ofd/api`) and run
voice agents as LiveKit jobs (`src/src/ofd/agent`); both call the services in `src/src/ofd/services`, which
keep their state in Postgres (through SQLAlchemy sessions) and in Redis. A Next.js front end (`src/apps/web`)
is the dashboard and the browser side of a test call. Beside it stand an evaluation harness (`src/eval`) and
scripts (`src/scripts`).

Nothing in the system is computed by threads that share memory. What makes it hard is that *every database
statement, Redis command, HTTP post and model call is an `await`*: any number of requests, background tasks
and processes interleave there, each of them may fail or die there, and what was read before an await may be
stale after it. The models in this directory are about exactly that.

## 1. Inventory

| Part | State | Operations | Talks to |
|---|---|---|---|
| Voice access, `services/access.py` | Redis: `voice:active` (tenant → end of lease), `voice:queue` (tenant → time of joining); table `access_allowlist` | acquire, heartbeat, release, status, admin snapshot, allowlist add/remove | voice API; the browser hook polls it |
| Browser voice session, `use-voice-session.ts` | phase, rooms, timers, the refs `holding`, `cancelled`, `room`, `beat` | start (poll, connect), heartbeat, stop, the room's events, leaving the page | voice API, LiveKit |
| Calls and worker, `services/calls.py`, `agent/worker.py`, `agent/frontdesk.py` | table `call`; the job's `call_id` | start, finalize, tools during the call, drain at shutdown | LiveKit, booking, leads, outbox |
| Call latency, `agent/metrics.py` | the delays of each stage, in memory | an event, the snapshot | the call's record |
| Booking, `services/booking.py` | table `booking` | check_availability, book, cancel | chat tools, voice tools, public API; Cal.com; outbox |
| Chat, `services/chat.py` | none of its own: one session per turn | a loop of at most four rounds of tools | language model, booking, leads, knowledge |
| WhatsApp, `services/whatsapp.py` | tables `whatsapp_connection`, `channel_message`; Redis `wa:seen`, `wa:hist`; the registration at the gateway | inbound message, connect, disconnect | gateway, chat, quota |
| Sessions and outbox, `db/session.py`, `services/webhooks.py` | the open transactions, the events queued in `session.info`, the tasks in `_TASKS` | emit_on_commit, the after-commit and rollback hooks, emit, drain | every service that announces rows |
| Webhook delivery, `services/webhooks.py` | tables `webhook_endpoint` (is_active, failure_count), `webhook_delivery` | deliver, retry, record, auto-disable; create, patch, delete, send a test | receivers; the dashboard |
| Knowledge ingestion, `services/knowledge.py`, `rag/` | tables `knowledge_doc`, `doc_chunk`; background jobs | add, index, time out, re-index, delete, recover at start; cut a text | embedder, parser; outbox |
| Contact requests, `services/contact.py` | table `contact_request`; a notification task per row | submit, list, update, write an e-mail, delete | mailer; admins |
| Quota, `services/quota.py` | one Redis counter per subject and window | hit | public API, chat, WhatsApp, contact form |
| API keys, `services/apikeys.py` | table `api_key` | create, revoke, authenticate and touch | public API |
| Sign-up and sign-in, `services/auth.py`, `api/deps.py`, `core/security.py` | tables `app_user`, `tenant`, `agent`; tokens in browsers | sign up, log in, refresh, check a token | the dashboard |
| Settings, `services/tenants.py`, `services/audit.py`, `services/notifications.py` | `tenant.settings`, `agent`, `audit_log` | merge and save, switch the agent off, alert | dashboard; mailer |
| Evaluation, `eval/runner.py`, `eval/scorers.py` | a transcript and the calls of a scenario | converse, run tools, score, count | language model, the agent's tools |
| Demo seeding, `scripts/seed_demo.py` | rows of the workspace `demo` | five look-ups and additions, one commit | ingestion |
| SMS, analytics, Cal.com, n8n, secretbox, providers, pages, metrics | none, or rows that are only inserted | I/O and formatting | |

Which behaviours are hard, and what would make the parts correct:

* **Voice access.** acquire counts the slots and claims one four commands later; a command may fail in the
  middle; leases and waiters disappear by themselves or not at all. Correct: the cap is kept, or exceeded by a
  known bound; waiters are admitted in order and keep their place; an expired lease neither blocks nor comes
  back; everyone who waits is served.
* **Browser session.** Callbacks of several `start()` share refs that `stop()` and the room's events reset
  under them. Correct: who talks holds a slot; after stop nothing polls, beats or talks on; what is held is
  given back.
* **Calls.** Tools run in sessions of their own while the call's row may not exist; the process may be killed.
  Correct: what the caller was told is stored, and what is stored is announced before the job ends.
* **Booking.** The overlap check and the commit are a whole chat turn apart, and the search for free slots
  awaits at every slot. Correct: no double booking, or a bound on it; offers were free and open when looked
  at; none is missed.
* **Chat.** Tools swallow exceptions and the turn goes on in a transaction that may be aborted; the answer may
  leave before the commit; Cal.com takes no part in a rollback. Correct: every turn is answered, and what it
  promised is stored, but for named failures.
* **Outbox.** The announcement must follow a commit that took effect, for sessions that survive errors (chats)
  as for those that do not. Correct: only committed data is announced, and all of it.
* **Webhook delivery.** One transaction spans all the posts of an event, with row locks held in between;
  managers change the same rows. Correct: no stale write revives an endpoint or miscounts failures; deliveries
  end; each post has its log row.
* **Knowledge.** Jobs live in memory, documents in the database. Correct: each document is settled in the end,
  none is settled wrongly, only searchable ones are announced, and chunks cover their text.
* **WhatsApp.** Delivery is at least once, the reply is sent before its record is committed, the connection
  may vanish, and the gateway's registration and the row change one after the other. Correct: one answer for a
  message; the log tells the truth; a confirmed booking exists; a connected workspace is heard, and no
  registration is left over, but for named failures. What is remembered of a customer is whole exchanges,
  bounded, and dies.
* **Dashboard.** Settings, contact requests, keys and sign-ups read a row or a count, await, and write.
  Correct: a save stands and is audited; alerts go by what is saved; a sent e-mail is recorded and a decision
  not undone by a stale read; keys stay bounded by the creations that overlap; a revoked key is never served
  again; a sign-up fails only beside a rival.
* **Quota.** Two Redis commands and many clocks. Correct: no window admits more than its limit, and counters
  that never expire come from a failing command only.
* **Evaluation and seeding.** Correct: a scenario passes only for what happened; a seed adds what is missing
  once, or nothing.

## 2. Modules

| Module | What it is | State and actions |
|---|---|---|
| `VoiceAccess` | `access.py`, one step per Redis command | `active`, `queue` are the sorted sets (`Absent` = no member), `req[r]` the request's next command (`pc`) and its local variables (`now`, `allow`, `seen` = the ZCARD it read). `Count`, `Enqueue`, `CheckRank`, `Dequeue`, `Claim` are the lines 62–69 of acquire one by one; `Purge`, `CheckHeld`, `Refresh`, `Unqueue` the lines 49–60. `Abort` is a failing command or a dying worker |
| `VoicePool` | abstract specification: a pool of `Cap` slots with a queue, admission in one step | `holders`, `waiting` |
| `VoiceWaitlist` | the callers: browsers that poll, stop or vanish, with one operation of `access.py` as one step | `browser`, `holders`, `expired`, `waiting` |
| `VoiceSession` | the hook: one *flow* per call of `start()`, beside `stop()`, the room's events and the unloading page | `flow[f]` is where its awaits are, `holding`, `quit`, `current`, `beatRef` the refs, `beats` and `rooms` what runs without them, `slot` the lease at the server. `Close` is a call of `disconnect()`, which puts a room into `closing`; `Disconnected` is its handler, a step of its own that runs later and finds the refs as they are by then. `StopCall` awaits it, `StartFails` and `Leave` do not |
| `CallLife` | a job of the worker with the agent's tools | `job`, `callId` (the variable) and `callRow` (the row), `tool[t]`, `tasks` and `awaited` for drain |
| `CallLatency` | `handle` and `snapshot` of the metrics collector | `bucket[s]`, the percentiles as an operator |
| `BookingDesk` | `booking.py` in the sessions that call it | `bookings` are committed rows, `desk[d]` an open session with its uncommitted rows `mine`; `CheckFree`, `Insert` and `Commit` are apart because awaits lie between them |
| `SlotSearch` | check_availability as a walk over days and slots | the walk's position and offers; others book and cancel between its queries |
| `ChatTurn` | `chat()` with `_run_tool` | `turn[t]`: round, the state of its transaction, what it told; `calendar` is Cal.com; `AnswerFirst` and `CommitTurn` are both orders of answer and commit |
| `WhatsAppInbound` | the inbound route and handle_inbound | `handler[h]` is one background task; `fresh`, `seen`, `unchecked` are the three lines of defence against duplicates (age, Redis key, and what happens when Redis is down) |
| `WhatsAppMemory` | `_history` and `_remember`, one step per Redis command | `lines` the list `wa:hist`, `dies` whether it has an expiry, `exchange[x]` a task that remembers, `recalled` what an agent was last shown |
| `WhatsAppLink` | connect and disconnect | `conn` the committed row, `remote` the registrations at the gateways, `manage[m]` a call between its awaits |
| `EventOutbox` | emit_on_commit, the session hooks, `_TASKS`, drain | `session[s].tx` tells a live transaction from one that Postgres has aborted and from one SQLAlchemy has rolled back; `Chats` are the sessions that swallow errors |
| `WebhookDelivery` | `_deliver_event`, `_deliver`, `send_test`, and the dashboard's changes | `ep` the committed rows, `lane[l]` one delivery: what it `loaded`, what it has written (`row`, `wrote`) and therefore locked, `manager[m]` a PATCH between its read and its write |
| `KnowledgeIngestion` | `knowledge.py` with its background jobs and processes | `doc`, `job`, `reindexing`, `server`; a running job holds its document's row lock, since its first flush writes it |
| `Chunking` | `chunk_text` as a loop over windows of words | `start`, `chunks`; a chunk is the pair of its ends |
| `ContactDesk` | intake, notification task, inbox | `post[s]`, `row`, `notice`, `call[a]` an admin between the read and the write |
| `RateWindow` | `hit` | `counter`, `expiry` per subject and window, `hit[r]` with its own clock |
| `Keyring` | creation, use and revocation of keys | `key`, `making[c]` with the count it read, `holder` the transaction that has touched a key's row |
| `Accounts` | sign-up, log-in, refresh, the gates | `up[s]` a sign-up between its look-ups and its INSERTs, `kept` the tokens in browsers |
| `WorkspaceSettings` | the merge of settings, audit rows, alerts | `settings` with the save that wrote each key, `save[s]` what a request has read, `alert[e]` |
| `EvalRun` | a suite of the harness and its scorers | `transcript`, `calls`, `todo`, `failures` |
| `DemoSeed` | runs of the seed script | `db` counts rows of each part, `seeding[r]` |
| `…_proofs` | theorems, see section 5: `VoiceAccess`, `WebhookDelivery`; `Desk` (outbox, knowledge, chunks, accounts), `Booking` (desk, search), `Workspace` (keys, quota, settings, contact requests), `WhatsApp` (inbound, memory, link), `Talk` (hook, chat turn), `Line` (calls, percentiles, waiting line, harness, seeding) | |

How they compose. `VoiceWaitlist` takes the operations of `VoiceAccess` as atomic and adds their callers;
`VoiceAccess` is shown to refine `VoicePool`, which is the licence for that when requests do not overlap.
`VoiceSession` takes the slot as the server's record of one workspace and adds the client's races.
`BookingDesk`, `EventOutbox` and `ChatTurn` contain the session of a chat turn that survives a refused tool
call (`chat.py:221`), each for the question it asks: overlaps, announcements, promises. `EventOutbox.tasks`
are the deliveries that `WebhookDelivery.Emit` starts and `CallLife` waits for. `DemoSeed.docs` is the
ingestion that `KnowledgeIngestion` takes step by step.

The `MC…` modules put components side by side for TLC: they share no variable, the variable `part` says which
of them a behaviour is of, and only that one takes steps. A behaviour of such a module is therefore a
behaviour of one component with the others at rest, every property is about one component, and fairness is
stated for the steps of the part that goes on (`InKeys(A)` is `A` in the part of keys). `MCWebhookDelivery`
and the runs with a component's name hold that component alone.

What is abstracted, everywhere: names, texts, payloads and formatting; validation that only refuses a request;
read-only queries. Times are small integers or a set (`fresh`, `aged`) when only "older than" matters.
Postgres runs at its default READ COMMITTED: a transaction reads what is committed at that moment and its own
writes, a second writer of a row waits for the first and then looks again, an INSERT waits for the uncommitted
one with the same unique value, a circle of waiters is broken by aborting one. That is external behaviour and
marked so in the map. Variables marked *history* in the modules are written and never read by the actions:
properties use them to say which race or failure is the exception.

## 3. Runs

| Run | Instance | Shows |
|---|---|---|
| `arrivals` | voice: 3 tenants, 2 overlapping requests, cap 1, leases of 1 unit, clock up to 2; messages: 2 messages, 2 tasks, 2 connection ids, 1 Redis outage | `HoldersBounded`: the cap is exceeded by at most the number of other requests in flight. `PlaceKept`: polling neither loses nor improves a place. `HeartbeatNeverClaims`: a lease that is gone stays gone until acquire. `AnswersKept`: a message is answered once and once more for each delivery that Redis could not check, the log shows only what was sent, a customer told of a booking has one |
| `voice_serial` | 4 tenants (1 allowlisted), 1 request at a time, cap 2, leases of 2 units, clock up to 3, any command may fail | `CapRespected`, `OnlyLiveCounted`, `AdmittedInOrder`, and `ImplementsPool`, the refinement of `VoicePool` |
| `voice_cap` (violation) | 2 tenants, 2 requests, cap 1 | two overlapping acquires exceed MAX_CONCURRENT_VOICE |
| `booking_double` (violation) | 2 sessions, 3 times, appointments of 2 | two sessions confirm the same time |
| `webhook_overlap` | 2 endpoints (1 managed), 2 deliveries, 1 manager, disabled after 1 failure, 2 attempts | `CountBackedByLog`, `PausedStaysPaused`, `EveryPostRecorded`, `EveryDeliveryEnds`; no deadlock |
| `office` | 2 booking sessions, 3 times, appointments of 2; a search over 2 days of 4 with slots of 2, 2 offers, 2 bookings beside it; 2 submissions (1 text stuffed with links) and 2 admin calls; 3 requests, 2 subjects, limit 1, windows of 2, time up to 3; 2 connects, 1 disconnect, 2 gateways; 3 saves, 1 alert | `OneDeskNeverOverlaps`, `OverbookingBounded`; `OffersAreRight`; `DeskKept`; `LimitsHold`; `LinkSound`; `SettingsStand` |
| `desk` | 3 key creations, 2 uses, 1 revocation, at most 1 key; 2 sign-ups, 2 e-mails, 2 names, 1 browser; texts of 0–9 words × targets 1–4 × overlaps 0–5; 2 documents (1 with failing statements), 2 processes (1 may die); 1 request and 1 chat, 2 rows | `KeysBounded`, `KeysServed`; `SignupsEnd`; `ChunksAreRight`; `IndexSound`, `EveryJobSettles`; `OnlyCommittedAnnounced`, `EveryCommitAnnounced` |
| `line` | 2 tools and 1 look-up in a call; 4 browsers, cap 2, 1 vanished waiter; 12 metrics events of 2 delays; 2 scenarios, 2 turns, 1 tool call each; 2 seeders | `CallsKept`, `LineKept`, `LatencyKept`, `EvalSound`, `SeedingKept` |
| `talk` | 2 flows of the hook; 2 chat turns, 1 slot, 2 rounds; 3 messages of one customer, 2 turns kept, 1 shown | `SessionKept`, `TurnsKept`, `MemoryKept` |
| `waitlist_ghosts` (violation) | 3 browsers, cap 1, 1 vanished waiter | a waiter that vanished is never removed and keeps everyone out |
| `calls_record` (violation) | 1 booking in 1 call | a call whose record was flushed and not committed refuses every booking of its caller |
| `hook_stop` (violation) | 2 flows | stop and start within one pause of polling leave two loops |

What the properties that join several facts stand for:

* `DeskKept` (contact requests). Of two equal submissions within ten minutes one is stored, if the second was
  made after the first was answered. The notification task finds its committed row. A text stuffed with links
  gets no e-mail unless an admin has vetted it. Whoever got the scheduling e-mail is marked as contacted,
  unless the row was deleted or the commit failed. An admin's decision is not undone by the e-mail of another,
  except one that had read the row before.
* `LimitsHold` (quota). While Redis answers, no counter admits more than the limit, no span of a window's
  length more than twice that, and a request is refused only by a window that is full.
* `LinkSound` (WhatsApp connection). A connected workspace has its registration at the gateway, unless a call
  has detached it and not yet committed; no registration is left over except after calls that overlapped or
  answers that were lost; a row's columns are of one connect.
* `SettingsStand`. What a save wrote is replaced only by a later save of the same key or by one that had read
  before it was committed; the audit log holds exactly what was committed; an alert never goes by recipients
  that had been replaced before its event.
* `KeysBounded`, `KeysServed` (API keys). A workspace has at most `MaxKeys - 1` keys and as many more as there
  were creations overlapping. A key presented after its revocation was committed is refused, what is revoked
  stays so, every use and revocation ends although each waits for the row the others hold.
* `SignupsEnd`. A sign-up fails only beside a rival for its e-mail or name, every one ends, and who was
  disabled or rolled back is out once the short access token has expired.
* `IndexSound`, `EveryJobSettles` (knowledge). Whoever hears of a document can search it. A running job is
  left alone by all who clean up, an indexed document is never called failed, and every job settles unless a
  statement of its own fails.
* `CallsKept`. What the agent confirms to a caller is stored, a job ends, and every committed row is announced
  unless the process is killed or drain has run out. `LineKept`: a waiter for whom there is room keeps it until
  it is admitted or gives up, unless an allowlisted caller walks past the line, and every waiter is served
  while fewer waiters than slots have vanished.
* `SessionKept` (the hook). A call is live after `stop()` only where stop found it importing its library,
  unless flows have shared the refs or a closed room's handler ran late; who talks holds the slot but after a
  lapsed lease, a release that overtook a grant, in such a call, after flows have shared the refs (`revived`),
  or after the late handler of a closed room released what a newer flow held (`crossed`). A slot is free in the
  end unless a timer without an owner beats for it. A heartbeat that fails unnoticed is inside `lapsed`: the
  hook does nothing about it, so the property excuses it and does not bound it.
* `TurnsKept` (chat). Every turn is answered; what it promised is stored unless a statement or the commit
  failed; Cal.com holds what the database holds under the same exceptions.
* `MemoryKept` (WhatsApp memory). An agent is shown whole exchanges, question and answer; the list is bounded
  by the turns kept and the tasks under way; it dies unless a command failed; what is trimmed is the oldest.
* `OffersAreRight` (slot search). Each offer lies in the opening hours of a day that was asked for, has not
  begun, and overlaps no booking that was there throughout; a list that was not cut off has every slot that
  was free throughout.
* `LatencyKept`: the reported percentiles are values that were measured, with the right share of them not
  above. `EvalSound`: a scenario passes only if the tool of its outcome was at least called and no price was said
  after or before an empty look-up, or, where an answer was wanted, if no exception with a text ended it and
  the agent said something or was silent through two turns; one in which the outcome was reached fails for a
  price, a missing contact or its time alone, and a suite ends. `SeedingKept`: there is one
  of everything after overlapping runs, documents excepted if the workspace was there before; a run that ends
  well leaves every part; every run ends.

Why the bounds are enough. Each race in this code is between two actors over one row or key, so two requests,
sessions, deliveries, processes, saves or tasks show it, with one object more than fits (3 tenants for 1 slot,
4 for 2; 3 creations for 1 key; 3 saves, so that one can be between two; 3 messages for a memory of 2) so that
there is a queue or a third party. `MaxClock` and `TTL` are such that a lease expires while a request that
read the older time is in flight. `DisableAfter = 1` with failures on record lets a stale write come before
and after the disabling one; `MaxAttempts = 2` gives a retry and its end. Appointments of 2 overlap without
being equal. Windows of 2 with a limit of 1 have an edge that a lagging clock crosses. Overlaps up to 5 for
targets up to 4 include those that `chunk_text` has to clip. The 95th percentile differs from the maximum only
from 12 values on; delays of 0 and 1 suffice for an operation that only compares. Bounds on counters are named
constants that only keep TLC finite (`MaxClock`, `MaxRows`, `MaxTime`, `MaxFailures`, `MaxConnections`,
`MaxOutages`, `MaxGhosts`, `MaxEvents`, `MaxBookings`, `LastTick`, and `Managed`, the endpoints that managers
touch). Symmetry is used in `arrivals` and `office`, whose actors it permutes are interchangeable; tenants are
never symmetric, since Redis orders them.

Deadlock is checked in `arrivals`, the runs of `VoiceAccess`, `booking_double` and `webhook_overlap`. The
other systems really stop: a call, a suite, a seeding or a sign-up is over once, a text has been cut.

For each property of a passing run there is a mutant: a definition such as `Fits_OffByOne`, `Trimmed_Oldest`
or `Written_WholeRow` beside the one it would replace, written the way a plausible mistake in the code would
be. Put in its place, it breaks the property, so the property depends on that line.

## 4. Fairness

Only what the code or its runtime makes happen:

* `EventOutbox`: `WF` on the hook only. SQLAlchemy calls it synchronously when COMMIT has returned; sessions
  themselves may stay open for ever.
* `VoiceWaitlist`: a queued browser polls every few seconds and the lease of one who vanished runs out (`WF`);
  a caller does not talk for ever (`SF` on the end of a live call, by agent or caller). Nothing makes a
  vanished waiter go away, because nothing in the code does.
* `VoiceSession`: `WF` on the awaits of a flow, on a release request that is under way, on the end of a
  lease no timer renews, and on the handler of a room that was told to disconnect: `disconnect()` of
  livekit-client, which is external, ends with the event `Disconnected` whether or not anybody awaits it. How
  late is open. The user need never stop, and a room need never end by itself.
* `WebhookDelivery`: `WF` on the steps of a delivery (posts have a timeout, backoff sleeps end, Postgres
  breaks deadlocks) and `SF` on `Record`, because Postgres queues those who wait for a row lock, while the
  lock itself may be taken and released by others again and again.
* `KnowledgeIngestion`: `WF` on a job (its steps end or run into `INGEST_TIMEOUT_SECONDS`), on time, and on
  the start and recovery of processes that died.
* `Keyring`: `WF` on a use and a revocation that have begun: requests end by their timeouts.
* `Accounts`: `WF` on a sign-up's steps and on the expiry of an access token. Refresh tokens need not expire
  within a behaviour.
* `CallLife`: `WF` on the entry point once a job exists, on its shutdown, and on each delivery. A killed
  process takes none of these steps.
* `ChatTurn`, `EvalRun`, `DemoSeed`: `WF` on the next step of what has begun: model calls time out, rounds,
  turns and parts are counted.
* The others have safety properties only.

## 5. Proofs

TLAPS proves the following for *every* value of the constants that meets the named assumptions of the module
(finite sets, positive limits): the bounds of section 3 play no part.

* `VoiceAccess_proofs`. `TypeCorrect`; `SlotsSpokenForAreBounded` (`PromisedBounded`); `OvershootIsBounded`
  (`HoldersBounded`); `OneAtATimeRespectsCap` (`CapRespected` for a single request). The bound on holders is
  not inductive: a request past its count will claim a slot later. The invariant is therefore about slots held
  *or promised* to a request that has decided on an old count, with `AllowIsPriority` (only allowlisted
  tenants skip the count). Promises grow only in `Count`, where the slots held are below the cap and each
  other request adds at most one. `PlacesAreKept` (`PlaceKept`) and `LeasesAreAcquired`
  (`HeartbeatNeverClaims`) hold for any overlap of requests, since the commands that touch the queue (ZADD NX,
  ZREM) and a lease (ZADD XX) are each right by themselves. With one request at a time, `ExpiredAreNotCounted`
  (`OnlyLiveCounted`), `AdmissionIsInOrder` (`AdmittedInOrder`) and `OneAtATimeIsAPool` (`ImplementsPool`):
  every Redis command is a step of `VoicePool` or none. Their invariant `WhatIsRead` says that what the
  request has read (the leases it purged, the count, the rank) still holds when it acts on it; overlapping
  requests break exactly that, which `voice_cap` shows.
* `Booking_proofs`. Of the desk: `TypeCorrect`; `NoDeskOverlapsItself` (`OneDeskNeverOverlaps`);
  `OverbookingIsBounded`. The invariant adds `CheckedIsFree`: no other session adds rows of the same desk, so
  the answer of the check is still true at the insert, hence inserting keeps a desk free of overlaps; then each desk covers a moment at most once, and the bound is the number of desks. Of the
  search: `OffersAreSound` (`OffersAreRight`), for any timetable, slot length and limit. `OffersBehind` and
  `BehindIsCovered` split the candidates at the loop's position: offers lie behind it, and a slot behind it
  that was free throughout is offered as long as the list is not cut off.
* `WhatsApp_proofs`. `AnswersAreKept` (`AnswersKept`), for any messages and tasks. The count of answers alone
  is not inductive: `AnswersCounted` adds the tasks on their way to sending (`OnTheWay`) to those that have
  sent, and `TasksInOrder` and `LogIsTrue` say what a task knows at each await. `LinkIsSound` (`LinkSound`):
  `CallsInOrder` says for each place of a connect or disconnect what the row and the gateways hold unless the
  call was overlapped, and `BesideIsOverlapped` that two calls under way know of each other. `MemoryIsKept`
  (`MemoryKept`): its lemmas say that a suffix of even length of a list of whole exchanges, and such a list
  with a question and its answer pushed, consist of whole exchanges; it matters that both lines go out in one
  RPUSH and that LTRIM and LRANGE count in twos.
* `Workspace_proofs`. Keys: `KeysAreBounded` (`KeysBounded`), `LateIsNeverServed` and `RevokedIsForEver` (the
  safety of `KeysServed`). The bound needs `Headroom`: every creation that has counted takes part of what the
  overlap allows until it has inserted its key. Quota: `LimitsAreHeld` (`LimitsHold`). Requests that count in
  time get numbers of their own, and no number exceeds the requests seen with its key; so those admitted have
  different numbers up to the limit, and a span of one length touches two windows. Settings:
  `SettingsStandFirm` (`SettingsStand`); `SeesOrRaces` says of a save in flight that what was changed before
  it began it has read, unless that was replaced already, and that it is remembered as racing with every other
  change. Contact requests: `DeskIsKept`, the whole of `DeskKept` with its action property; `PostsInOrder`,
  `StatusesInOrder` and `CallsInOrder` say what the intake, the row and an admin's call owe one another at
  each commit.
* `Desk_proofs`. Outbox: `TypeCorrect`; `OnlyCommittedIsAnnounced` (`OnlyCommittedAnnounced`). Needed beside
  it: a session queues only its own rows, a session that is not a chat never goes on with a broken
  transaction, and after COMMIT its rows are stored. Knowledge: `IndexIsSound`, the whole of `IndexSound` with
  its two action properties; `PassagesBelong` ties a document's passages to its status, and says that one that
  is re-indexed has no job. Chunks: `WindowsAreRight` (`ChunksAreRight`) for any text, target and overlap: in
  the middle of the loop all words up to the end of the last window are covered, the next window overlaps it,
  and none has reached the tail. Accounts: `AccountsAreUnique`, that a sign-up fails only beside a rival;
  `TakenByRival` says that a name or e-mail that was free at the look-up and is taken since belongs to a
  sign-up that was under way at the same time, and `Owned` that it is one sign-up's from the INSERT on.
* `Talk_proofs`. The hook: `SessionIsSafe`, the safety of `SessionKept` for any number of flows, whenever the
  handlers of closed rooms run. As long as no flows have shared the refs and no handler has run into another's
  call (`Alone`) one flow at most is under way or in a room that is not closing, and the refs are its own
  (`OneFlow`: `OneRuns`, `RefIsRight`, `LiveIsAlone`, `QuitIsSet`); if besides no lease has lapsed and no
  release overtaken (`Clean`) a grant stays (`GrantStays`). Beside it `FlowsInOrder` says what a flow has at
  each of its awaits, and `StoppedGivesUp` that one stopped while it asked or waited never gets into a room.
  Chat: `TurnsAreSafe`, the safety of
  `TurnsKept`: what a turn has told is in its transaction until the commit (`SessionHolds`), and in the tables
  afterwards (`PromisesKept`); Cal.com's entries have a row or an exception (`AppointmentsHaveRows`).
* `Line_proofs`. Calls: `CallsAreSafe`, the safety of `CallsKept`; nothing is done for a caller before the
  tenant is known (`NobodyIsServed`). Its delays: `LatencyIsRight` (`LatencyKept`); no two delays have the
  same place in the sorted list, so every place is taken, which replaces an induction over sorting. The line:
  `LineIsInOrder`, the safety of `LineKept`. Its lemmas say what joining and leaving do to the rank of the
  others, which is why room, once there, stays. The harness: `ScoresAreEarned`, that a scenario passes only
  for what was called or said and that one in which it was done is recognised; `TwoLinesAreTwoTurns` says of
  the scorer's joined text that two silent lines take two whole turns, `CallsAreKnown` ties the recorded calls
  to their outcomes, `CountsRight` and `TurnsAlternate` the counters to the transcript. Seeding:
  `SeedingIsSafe`, one of everything, and whole; `OneWriter` says that unique rows admit one uncommitted
  writer, `SeenOrAdded` that what a run has behind it is there or its own.

Each inductive invariant was first checked as an invariant of the component's instance.

The named assumptions are on constants only, and say what the program is: actors and rows are finite and
limits positive (`LimitsAssumption`, `ReqsAssumption`, `BoundAssumption`, `MaxKeysAssumption`,
`SeedersAssumption`, `SuiteAssumption`, …); a value that stands for "nobody" is nobody (`FlowsAssumption`,
`NamesAssumption`, `SavesAssumption`); a day is shut or has two times of the day for its hours, in any order
(`TimetablesAssumption`); the random suffix that a sign-up appends to a name in use makes no name that
somebody else asks for (`SlugsAssumption`; equal random endings are left out). TLC evaluates each in the runs
of its module.

Only model-checked is liveness, which is out of the prover's reach: `EveryDeliveryEnds`,
`EveryCommitAnnounced`, `EveryJobSettles`, and the last conjuncts of `KeysServed`, `SignupsEnd` (with
`GoneIsOut`), `SessionKept`, `TurnsKept`, `CallsKept` (two of them), `LineKept`, `EvalSound` and
`SeedingKept`. Every safety invariant the runs check is proved.

## 6. Where the code and its documentation part

Five runs expect a violation and are findings: the cap (`access.py:62`), waiters that vanished
(`access.py:63`), double bookings (`booking.py:134`), the call whose record was not committed
(`worker.py:199`) and the polling loop that survives a stop (`use-voice-session.ts:120`). Others were met
while modelling; the models contain them, and properties name them as exceptions:

* A process that restarts before its documents are older than the timeout leaves them pending, and nothing
  looks again (`knowledge.py:178`); so does a job whose own failure could not be written (`knowledge.py:110`).
* A chat whose transaction Postgres has aborted announces rows that are not stored (`chat.py:221` swallows the
  error, COMMIT answers ROLLBACK without one, and the hook runs). `OnlyCommittedAnnounced` states the
  exception; `docs/17-automations.md` does not.
* Whether a request's answer goes out before the COMMIT of `get_db` depends on the installed FastAPI (from
  0.118 on it does); `ChatTurn` and `Accounts` have both orders. An appointment made in Cal.com survives the
  rollback of its booking, and cancelling a booking does not tell Cal.com.
* `book()` does not check business hours (only `check_availability` does).
* When capturing a lead fails, the agent says "Noted; a team member will follow up." although nothing is
  stored (`frontdesk.py:172`).
* With Redis down a duplicate is answered again (`whatsapp.py:293`, which says so); `docs/21-whatsapp.md:131`
  promises at most once. A message without an id is not de-duplicated at all; the model's messages have ids.
  The log may miss an answer that was sent, when the commit after it fails.
* `docs/21-whatsapp.md:44` and `:145` and `.env.example:145` promise the last 10 turns of a customer; the list
  keeps them, but `chat.py:26` (`MAX_HISTORY`, 8 lines) shows the agent only 4. The answer is remembered
  before it is sent, and stays remembered when sending fails (`whatsapp.py:384`); the list lacks an expiry
  when that command fails (`whatsapp.py:317`), until the next message.
* `failure_count` is documented as consecutive failures; with overlapping deliveries a success between two
  failures can be overwritten. What holds is `CountBackedByLog`.
* Waiters that join within one second are ordered by UUID, since scores are whole seconds; the place is kept
  all the same (`PlaceKept`).
* In the hook, a lease may run out while the browser asks for the microphone, since heartbeats start
  afterwards; the timer of an overwritten `beat` ref goes on for ever; the late `catch` of an older flow gives
  back the slot of the newer one, and so does the late handler of a closed room: after "microphone denied" the
  `catch` calls `disconnect()` without awaiting it (`use-voice-session.ts:125`) and lets the user start again,
  and the handler (`:83-90`) then clears the timers, releases and unsets the refs of the newer call, which
  goes live without a slot. `VoiceSession` has that as `crossed`. `/livekit/token` hands out rooms beside the voice queue.
* A workspace that somebody signed up under the slug `demo` is adopted by the seed script, and two overlapping
  seeds of an existing workspace may both ingest its documents, though `seed_demo.py:8` says that runs do not
  duplicate.
* An agent that was switched off cannot be switched on again through the API.
* In the harness, `latency_p50_ms` is the time of the whole conversation (`runner.py:199`), which
  `scorers.py:93` holds against the budget of one turn; task success counts a tool that failed, and contacts
  that were made up. An "answered" scenario passes when the agent was silent twice: its lines are joined with
  a blank (`scorers.py:31`), and `" "` counts as a text, though `scorers.py:54` says "the agent responded and
  didn't error". So does one that ended with an exception without a text, whose `str(exc)` is empty
  (`runner.py:198`). The outcomes `rescheduled` and `cancelled` name tools that the harness does not offer; a
  model may call them all the same, is told `UNKNOWN_TOOL`, and succeeds.
* The chat widget adds a message to the history before it sends both, so the model reads it twice.

## 7. Not modelled

Parsing, embedding, vector search, model providers, the SMTP server, the SMS gateway, n8n templates and
encryption are calls into libraries and services without a protocol here. Metrics, logging, pages and
read-only routers have no state that could be wrong; migrations run alone. Signatures, URL checks and roles
decide whether a request is refused and are data to these models. Time zones and daylight saving in the slot
search, the rounding of latencies and the wording of mails are left out. What a language model says is any
answer or any calls within its rounds.

Partly modelled: the LiveKit token of the voice API; filters and secrets of webhook
endpoints; roles within a workspace; the SMS tool, which keeps no state; analytics, which only count.

## 8. Plan

What would add most, in this order:

1. `VoiceSession` composed with `VoiceAccess` in place of one lease: two browsers and the cap, so that the
   races of the hook and of acquire meet.
2. A voice call whose tools write through `BookingDesk` and announce through `EventOutbox`, so that the call's
   drain is a refinement of the outbox's tasks.
3. Abstract specifications of an at-most-once answer (`WhatsAppInbound`) and of a limiter (`RateWindow`), as
   `VoicePool` is for the voice slots, and the proofs that the modules implement them.

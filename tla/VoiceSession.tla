---------------------------- MODULE VoiceSession ----------------------------
(***************************************************************************)
(* The browser's side of a voice call: the hook useVoiceSession with its   *)
(* shared refs, against the slot that the access engine keeps for the      *)
(* workspace.  Every start() is a flow that runs on through its awaits;    *)
(* stop() and the room's events change the refs under it.                  *)
(***************************************************************************)
EXTENDS Integers, FiniteSets

CONSTANT Flows   \* calls of start(); each that gets there has a room of its own

VARIABLES
  page,      \* the screen: shown, left (unmounted), closed (with its tab)
  phase,     \* off (idle, ended, error), busy, live
  holding,   \* the refs
  quit,      \* cancelled
  current,   \* room: the flow whose room it is
  beatRef,   \* beat: the flow that started the timer
  beats,     \* the timers that run
  rooms,     \* the rooms that are connected
  closing,   \* the rooms told to disconnect, whose handler has not run yet
  flow,      \* where each flow is
  slot,      \* at the server: none, queued, held
  releases,  \* release requests under way
  stoppedAt, \* history: the stage each flow was in when stop() was last called
  revived,   \* history: flows that ran when start() was called again
  orphans,   \* history: timers whose id was overwritten
  lapsed,    \* history: a lease ran out under a timer or on the way to it
  overtaken, \* history: a slot was granted with a release under way
  crossed    \* history: the handler of a closed room ran into another's call

sessionVars == <<page, phase, holding, quit, current, beatRef, beats, rooms, closing,
                 flow, slot, releases, stoppedAt, revived, orphans, lapsed, overtaken, crossed>>

NoFlow == "no flow"
ASSUME FlowsAssumption == NoFlow \notin Flows
Off == {"idle", "over"}
Granted == {"granted", "importing", "joining", "microphone"}
Running(f) == flow[f] \notin Off

SessionInit ==
  /\ page = "shown" /\ phase = "off" /\ holding = FALSE /\ quit = FALSE
  /\ current = NoFlow /\ beatRef = NoFlow /\ beats = {} /\ rooms = {} /\ closing = {}
  /\ flow = [f \in Flows |-> "idle"]
  /\ slot = "none" /\ releases = 0
  /\ stoppedAt = [f \in Flows |-> "none"] /\ revived = {} /\ orphans = {}
  /\ lapsed = FALSE /\ overtaken = FALSE /\ crossed = FALSE

Go(f, pc) == flow' = [flow EXCEPT ![f] = pc]
ClearTimers_RefOnly == UNCHANGED beats /\ beatRef' = NoFlow
ClearTimers == beats' = beats \ {beatRef} /\ beatRef' = NoFlow
Release == holding' = FALSE /\ releases' = IF holding THEN releases + 1 ELSE releases
ServerIdle == UNCHANGED <<slot, lapsed, overtaken>>

\* disconnect(): a room that is joined or about to be, and is not given up with
\* this step, reports its end later; any other has none to report.
Reachable == rooms \union {g \in Flows : flow[g] = "joining"}
Close(r) == closing' = closing \union ({r} \intersect Reachable')

\* Whoever is on the way into a room that ends fails.
Severed(f) == [g \in Flows |-> IF g = f /\ flow[g] \in {"joining", "microphone"} THEN "failed" ELSE flow[g]]

----------------------------------------------------------------------------
(* start and connect                                                       *)

StartCall(f) ==
  /\ page = "shown" /\ phase = "off" /\ flow[f] = "idle"
  /\ ClearTimers
  /\ quit' = FALSE /\ phase' = "busy"
  /\ Go(f, "asking")
  /\ revived' = revived \union {g \in Flows : Running(g)}
  /\ ServerIdle /\ UNCHANGED <<page, holding, current, rooms, closing, releases, stoppedAt, orphans, crossed>>

\* /voice/acquire: who has the slot keeps it; the others may get it or wait.
AskForSlot(f) ==
  /\ flow[f] = "asking"
  /\ \/ slot' = "held" /\ Go(f, "granted")
     \/ slot # "held" /\ slot' = "queued" /\ Go(f, "told to wait")
  /\ overtaken' = (overtaken \/ releases > 0)
  /\ UNCHANGED <<page, phase, holding, quit, current, beatRef, beats, rooms, closing, releases, stoppedAt, revived, orphans, lapsed, crossed>>

\* The request, the token after the grant, or the answer fails.
AskingFails(f) ==
  /\ flow[f] = "asking"
  /\ slot' \in {slot, "held"} \union (IF slot = "none" THEN {"queued"} ELSE {})
  /\ Go(f, "failed")
  /\ overtaken' = (overtaken \/ releases > 0)
  /\ UNCHANGED <<page, phase, holding, quit, current, beatRef, beats, rooms, closing, releases, stoppedAt, revived, orphans, lapsed, crossed>>

Answered(f) ==
  /\ flow[f] \in {"granted", "told to wait"}
  /\ IF quit
       THEN /\ holding' = FALSE /\ releases' = releases + 1
            /\ Go(f, "over") /\ UNCHANGED phase
       ELSE /\ holding' = TRUE /\ phase' = "busy" /\ UNCHANGED releases
            /\ Go(f, IF flow[f] = "granted" THEN "importing" ELSE "waiting")
  /\ ServerIdle /\ UNCHANGED <<page, quit, current, beatRef, beats, rooms, closing, stoppedAt, revived, orphans, crossed>>

\* POLL_MS are over.
PollAgain(f) ==
  /\ flow[f] = "waiting"
  /\ Go(f, IF quit THEN "over" ELSE "asking")
  /\ ServerIdle /\ UNCHANGED <<page, phase, holding, quit, current, beatRef, beats, rooms, closing, releases, stoppedAt, revived, orphans, crossed>>

Imported(f) ==
  /\ flow[f] = "importing"
  /\ current' = f /\ Go(f, "joining")
  /\ ServerIdle /\ UNCHANGED <<page, phase, holding, quit, beatRef, beats, rooms, closing, releases, stoppedAt, revived, orphans, crossed>>

Join(f) ==
  /\ flow[f] = "joining"
  /\ rooms' = rooms \union {f} /\ Go(f, "microphone")
  /\ ServerIdle /\ UNCHANGED <<page, phase, holding, quit, current, beatRef, beats, closing, releases, stoppedAt, revived, orphans, crossed>>

\* The new timer's id replaces another's.
GoLive(f) ==
  /\ flow[f] = "microphone"
  /\ beats' = beats \union {f} /\ beatRef' = f /\ phase' = "live"
  /\ orphans' = orphans \union ({beatRef} \ {NoFlow})
  /\ Go(f, "over")
  /\ ServerIdle /\ UNCHANGED <<page, holding, quit, current, rooms, closing, releases, stoppedAt, revived, crossed>>

\* The catch of start does not wait for the room: its handler runs later.
StartFails(f) ==
  /\ flow[f] \in {"failed", "importing", "joining", "microphone"}
  /\ ClearTimers /\ Release
  /\ phase' = "off" /\ Go(f, "over") /\ UNCHANGED rooms
  /\ Close(current)
  /\ ServerIdle /\ UNCHANGED <<page, quit, current, stoppedAt, revived, orphans, crossed>>

----------------------------------------------------------------------------
(* stop, leaving, and the room's Disconnected                              *)

Stage(f) ==
  CASE flow[f] = "importing" -> "importing"
    [] flow[f] \in {"joining", "microphone"} -> "entering"
    [] OTHER -> "asking"
NoteStop == stoppedAt' = [f \in Flows |-> IF Running(f) THEN Stage(f) ELSE stoppedAt[f]]

\* A room that has an end to report is waited for, with what was held and the
\* phase as they are; what is left of stop follows its handler at once and finds
\* nothing to do.
StopCall ==
  /\ page = "shown" /\ phase # "off"
  /\ quit' = TRUE /\ ClearTimers /\ NoteStop
  /\ UNCHANGED <<rooms, flow>> /\ Close(current) /\ current' = NoFlow
  /\ IF current \in closing'
       THEN UNCHANGED <<holding, releases, phase>>
       ELSE Release /\ phase' = "off"
  /\ ServerIdle /\ UNCHANGED <<page, revived, orphans, crossed>>

\* Nobody waits for the room of a page that is left.
Leave ==
  /\ page = "shown" /\ page' = "left"
  /\ quit' = TRUE /\ ClearTimers /\ NoteStop /\ Release /\ phase' = "off"
  /\ UNCHANGED <<rooms, flow>> /\ Close(current)
  /\ ServerIdle /\ UNCHANGED <<current, revived, orphans, crossed>>

\* pagehide, and the end of everything on the page
CloseTab ==
  /\ page # "closed" /\ page' = "closed"
  /\ Release /\ NoteStop
  /\ rooms' = {} /\ closing' = {} /\ beats' = {} /\ flow' = [f \in Flows |-> "over"]
  /\ current' = NoFlow /\ beatRef' = NoFlow /\ phase' = "off"
  /\ ServerIdle /\ UNCHANGED <<quit, revived, orphans, crossed>>

\* The end of a room, which it reports once: it was closed, it could not be
\* joined, or it ends by itself (the agent hangs up, the network is gone).  The
\* handler looks at the refs, whosever they are by now.
Disconnected(f) ==
  /\ f \in closing \union Reachable
  /\ ClearTimers /\ Release
  /\ rooms' = rooms \ {f} /\ closing' = closing \ {f} /\ flow' = Severed(f)
  /\ current' = NoFlow /\ phase' = "off"
  /\ crossed' = (crossed \/ (f \in closing /\ \E g \in Flows \ {f} : Running(g) \/ g \in rooms \ closing))
  /\ ServerIdle /\ UNCHANGED <<page, quit, stoppedAt, revived, orphans>>

----------------------------------------------------------------------------
(* The server                                                              *)

ReleaseArrives ==
  /\ releases > 0 /\ releases' = releases - 1
  /\ slot' \in {"none", slot}
  /\ UNCHANGED <<page, phase, holding, quit, current, beatRef, beats, rooms, closing, flow, stoppedAt, revived, orphans, lapsed, overtaken, crossed>>

\* The lease runs out: without a timer, while the caller is asked for the
\* microphone, or when the heartbeats fail, which the hook does not notice.  A
\* place in the queue does not run out.
Lapse ==
  /\ slot = "held" /\ slot' = "none"
  /\ lapsed' = (lapsed \/ beats # {} \/ \E f \in Flows : flow[f] \in Granted)
  /\ UNCHANGED <<page, phase, holding, quit, current, beatRef, beats, rooms, closing, flow, releases, stoppedAt, revived, orphans, overtaken, crossed>>

FlowStep(f) ==
  AskForSlot(f) \/ AskingFails(f) \/ Answered(f) \/ PollAgain(f) \/ Imported(f) \/ Join(f) \/ GoLive(f) \/ StartFails(f)

SessionNext ==
  \/ \E f \in Flows : StartCall(f) \/ FlowStep(f) \/ Disconnected(f)
  \/ StopCall \/ Leave \/ CloseTab \/ ReleaseArrives \/ Lapse

SessionFairness ==
  /\ \A f \in Flows : WF_sessionVars(FlowStep(f)) /\ WF_sessionVars(f \in closing /\ Disconnected(f))
  /\ WF_sessionVars(ReleaseArrives) /\ WF_sessionVars(beats = {} /\ Lapse)

SessionSpec == SessionInit /\ [][SessionNext]_sessionVars /\ SessionFairness

----------------------------------------------------------------------------
(* Properties                                                              *)

\* Types, and: nothing of a page outlives its tab.
SessionTypeOK ==
  /\ page \in {"shown", "left", "closed"} /\ phase \in {"off", "busy", "live"}
  /\ holding \in BOOLEAN /\ quit \in BOOLEAN /\ current \in Flows \union {NoFlow}
  /\ beatRef \in beats \union {NoFlow} /\ beats \union rooms \union closing \subseteq Flows
  /\ slot \in {"none", "queued", "held"} /\ releases \in Nat
  /\ page = "closed" => rooms = {} /\ closing = {} /\ beats = {} /\ \A f \in Flows : flow[f] = "over"

\* A call that is live after stop() was about to import its library, unless
\* start() was called again and unset the ref they share or a room's handler ran
\* late: stop() closes the room that its ref names, and a flow that still asked or
\* waited gives up.
LateOnlyThroughConnect ==
  \A f \in rooms \ closing : stoppedAt[f] \in {"none", "importing"} \/ revived # {} \/ crossed

\* Who talks has the slot, but after a lease that ran out as above, a release
\* that overtook a grant, in a call that was stopped, after two flows have
\* shared the refs, or after the late handler of a closed room has released what
\* another call held.
HeldWhileLive ==
  rooms \ closing # {} =>
    slot = "held" \/ lapsed \/ overtaken \/ revived # {} \/ crossed \/ \E f \in rooms \ closing : stoppedAt[f] # "none"

\* "release it on hang-up or unload": a slot whose caller is gone is freed, with
\* or without the release, unless a timer that no ref knows any more keeps it.
FreedInTheEnd ==
  slot = "held" /\ phase = "off" ~> slot # "held" \/ phase # "off" \/ orphans # {}

\* "set by stop() to end the queue-polling loop"
StopEndsPolling == [][\A f \in Flows : stoppedAt[f] = "asking" /\ flow[f] = "waiting" => flow'[f] # "asking"]_flow

\* The hook and the server agree on who talks, but for the races named above.
SessionKept ==
  [](SessionTypeOK /\ LateOnlyThroughConnect /\ HeldWhileLive) /\ FreedInTheEnd

============================================================================

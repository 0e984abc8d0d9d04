---------------------------- MODULE Talk_proofs ----------------------------
(*************************************************************************)
(* Who talks to a customer in a browser: a turn of the chat, for any     *)
(* number of turns, slots and rounds, and the hook of a voice call, for  *)
(* any number of its flows.                                              *)
(*************************************************************************)
EXTENDS VoiceSession, ChatTurn, TLAPS

----------------------------------------------------------------------------
(*************************************************************************)
(* A turn of the chat: what a visitor was promised is stored, and the    *)
(* outside calendar follows.                                             *)
(*************************************************************************)

TurnRecord ==
  [pc : {"idle", "model", "tools", "calendar", "insert", "reply", "done", "failed"}, round : 0 .. MaxRounds,
   tx : {"live", "aborted", "inactive"}, todo : SUBSET TurnTools, doing : Slots \union {NoTool},
   mine : SUBSET TurnTools, told : SUBSET TurnTools]

TurnsTyped == turn \in [Turns -> TurnRecord]

\* Until a statement fails, what the tools have said is what the session holds,
\* and the session can be committed; a booking is under way in a live one only.
SessionHolds(t, r) ==
  /\ r.mine \subseteq r.told /\ (r.mine # {} => r.tx = "live") /\ (r.pc = "idle" => r.mine = {})
  /\ r.pc \in {"calendar", "insert"} => r.tx = "live" /\ r.doing \in Slots
  /\ r.pc \notin {"done", "failed"} => t \in broke \/ (r.mine = r.told /\ r.tx = "live")

\* An appointment of a turn that goes on is of the row it has just written or
\* is about to write.
AppointmentsHaveRows ==
  \A t \in Turns, s \in Slots :
    <<t, s>> \in calendar =>
      \/ <<t, s>> \in turnRows \/ s \in turn[t].mine
      \/ turn[t].pc = "insert" /\ turn[t].doing = s
      \/ t \in broke \/ turn[t].pc = "failed"

PromisesKept ==
  \A t \in Turns : turn[t].pc = "done" => t \in broke \/ {t} \X turn[t].told \subseteq turnRows

TurnsSafe == TurnTypeOK /\ PromisedIsStored /\ CalendarFollows

\* What is committed and what the calendar has
OutsideTyped ==
  /\ answer \in [Turns -> {"none", "reply", "error"}]
  /\ turnRows \subseteq Turns \X TurnTools /\ calendar \subseteq Turns \X Slots
  /\ cancelled \subseteq turnRows /\ broke \subseteq Turns

TurnInv ==
  /\ OutsideTyped /\ TurnsTyped /\ PromisesKept /\ AppointmentsHaveRows
  /\ \A t \in Turns : SessionHolds(t, turn[t])

LEMMA TurnStart == TurnInit => TurnInv
<1> SUFFICES ASSUME TurnInit PROVE TurnInv
  OBVIOUS
<1>1. NewTurn \in TurnRecord /\ NewTurn.pc = "idle" /\ NewTurn.mine = {} /\ NewTurn.told = {} /\ NewTurn.tx = "live"
  BY RoundsAssumption DEF NewTurn, TurnRecord
<1>2. TurnsTyped /\ \A t \in Turns : turn[t] = NewTurn
  BY <1>1 DEF TurnInit, TurnsTyped
<1>3. OutsideTyped /\ PromisesKept /\ AppointmentsHaveRows
  BY <1>1, <1>2 DEF TurnInit, OutsideTyped, PromisesKept, AppointmentsHaveRows
<1>4. \A t \in Turns : SessionHolds(t, turn[t])
  BY <1>1, <1>2 DEF SessionHolds
<1> QED
  BY <1>2, <1>3, <1>4 DEF TurnInv

LEMMA TurnInvIsSafe == TurnInv => TurnsSafe
<1> SUFFICES ASSUME TurnInv PROVE TurnsSafe
  OBVIOUS
<1>1. TurnTypeOK
  BY DEF TurnInv, OutsideTyped, TurnsTyped, TurnRecord, SessionHolds, TurnTypeOK
<1>2. PromisedIsStored
  BY DEF TurnInv, PromisesKept, PromisedIsStored, AtStep
<1>3. CalendarFollows
  BY DEF TurnInv, AppointmentsHaveRows, CalendarFollows, AtStep
<1> QED
  BY <1>1, <1>2, <1>3 DEF TurnsSafe

\* A turn becomes r while its request goes on: nothing is committed.
LEMMA TurnMoves ==
  ASSUME TurnInv, NEW t \in Turns, NEW r \in TurnRecord, turn' = [turn EXCEPT ![t] = r],
         turnRows' = turnRows, cancelled' = cancelled, answer' \in [Turns -> {"none", "reply", "error"}],
         broke' \in {broke, broke \union {t}},
         calendar' \in {calendar, calendar \union {<<t, r.doing>>}},
         calendar' # calendar => r.pc = "insert" /\ r.doing \in Slots,
         r.mine \subseteq r.told, r.mine # {} => r.tx = "live",
         r.pc \in {"calendar", "insert"} => r.tx = "live" /\ r.doing \in Slots,
         r.pc \notin {"done", "failed"} => t \in broke' \/ (r.mine = r.told /\ r.tx = "live"),
         r.pc \notin {"idle", "done"},
         \A s \in Slots : s \in turn[t].mine \/ (turn[t].pc = "insert" /\ turn[t].doing = s) =>
            s \in r.mine \/ (r.pc = "insert" /\ r.doing = s) \/ t \in broke' \/ r.pc = "failed",
         turn[t].pc # "failed"
  PROVE  TurnInv'
<1>1. turn'[t] = r /\ TurnsTyped' /\ \A u \in Turns \ {t} : turn'[u] = turn[u]
  BY DEF TurnInv, TurnsTyped
<1>2. OutsideTyped'
  BY DEF TurnInv, OutsideTyped
<1>3. PromisesKept'
  BY <1>1 DEF TurnInv, PromisesKept
<1>4. AppointmentsHaveRows'
  <2> SUFFICES ASSUME NEW u \in Turns, NEW s \in Slots, <<u, s>> \in calendar'
               PROVE  \/ <<u, s>> \in turnRows \/ s \in turn'[u].mine
                      \/ turn'[u].pc = "insert" /\ turn'[u].doing = s
                      \/ u \in broke' \/ turn'[u].pc = "failed"
    BY DEF AppointmentsHaveRows
  <2>1. CASE <<u, s>> \in calendar
    BY <1>1, <2>1 DEF TurnInv, AppointmentsHaveRows
  <2>2. CASE <<u, s>> \notin calendar
    BY <1>1, <2>2
  <2> QED
    BY <2>1, <2>2
<1>5. \A u \in Turns : SessionHolds(u, turn[u])'
  BY <1>1 DEF TurnInv, SessionHolds
<1> QED
  BY <1>1, <1>2, <1>3, <1>4, <1>5 DEF TurnInv

LEMMA TurnIs == ASSUME TurnInv, NEW t \in Turns PROVE turn[t] \in TurnRecord /\ SessionHolds(t, turn[t])
  BY DEF TurnInv, TurnsTyped

\* The loop of chat
LEMMA LoopKeeps ==
  ASSUME TurnInv, NEW t \in Turns,
         \/ Post(t) \/ Conclude(t) \/ TurnFails(t)
         \/ \E calls \in SUBSET TurnTools \ {{}} : CallTools(t, calls)
  PROVE  TurnInv'
<1>t. turn[t] \in TurnRecord /\ SessionHolds(t, turn[t]) /\ answer \in [Turns -> {"none", "reply", "error"}]
  BY TurnIs DEF TurnInv, OutsideTyped
<1>1. CASE Post(t)
  <2> DEFINE r == [NewTurn EXCEPT !.pc = "model"]
  <2>1. r \in TurnRecord /\ r.pc = "model" /\ r.mine = {} /\ r.told = {} /\ r.tx = "live"
    BY RoundsAssumption DEF NewTurn, TurnRecord
  <2>2. turn' = [turn EXCEPT ![t] = r] /\ turn[t].pc = "idle" /\ UNCHANGED <<answer, turnRows, calendar, cancelled, broke>>
    BY <1>1 DEF Post, Become, AtStep
  <2> HIDE DEF r
  <2> QED
    BY <1>t, <2>1, <2>2, TurnMoves DEF SessionHolds
<1>2. CASE \E calls \in SUBSET TurnTools \ {{}} : CallTools(t, calls)
  <2>1. PICK calls \in SUBSET TurnTools : CallTools(t, calls)
    BY <1>2
  <2> DEFINE r == [turn[t] EXCEPT !.pc = "tools", !.round = NextRound(@), !.todo = calls]
  <2>2. turn' = [turn EXCEPT ![t] = r] /\ turn[t].pc = "model" /\ UNCHANGED <<answer, turnRows, calendar, cancelled, broke>>
    BY <2>1 DEF CallTools, Become, AtStep
  <2>3. turn[t].round + 1 \in 0 .. MaxRounds
    <3>1. turn[t].round \in 0 .. MaxRounds /\ turn[t].round < MaxRounds
      BY <1>t, <2>1 DEF CallTools, TurnRecord
    <3> QED
      BY <3>1, RoundsAssumption
  <2>4. r \in TurnRecord /\ r.pc = "tools" /\ r.mine = turn[t].mine /\ r.told = turn[t].told /\ r.tx = turn[t].tx
    BY <1>t, <2>3 DEF NextRound, TurnRecord
  <2> HIDE DEF r
  <2> QED
    BY <1>t, <2>2, <2>4, TurnMoves DEF SessionHolds
<1>3. CASE Conclude(t)
  <2> DEFINE r == [turn[t] EXCEPT !.pc = "reply"]
  <2>1. turn' = [turn EXCEPT ![t] = r] /\ turn[t].pc = "model" /\ UNCHANGED <<answer, turnRows, calendar, cancelled, broke>>
    BY <1>3 DEF Conclude, Become, AtStep
  <2>2. r \in TurnRecord /\ r.pc = "reply" /\ r.mine = turn[t].mine /\ r.told = turn[t].told /\ r.tx = turn[t].tx
    BY <1>t DEF TurnRecord
  <2> HIDE DEF r
  <2> QED
    BY <1>t, <2>1, <2>2, TurnMoves DEF SessionHolds
<1>4. CASE TurnFails(t)
  <2> DEFINE r == [turn[t] EXCEPT !.pc = "failed", !.todo = {}, !.mine = {}]
  <2>1. /\ turn' = [turn EXCEPT ![t] = r] /\ turn[t].pc # "failed" /\ UNCHANGED <<turnRows, calendar, cancelled, broke>>
        /\ answer' = [answer EXCEPT ![t] = "error"]
    BY <1>4 DEF TurnFails, Become
  <2>2. r \in TurnRecord /\ r.pc = "failed" /\ r.mine = {}
    BY <1>t DEF TurnRecord
  <2>3. answer' \in [Turns -> {"none", "reply", "error"}]
    BY <1>t, <2>1
  <2> HIDE DEF r
  <2> QED
    BY <1>t, <2>1, <2>2, <2>3, TurnMoves DEF SessionHolds
<1> QED
  BY <1>1, <1>2, <1>3, <1>4

\* A tool is over, for better or worse.
LEMMA AfterIs ==
  ASSUME NEW r \in TurnRecord, NEW tool
  PROVE  LET q == After(r, tool) IN
           q \in TurnRecord /\ q.pc \in {"model", "tools"} /\ q.mine = r.mine /\ q.told = r.told /\ q.tx = r.tx
  BY DEF After, TurnRecord

LEMMA ToolEnds ==
  ASSUME TurnInv, NEW t \in Turns, NEW r \in TurnRecord, NEW tool, Become(t, After(r, tool)),
         turn[t].pc \in {"tools", "insert"},
         UNCHANGED <<answer, turnRows, calendar, cancelled>>, broke' \in {broke, broke \union {t}},
         r.mine \subseteq r.told, r.mine # {} => r.tx = "live",
         t \in broke' \/
           /\ r.mine = r.told /\ r.tx = "live" /\ turn[t].mine \subseteq r.mine
           /\ turn[t].pc = "insert" => turn[t].doing \in r.mine
  PROVE  TurnInv'
<1> DEFINE q == After(r, tool)
<1>1. q \in TurnRecord /\ q.pc \in {"model", "tools"} /\ q.mine = r.mine /\ q.told = r.told /\ q.tx = r.tx
  BY AfterIs
<1>2. turn' = [turn EXCEPT ![t] = q] /\ answer' \in [Turns -> {"none", "reply", "error"}]
  BY DEF Become, TurnInv, OutsideTyped
<1> HIDE DEF q
<1> QED
  BY <1>1, <1>2, TurnMoves

LEMMA RecordsOfTools ==
  ASSUME NEW r \in TurnRecord, NEW tool \in TurnTools
  PROVE  /\ LET w == Written(r, tool) IN
              w \in TurnRecord /\ w.mine = r.mine \union {tool} /\ w.told = r.told \union {tool} /\ w.tx = r.tx
         /\ QueryFailed(r) \in TurnRecord /\ QueryFailed(r).mine = {}
         /\ FlushFailed(r) \in TurnRecord /\ FlushFailed(r).mine = {}
  BY DEF Written, QueryFailed, FlushFailed, TurnRecord

LEMMA ToolsKeep ==
  ASSUME TurnInv, NEW t \in Turns,
         (\E tool \in TurnTools : RefuseTool(t, tool)) \/ LookUp(t) \/ TakeMessage(t) \/ InsertBooking(t)
  PROVE  TurnInv'
<1>t. turn[t] \in TurnRecord /\ SessionHolds(t, turn[t]) /\ "message" \in TurnTools /\ Slots \subseteq TurnTools
  BY TurnIs DEF TurnTools
<1>1. CASE \E tool \in TurnTools : RefuseTool(t, tool)
  BY <1>1, <1>t, ToolEnds DEF RefuseTool, ToolError, AtStep, SessionHolds
<1>2. CASE LookUp(t)
  <2>1. CASE Become(t, After(turn[t], "lookup")) /\ UNCHANGED <<answer, turnRows, calendar, cancelled, broke>>
    BY <1>2, <1>t, <2>1, ToolEnds DEF LookUp, AtStep, SessionHolds
  <2>2. CASE StatementFails(t, "lookup", QueryFailed(turn[t]))
    BY <1>2, <1>t, <2>2, ToolEnds, RecordsOfTools DEF LookUp, StatementFails, AtStep
  <2> QED
    BY <1>2, <2>1, <2>2 DEF LookUp
<1>3. CASE TakeMessage(t)
  <2> DEFINE w == Written(turn[t], "message")
  <2>1. /\ w \in TurnRecord /\ w.mine = turn[t].mine \union {"message"}
        /\ w.told = turn[t].told \union {"message"} /\ w.tx = turn[t].tx
    BY <1>t, RecordsOfTools
  <2>2. CASE Become(t, After(w, "message")) /\ UNCHANGED <<answer, turnRows, calendar, cancelled, broke>>
    <3>1. turn[t].pc = "tools" /\ turn[t].tx = "live"
      BY <1>3 DEF TakeMessage, AtStep
    <3> HIDE DEF w
    <3> QED
      BY <1>t, <2>1, <2>2, <3>1, ToolEnds DEF SessionHolds
  <2>3. CASE StatementFails(t, "message", FlushFailed(turn[t]))
    BY <1>3, <1>t, <2>3, ToolEnds, RecordsOfTools DEF TakeMessage, StatementFails, AtStep
  <2> QED
    BY <1>3, <2>2, <2>3 DEF TakeMessage
<1>4. CASE InsertBooking(t)
  <2> DEFINE s == turn[t].doing
             w == Written(turn[t], s)
  <2>1. turn[t].pc = "insert" /\ turn[t].tx = "live" /\ s \in Slots /\ s \in TurnTools
    BY <1>4, <1>t DEF InsertBooking, AtStep, SessionHolds
  <2>2. w \in TurnRecord /\ w.mine = turn[t].mine \union {s} /\ w.told = turn[t].told \union {s} /\ w.tx = turn[t].tx
    BY <1>t, <2>1, RecordsOfTools
  <2>3. CASE Become(t, After(w, s)) /\ UNCHANGED <<answer, turnRows, calendar, cancelled, broke>>
    <3> HIDE DEF w
    <3> QED
      BY <1>t, <2>1, <2>2, <2>3, ToolEnds DEF SessionHolds
  <2>4. CASE StatementFails(t, s, FlushFailed(turn[t]))
    BY <1>t, <2>1, <2>4, ToolEnds, RecordsOfTools DEF StatementFails
  <2> QED
    BY <1>4, <2>3, <2>4 DEF InsertBooking
<1> QED
  BY <1>1, <1>2, <1>3, <1>4

LEMMA CheckSlotKeeps ==
  ASSUME TurnInv, NEW t \in Turns, NEW s \in Slots, CheckSlot(t, s)
  PROVE  TurnInv'
<1>t. turn[t] \in TurnRecord /\ SessionHolds(t, turn[t]) /\ answer \in [Turns -> {"none", "reply", "error"}]
  BY TurnIs DEF TurnInv, OutsideTyped
<1>1. CASE SlotTaken(t, s)
  BY <1>1, <1>t, ToolEnds DEF CheckSlot, ToolError, AtStep, SessionHolds
<1>2. CASE ~ SlotTaken(t, s)
  <2> DEFINE r == [turn[t] EXCEPT !.pc = "calendar", !.doing = s]
  <2>1. /\ turn' = [turn EXCEPT ![t] = r] /\ turn[t].pc = "tools" /\ turn[t].tx = "live"
        /\ UNCHANGED <<answer, turnRows, calendar, cancelled, broke>>
    BY <1>2 DEF CheckSlot, Become, AtStep
  <2>2. /\ r \in TurnRecord /\ r.pc = "calendar" /\ r.doing = s /\ r.mine = turn[t].mine
        /\ r.told = turn[t].told /\ r.tx = turn[t].tx
    BY <1>t DEF TurnRecord
  <2> HIDE DEF r
  <2> QED
    BY <1>t, <2>1, <2>2, TurnMoves DEF SessionHolds
<1> QED
  BY <1>1, <1>2

LEMMA AskCalendarKeeps ==
  ASSUME TurnInv, NEW t \in Turns, AskCalendar(t)
  PROVE  TurnInv'
<1>t. turn[t] \in TurnRecord /\ SessionHolds(t, turn[t]) /\ answer \in [Turns -> {"none", "reply", "error"}]
  BY TurnIs DEF TurnInv, OutsideTyped
<1> DEFINE r == [turn[t] EXCEPT !.pc = "insert"]
<1>1. /\ turn' = [turn EXCEPT ![t] = r] /\ turn[t].pc = "calendar"
      /\ calendar' \in {calendar, calendar \union {<<t, turn[t].doing>>}}
      /\ UNCHANGED <<answer, turnRows, cancelled, broke>>
  BY DEF AskCalendar, Become, AtStep
<1>2. /\ r \in TurnRecord /\ r.pc = "insert" /\ r.doing = turn[t].doing /\ r.mine = turn[t].mine
      /\ r.told = turn[t].told /\ r.tx = turn[t].tx
  BY <1>t DEF TurnRecord
<1> HIDE DEF r
<1> QED
  BY <1>t, <1>1, <1>2, TurnMoves DEF SessionHolds

\* The end of the request
LEMMA EndKeeps ==
  ASSUME TurnInv, NEW t \in Turns, CommitTurn(t) \/ CommitFails(t)
  PROVE  TurnInv'
<1>t. turn[t] \in TurnRecord /\ SessionHolds(t, turn[t])
  BY TurnIs
<1> DEFINE r == [turn[t] EXCEPT !.pc = "done", !.mine = {}]
<1>1. /\ turn' = [turn EXCEPT ![t] = r] /\ turn[t].pc = "reply" /\ calendar' = calendar /\ cancelled' = cancelled
      /\ \/ turnRows' = turnRows \union ({t} \X turn[t].mine) /\ broke' = broke
         \/ turnRows' = turnRows /\ broke' = broke \union {t}
  BY DEF CommitTurn, CommitFails, Become, AtStep
<1>2. r \in TurnRecord /\ r.pc = "done" /\ r.mine = {} /\ r.told = turn[t].told
  BY <1>t DEF TurnRecord
<1> HIDE DEF r
<1>3. turn'[t] = r /\ TurnsTyped' /\ \A u \in Turns \ {t} : turn'[u] = turn[u]
  BY <1>1, <1>2 DEF TurnInv, TurnsTyped
<1>4. OutsideTyped'
  <2>1. answer' \in [Turns -> {"none", "reply", "error"}]
    BY DEF CommitTurn, CommitFails, AnswerIfNone, TurnInv, OutsideTyped
  <2>2. turn[t].mine \subseteq TurnTools
    BY <1>t DEF TurnRecord
  <2> QED
    BY <1>1, <2>1, <2>2 DEF TurnInv, OutsideTyped
<1>5. PromisesKept'
  BY <1>1, <1>2, <1>3, <1>t DEF TurnInv, PromisesKept, SessionHolds
<1>6. AppointmentsHaveRows'
  BY <1>1, <1>2, <1>3 DEF TurnInv, AppointmentsHaveRows
<1>7. \A u \in Turns : SessionHolds(u, turn[u])'
  BY <1>1, <1>2, <1>3 DEF TurnInv, SessionHolds
<1> QED
  BY <1>3, <1>4, <1>5, <1>6, <1>7 DEF TurnInv

LEMMA BesideKeeps ==
  ASSUME TurnInv, (\E t \in Turns : AnswerFirst(t)) \/ (\E row \in turnRows : CancelBooking(row)) \/ UNCHANGED turnVars
  PROVE  TurnInv'
<1>1. /\ turn' = turn /\ turnRows' = turnRows /\ calendar' = calendar /\ broke' = broke
      /\ cancelled' \subseteq turnRows /\ answer' \in [Turns -> {"none", "reply", "error"}]
  BY DEF AnswerFirst, CancelBooking, turnVars, TurnInv, OutsideTyped
<1> QED
  BY <1>1 DEF TurnInv, OutsideTyped, TurnsTyped, PromisesKept, AppointmentsHaveRows, SessionHolds

LEMMA TurnKeeps == TurnInv /\ [TurnNext]_turnVars => TurnInv'
  BY LoopKeeps, ToolsKeep, CheckSlotKeeps, AskCalendarKeeps, EndKeeps, BesideKeeps DEF TurnNext, TurnStep

\* However many turns there are and whatever fails in them: what the visitor was
\* promised is stored, and the outside calendar follows.
THEOREM TurnsAreSafe == TurnSpec => []TurnsSafe
<1> QED
  BY TurnStart, TurnKeeps, TurnInvIsSafe, PTL DEF TurnSpec

----------------------------------------------------------------------------
(*************************************************************************)
(* The hook of a voice call: what is live holds a slot.                  *)
(*************************************************************************)

Waiting == {"asking", "granted", "told to wait", "waiting", "failed"}
Places == Off \union Waiting \union Granted

SessionTyped ==
  /\ flow \in [Flows -> Places] /\ stoppedAt \in [Flows -> {"none", "asking", "importing", "entering"}]
  /\ revived \subseteq Flows /\ lapsed \in BOOLEAN /\ overtaken \in BOOLEAN /\ crossed \in BOOLEAN

\* Who is in a room, or whose room was closed, got there by connect; who has not
\* begun was not stopped, and no flow goes back.
FlowsInOrder ==
  /\ \A f \in rooms : flow[f] \in {"microphone", "over"}
  /\ \A f \in closing : flow[f] \in {"joining", "microphone", "failed", "over"}
  /\ \A f \in Flows : flow[f] = "idle" => stoppedAt[f] = "none"
  /\ \A f \in Flows : stoppedAt[f] = "entering" => flow[f] \in {"joining", "microphone", "failed", "over"}

\* A flow that was stopped before connect finds the ref set, unless start() was
\* called again.
StoppedGivesUp ==
  \A f \in Flows \ revived :
    stoppedAt[f] = "asking" =>
      f \notin rooms /\ flow[f] \in Waiting \union {"over"} /\ (flow[f] # "over" => quit)

\* Until two flows share the refs or a closed room's handler runs into another
\* call, the refs belong to one flow; until, besides, a lease runs out under its
\* caller or a release overtakes a grant, what it was granted stays.
Alone == revived = {} /\ ~crossed
Clean == Alone /\ ~lapsed /\ ~overtaken

OneRuns == \A f, g \in Flows : Running(f) /\ Running(g) => f = g
RefIsRight == \A f \in Reachable \ closing : current = f /\ stoppedAt[f] \in {"none", "importing"}
LiveIsAlone ==
  \A f \in rooms \ closing :
    flow[f] = "over" => phase = "live" /\ beats # {} /\ \A g \in Flows : ~Running(g)
QuitIsSet == \A f \in Flows : Running(f) /\ stoppedAt[f] = "none" => ~quit

OneFlow == OneRuns /\ RefIsRight /\ LiveIsAlone /\ QuitIsSet

GrantStays ==
  \A f \in Flows \ closing : stoppedAt[f] = "none" /\ (flow[f] \in Granted \/ f \in rooms) => slot = "held" /\ releases = 0

SessionSafe == SessionTypeOK /\ LateOnlyThroughConnect /\ HeldWhileLive

SessionInv ==
  /\ SessionTypeOK /\ SessionTyped /\ FlowsInOrder /\ StoppedGivesUp
  /\ Alone => OneFlow
  /\ Clean => GrantStays

USE FlowsAssumption

LEMMA SessionStart == SessionInit => SessionInv
<1> SUFFICES ASSUME SessionInit PROVE SessionInv
  OBVIOUS
<1>1. SessionTypeOK /\ SessionTyped
  BY DEF SessionInit, SessionTypeOK, SessionTyped, Off, Places
<1>2. FlowsInOrder /\ StoppedGivesUp
  BY DEF SessionInit, FlowsInOrder, StoppedGivesUp, Waiting
<1>3. OneFlow /\ GrantStays
  BY DEF SessionInit, OneFlow, OneRuns, RefIsRight, LiveIsAlone, QuitIsSet, GrantStays, Reachable, Running, Off, Granted
<1> QED
  BY <1>1, <1>2, <1>3 DEF SessionInv

LEMMA SessionInvIsSafe == SessionInv => SessionSafe
<1> SUFFICES ASSUME SessionInv PROVE SessionSafe
  OBVIOUS
<1>1. LateOnlyThroughConnect
  BY DEF SessionInv, OneFlow, RefIsRight, Alone, Reachable, LateOnlyThroughConnect
<1>2. HeldWhileLive
  BY DEF SessionInv, SessionTypeOK, GrantStays, Clean, Alone, HeldWhileLive
<1> QED
  BY <1>1, <1>2 DEF SessionInv, SessionSafe

LEMMA ReleasesAreCounted == SessionInv => releases \in Nat /\ releases + 1 \in Nat /\ (~ (releases > 0) => releases = 0)
<1> SUFFICES ASSUME releases \in Nat PROVE releases + 1 \in Nat /\ (~ (releases > 0) => releases = 0)
  BY DEF SessionInv, SessionTypeOK
<1> QED
  OBVIOUS

LEMMA StartCallKeeps ==
  ASSUME SessionInv, NEW f \in Flows, StartCall(f)
  PROVE  SessionInv'
<1> USE DEF StartCall, Go, ClearTimers, ServerIdle
<1>1. SessionTypeOK' /\ SessionTyped'
  BY DEF SessionInv, SessionTypeOK, SessionTyped, Running, Off, Waiting, Places, Granted
<1>2. FlowsInOrder'
  BY DEF SessionInv, SessionTypeOK, SessionTyped, FlowsInOrder, Reachable, Running, Off
<1>3. StoppedGivesUp'
  BY DEF SessionInv, SessionTypeOK, SessionTyped, FlowsInOrder, StoppedGivesUp, Running, Off, Waiting
<1>4. ASSUME Alone' PROVE OneFlow'
  <2>1. Alone /\ OneFlow
    BY <1>4 DEF SessionInv, SessionTyped, Alone
  <2>2. OneRuns'
    BY <1>4, <2>1 DEF SessionInv, SessionTypeOK, SessionTyped, OneFlow, OneRuns, Alone, Running, Off
  <2>3. RefIsRight'
    BY <1>4, <2>1 DEF SessionInv, SessionTypeOK, SessionTyped, FlowsInOrder, StoppedGivesUp, OneFlow, OneRuns, RefIsRight, LiveIsAlone, Alone, Reachable, Running, Off, Waiting, Granted
  <2>4. LiveIsAlone'
    BY <1>4, <2>1 DEF SessionInv, SessionTypeOK, SessionTyped, FlowsInOrder, OneFlow, OneRuns, RefIsRight, LiveIsAlone, Alone, Reachable, Running, Off
  <2>5. QuitIsSet'
    BY <1>4, <2>1 DEF SessionInv, SessionTypeOK, SessionTyped, FlowsInOrder, OneFlow, OneRuns, QuitIsSet, Alone, Running, Off
  <2> QED
    BY <2>2, <2>3, <2>4, <2>5 DEF OneFlow
<1>5. ASSUME Clean' PROVE GrantStays'
  <2>1. Alone /\ OneFlow /\ GrantStays
    BY <1>5 DEF SessionInv, SessionTyped, Clean, Alone
  <2> QED
    BY <1>5, <2>1 DEF SessionInv, SessionTypeOK, SessionTyped, FlowsInOrder, OneFlow, OneRuns, RefIsRight, LiveIsAlone, GrantStays, Clean, Alone, Reachable, Running, Off, Granted
<1> QED
  BY <1>1, <1>2, <1>3, <1>4, <1>5 DEF SessionInv

LEMMA AskForSlotKeeps ==
  ASSUME SessionInv, NEW f \in Flows, AskForSlot(f)
  PROVE  SessionInv'
<1> USE DEF AskForSlot, Go
<1>1. SessionTypeOK' /\ SessionTyped'
  BY DEF SessionInv, SessionTypeOK, SessionTyped, Running, Off, Waiting, Places, Granted
<1>2. FlowsInOrder'
  BY DEF SessionInv, SessionTypeOK, SessionTyped, FlowsInOrder, Reachable, Running, Off
<1>3. StoppedGivesUp'
  BY DEF SessionInv, SessionTypeOK, SessionTyped, FlowsInOrder, StoppedGivesUp, Running, Off, Waiting
<1>4. ASSUME Alone' PROVE OneFlow'
  <2>1. Alone /\ OneFlow
    BY <1>4 DEF SessionInv, SessionTyped, Alone
  <2>2. OneRuns'
    BY <1>4, <2>1 DEF SessionInv, SessionTypeOK, SessionTyped, OneFlow, OneRuns, Alone, Running, Off
  <2>3. RefIsRight'
    BY <1>4, <2>1 DEF SessionInv, SessionTypeOK, SessionTyped, FlowsInOrder, StoppedGivesUp, OneFlow, OneRuns, RefIsRight, LiveIsAlone, Alone, Reachable, Running, Off, Waiting, Granted
  <2>4. LiveIsAlone'
    BY <1>4, <2>1 DEF SessionInv, SessionTypeOK, SessionTyped, FlowsInOrder, OneFlow, OneRuns, RefIsRight, LiveIsAlone, Alone, Reachable, Running, Off
  <2>5. QuitIsSet'
    BY <1>4, <2>1 DEF SessionInv, SessionTypeOK, SessionTyped, FlowsInOrder, OneFlow, OneRuns, QuitIsSet, Alone, Running, Off
  <2> QED
    BY <2>2, <2>3, <2>4, <2>5 DEF OneFlow
<1>5. ASSUME Clean' PROVE GrantStays'
  <2>1. Alone /\ OneFlow /\ GrantStays
    BY <1>5 DEF SessionInv, SessionTyped, Clean, Alone
  <2>2. ~ (releases > 0) /\ releases' = releases
    BY <1>5 DEF Clean
  <2>3. releases = 0
    BY <2>2, ReleasesAreCounted
  <2> QED
    BY <1>5, <2>1, <2>2, <2>3 DEF SessionInv, SessionTypeOK, SessionTyped, FlowsInOrder, OneFlow, OneRuns, RefIsRight, LiveIsAlone, GrantStays, Clean, Alone, Reachable, Running, Off, Granted
<1> QED
  BY <1>1, <1>2, <1>3, <1>4, <1>5 DEF SessionInv

LEMMA AskingFailsKeeps ==
  ASSUME SessionInv, NEW f \in Flows, AskingFails(f)
  PROVE  SessionInv'
<1> USE DEF AskingFails, Go
<1>1. SessionTypeOK' /\ SessionTyped'
  BY DEF SessionInv, SessionTypeOK, SessionTyped, Running, Off, Waiting, Places, Granted
<1>2. FlowsInOrder'
  BY DEF SessionInv, SessionTypeOK, SessionTyped, FlowsInOrder, Reachable, Running, Off
<1>3. StoppedGivesUp'
  BY DEF SessionInv, SessionTypeOK, SessionTyped, FlowsInOrder, StoppedGivesUp, Running, Off, Waiting
<1>4. ASSUME Alone' PROVE OneFlow'
  <2>1. Alone /\ OneFlow
    BY <1>4 DEF SessionInv, SessionTyped, Alone
  <2>2. OneRuns'
    BY <1>4, <2>1 DEF SessionInv, SessionTypeOK, SessionTyped, OneFlow, OneRuns, Alone, Running, Off
  <2>3. RefIsRight'
    BY <1>4, <2>1 DEF SessionInv, SessionTypeOK, SessionTyped, FlowsInOrder, StoppedGivesUp, OneFlow, OneRuns, RefIsRight, LiveIsAlone, Alone, Reachable, Running, Off, Waiting, Granted
  <2>4. LiveIsAlone'
    BY <1>4, <2>1 DEF SessionInv, SessionTypeOK, SessionTyped, FlowsInOrder, OneFlow, OneRuns, RefIsRight, LiveIsAlone, Alone, Reachable, Running, Off
  <2>5. QuitIsSet'
    BY <1>4, <2>1 DEF SessionInv, SessionTypeOK, SessionTyped, FlowsInOrder, OneFlow, OneRuns, QuitIsSet, Alone, Running, Off
  <2> QED
    BY <2>2, <2>3, <2>4, <2>5 DEF OneFlow
<1>5. ASSUME Clean' PROVE GrantStays'
  <2>1. Alone /\ OneFlow /\ GrantStays
    BY <1>5 DEF SessionInv, SessionTyped, Clean, Alone
  <2> QED
    BY <1>5, <2>1 DEF SessionInv, SessionTypeOK, SessionTyped, FlowsInOrder, OneFlow, OneRuns, RefIsRight, LiveIsAlone, GrantStays, Clean, Alone, Reachable, Running, Off, Granted
<1> QED
  BY <1>1, <1>2, <1>3, <1>4, <1>5 DEF SessionInv

LEMMA AnsweredKeeps ==
  ASSUME SessionInv, NEW f \in Flows, Answered(f)
  PROVE  SessionInv'
<1> USE DEF Answered, Go, ServerIdle
<1>1. SessionTypeOK' /\ SessionTyped'
  <2>1. releases' \in Nat
    <3>1. releases \in Nat /\ releases + 1 \in Nat
      BY ReleasesAreCounted
    <3> QED
      BY <3>1
  <2>2. lapsed' \in BOOLEAN /\ overtaken' \in BOOLEAN /\ crossed' \in BOOLEAN /\ holding' \in BOOLEAN /\ quit' \in BOOLEAN
    BY DEF SessionInv, SessionTypeOK, SessionTyped
  <2>3. flow' \in [Flows -> Places] /\ revived' \subseteq Flows
    BY DEF SessionInv, SessionTypeOK, SessionTyped, Off, Waiting, Places, Granted
  <2>4. stoppedAt' \in [Flows -> {"none", "asking", "importing", "entering"}]
    BY DEF SessionInv, SessionTypeOK, SessionTyped, Running, Off, Waiting, Places, Granted
  <2>5. /\ page' \in {"shown", "left", "closed"} /\ phase' \in {"off", "busy", "live"}
        /\ current' \in Flows \union {NoFlow} /\ slot' \in {"none", "queued", "held"}
        /\ beatRef' \in beats' \union {NoFlow} /\ beats' \union rooms' \union closing' \subseteq Flows
    BY DEF SessionInv, SessionTypeOK, SessionTyped, Reachable
  <2>6. page' = "closed" => rooms' = {} /\ closing' = {} /\ beats' = {} /\ \A g \in Flows : flow'[g] = "over"
    BY DEF SessionInv, SessionTypeOK, SessionTyped, Running, Off, Reachable
  <2> QED
    BY <2>1, <2>2, <2>3, <2>4, <2>5, <2>6 DEF SessionTypeOK, SessionTyped
<1>2. FlowsInOrder'
  BY DEF SessionInv, SessionTypeOK, SessionTyped, FlowsInOrder, Reachable, Running, Off
<1>3. StoppedGivesUp'
  BY DEF SessionInv, SessionTypeOK, SessionTyped, FlowsInOrder, StoppedGivesUp, Running, Off, Waiting
<1>4. ASSUME Alone' PROVE OneFlow'
  <2>1. Alone /\ OneFlow
    BY <1>4 DEF SessionInv, SessionTyped, Alone
  <2>2. OneRuns'
    BY <1>4, <2>1 DEF SessionInv, SessionTypeOK, SessionTyped, OneFlow, OneRuns, Alone, Running, Off
  <2>3. RefIsRight'
    <3>1. Reachable' = Reachable /\ closing' = closing /\ current' = current /\ stoppedAt' = stoppedAt
      BY DEF SessionInv, SessionTyped, Reachable
    <3> QED
      BY <2>1, <3>1 DEF OneFlow, RefIsRight
  <2>4. LiveIsAlone'
    BY <1>4, <2>1 DEF SessionInv, SessionTypeOK, SessionTyped, FlowsInOrder, OneFlow, OneRuns, RefIsRight, LiveIsAlone, Alone, Reachable, Running, Off
  <2>5. QuitIsSet'
    BY <1>4, <2>1 DEF SessionInv, SessionTypeOK, SessionTyped, FlowsInOrder, OneFlow, OneRuns, QuitIsSet, Alone, Running, Off
  <2> QED
    BY <2>2, <2>3, <2>4, <2>5 DEF OneFlow
<1>5. ASSUME Clean' PROVE GrantStays'
  <2>1. Alone /\ OneFlow /\ GrantStays
    BY <1>5 DEF SessionInv, SessionTyped, Clean, Alone
  <2>2. CASE quit
    <3>1. \A g \in Flows \ closing : flow'[g] \notin Granted /\ g \notin rooms
      <4> SUFFICES ASSUME NEW g \in Flows \ closing PROVE flow'[g] \notin Granted /\ g \notin rooms
        OBVIOUS
      <4>1. CASE g = f
        BY <2>2, <4>1 DEF SessionInv, SessionTyped, FlowsInOrder, Granted
      <4>2. CASE g # f
        BY <2>1, <2>2, <4>2 DEF SessionInv, SessionTyped, FlowsInOrder, OneFlow, OneRuns, LiveIsAlone, Running, Off, Granted
      <4> QED
        BY <4>1, <4>2
    <3> QED
      BY <3>1 DEF GrantStays
  <2>3. CASE ~ quit
    BY <2>1, <2>3 DEF SessionInv, SessionTyped, FlowsInOrder, GrantStays, Granted
  <2> QED
    BY <2>2, <2>3
<1> QED
  BY <1>1, <1>2, <1>3, <1>4, <1>5 DEF SessionInv

LEMMA PollAgainKeeps ==
  ASSUME SessionInv, NEW f \in Flows, PollAgain(f)
  PROVE  SessionInv'
<1> USE DEF PollAgain, Go, ServerIdle
<1>1. SessionTypeOK' /\ SessionTyped'
  BY DEF SessionInv, SessionTypeOK, SessionTyped, Running, Off, Waiting, Places, Granted
<1>2. FlowsInOrder'
  BY DEF SessionInv, SessionTypeOK, SessionTyped, FlowsInOrder, Reachable, Running, Off
<1>3. StoppedGivesUp'
  BY DEF SessionInv, SessionTypeOK, SessionTyped, FlowsInOrder, StoppedGivesUp, Running, Off, Waiting
<1>4. ASSUME Alone' PROVE OneFlow'
  <2>1. Alone /\ OneFlow
    BY <1>4 DEF SessionInv, SessionTyped, Alone
  <2>2. OneRuns'
    BY <1>4, <2>1 DEF SessionInv, SessionTypeOK, SessionTyped, OneFlow, OneRuns, Alone, Running, Off
  <2>3. RefIsRight'
    BY <1>4, <2>1 DEF SessionInv, SessionTypeOK, SessionTyped, FlowsInOrder, StoppedGivesUp, OneFlow, OneRuns, RefIsRight, LiveIsAlone, Alone, Reachable, Running, Off, Waiting, Granted
  <2>4. LiveIsAlone'
    BY <1>4, <2>1 DEF SessionInv, SessionTypeOK, SessionTyped, FlowsInOrder, OneFlow, OneRuns, RefIsRight, LiveIsAlone, Alone, Reachable, Running, Off
  <2>5. QuitIsSet'
    BY <1>4, <2>1 DEF SessionInv, SessionTypeOK, SessionTyped, FlowsInOrder, OneFlow, OneRuns, QuitIsSet, Alone, Running, Off
  <2> QED
    BY <2>2, <2>3, <2>4, <2>5 DEF OneFlow
<1>5. ASSUME Clean' PROVE GrantStays'
  <2>1. Alone /\ OneFlow /\ GrantStays
    BY <1>5 DEF SessionInv, SessionTyped, Clean, Alone
  <2> QED
    BY <1>5, <2>1 DEF SessionInv, SessionTypeOK, SessionTyped, FlowsInOrder, OneFlow, OneRuns, RefIsRight, LiveIsAlone, GrantStays, Clean, Alone, Reachable, Running, Off, Granted
<1> QED
  BY <1>1, <1>2, <1>3, <1>4, <1>5 DEF SessionInv

LEMMA ImportedKeeps ==
  ASSUME SessionInv, NEW f \in Flows, Imported(f)
  PROVE  SessionInv'
<1> USE DEF Imported, Go, ServerIdle
<1>1. SessionTypeOK' /\ SessionTyped'
  BY DEF SessionInv, SessionTypeOK, SessionTyped, Running, Off, Waiting, Places, Granted
<1>2. FlowsInOrder'
  BY DEF SessionInv, SessionTypeOK, SessionTyped, FlowsInOrder, Reachable, Running, Off
<1>3. StoppedGivesUp'
  BY DEF SessionInv, SessionTypeOK, SessionTyped, FlowsInOrder, StoppedGivesUp, Running, Off, Waiting
<1>4. ASSUME Alone' PROVE OneFlow'
  <2>1. Alone /\ OneFlow
    BY <1>4 DEF SessionInv, SessionTyped, Alone
  <2>2. OneRuns'
    BY <1>4, <2>1 DEF SessionInv, SessionTypeOK, SessionTyped, OneFlow, OneRuns, Alone, Running, Off
  <2>3. RefIsRight'
    BY <1>4, <2>1 DEF SessionInv, SessionTypeOK, SessionTyped, FlowsInOrder, StoppedGivesUp, OneFlow, OneRuns, RefIsRight, LiveIsAlone, Alone, Reachable, Running, Off, Waiting, Granted
  <2>4. LiveIsAlone'
    BY <1>4, <2>1 DEF SessionInv, SessionTypeOK, SessionTyped, FlowsInOrder, OneFlow, OneRuns, RefIsRight, LiveIsAlone, Alone, Reachable, Running, Off
  <2>5. QuitIsSet'
    BY <1>4, <2>1 DEF SessionInv, SessionTypeOK, SessionTyped, FlowsInOrder, OneFlow, OneRuns, QuitIsSet, Alone, Running, Off
  <2> QED
    BY <2>2, <2>3, <2>4, <2>5 DEF OneFlow
<1>5. ASSUME Clean' PROVE GrantStays'
  <2>1. Alone /\ OneFlow /\ GrantStays
    BY <1>5 DEF SessionInv, SessionTyped, Clean, Alone
  <2> QED
    BY <1>5, <2>1 DEF SessionInv, SessionTypeOK, SessionTyped, FlowsInOrder, OneFlow, OneRuns, RefIsRight, LiveIsAlone, GrantStays, Clean, Alone, Reachable, Running, Off, Granted
<1> QED
  BY <1>1, <1>2, <1>3, <1>4, <1>5 DEF SessionInv

LEMMA JoinKeeps ==
  ASSUME SessionInv, NEW f \in Flows, Join(f)
  PROVE  SessionInv'
<1> USE DEF Join, Go, ServerIdle
<1>1. SessionTypeOK' /\ SessionTyped'
  BY DEF SessionInv, SessionTypeOK, SessionTyped, Running, Off, Waiting, Places, Granted
<1>2. FlowsInOrder'
  BY DEF SessionInv, SessionTypeOK, SessionTyped, FlowsInOrder, Reachable, Running, Off
<1>3. StoppedGivesUp'
  BY DEF SessionInv, SessionTypeOK, SessionTyped, FlowsInOrder, StoppedGivesUp, Running, Off, Waiting
<1>4. ASSUME Alone' PROVE OneFlow'
  <2>1. Alone /\ OneFlow
    BY <1>4 DEF SessionInv, SessionTyped, Alone
  <2>2. OneRuns'
    BY <1>4, <2>1 DEF SessionInv, SessionTypeOK, SessionTyped, OneFlow, OneRuns, Alone, Running, Off
  <2>3. RefIsRight'
    BY <1>4, <2>1 DEF SessionInv, SessionTypeOK, SessionTyped, FlowsInOrder, StoppedGivesUp, OneFlow, OneRuns, RefIsRight, LiveIsAlone, Alone, Reachable, Running, Off, Waiting, Granted
  <2>4. LiveIsAlone'
    BY <1>4, <2>1 DEF SessionInv, SessionTypeOK, SessionTyped, FlowsInOrder, OneFlow, OneRuns, RefIsRight, LiveIsAlone, Alone, Reachable, Running, Off
  <2>5. QuitIsSet'
    BY <1>4, <2>1 DEF SessionInv, SessionTypeOK, SessionTyped, FlowsInOrder, OneFlow, OneRuns, QuitIsSet, Alone, Running, Off
  <2> QED
    BY <2>2, <2>3, <2>4, <2>5 DEF OneFlow
<1>5. ASSUME Clean' PROVE GrantStays'
  <2>1. Alone /\ OneFlow /\ GrantStays
    BY <1>5 DEF SessionInv, SessionTyped, Clean, Alone
  <2> QED
    BY <1>5, <2>1 DEF SessionInv, SessionTypeOK, SessionTyped, FlowsInOrder, OneFlow, OneRuns, RefIsRight, LiveIsAlone, GrantStays, Clean, Alone, Reachable, Running, Off, Granted
<1> QED
  BY <1>1, <1>2, <1>3, <1>4, <1>5 DEF SessionInv

LEMMA GoLiveKeeps ==
  ASSUME SessionInv, NEW f \in Flows, GoLive(f)
  PROVE  SessionInv'
<1> USE DEF GoLive, Go, ServerIdle
<1>1. SessionTypeOK' /\ SessionTyped'
  BY DEF SessionInv, SessionTypeOK, SessionTyped, Running, Off, Waiting, Places, Granted
<1>2. FlowsInOrder'
  BY DEF SessionInv, SessionTypeOK, SessionTyped, FlowsInOrder, Reachable, Running, Off
<1>3. StoppedGivesUp'
  BY DEF SessionInv, SessionTypeOK, SessionTyped, FlowsInOrder, StoppedGivesUp, Running, Off, Waiting
<1>4. ASSUME Alone' PROVE OneFlow'
  <2>1. Alone /\ OneFlow
    BY <1>4 DEF SessionInv, SessionTyped, Alone
  <2>2. OneRuns'
    BY <1>4, <2>1 DEF SessionInv, SessionTypeOK, SessionTyped, OneFlow, OneRuns, Alone, Running, Off
  <2>3. RefIsRight'
    BY <1>4, <2>1 DEF SessionInv, SessionTypeOK, SessionTyped, FlowsInOrder, StoppedGivesUp, OneFlow, OneRuns, RefIsRight, LiveIsAlone, Alone, Reachable, Running, Off, Waiting, Granted
  <2>4. LiveIsAlone'
    BY <1>4, <2>1 DEF SessionInv, SessionTypeOK, SessionTyped, FlowsInOrder, OneFlow, OneRuns, RefIsRight, LiveIsAlone, Alone, Reachable, Running, Off
  <2>5. QuitIsSet'
    BY <1>4, <2>1 DEF SessionInv, SessionTypeOK, SessionTyped, FlowsInOrder, OneFlow, OneRuns, QuitIsSet, Alone, Running, Off
  <2> QED
    BY <2>2, <2>3, <2>4, <2>5 DEF OneFlow
<1>5. ASSUME Clean' PROVE GrantStays'
  <2>1. Alone /\ OneFlow /\ GrantStays
    BY <1>5 DEF SessionInv, SessionTyped, Clean, Alone
  <2> QED
    BY <1>5, <2>1 DEF SessionInv, SessionTypeOK, SessionTyped, FlowsInOrder, OneFlow, OneRuns, RefIsRight, LiveIsAlone, GrantStays, Clean, Alone, Reachable, Running, Off, Granted
<1> QED
  BY <1>1, <1>2, <1>3, <1>4, <1>5 DEF SessionInv

LEMMA StartFailsKeeps ==
  ASSUME SessionInv, NEW f \in Flows, StartFails(f)
  PROVE  SessionInv'
<1> USE DEF StartFails, Go, ClearTimers, Release, Close, Reachable, ServerIdle
<1>1. SessionTypeOK' /\ SessionTyped'
  <2>1. releases' \in Nat
    <3>1. releases \in Nat /\ releases + 1 \in Nat
      BY ReleasesAreCounted
    <3> QED
      BY <3>1
  <2>2. lapsed' \in BOOLEAN /\ overtaken' \in BOOLEAN /\ crossed' \in BOOLEAN /\ holding' \in BOOLEAN /\ quit' \in BOOLEAN
    BY DEF SessionInv, SessionTypeOK, SessionTyped
  <2>3. flow' \in [Flows -> Places] /\ revived' \subseteq Flows
    BY DEF SessionInv, SessionTypeOK, SessionTyped, Off, Waiting, Places, Granted
  <2>4. stoppedAt' \in [Flows -> {"none", "asking", "importing", "entering"}]
    BY DEF SessionInv, SessionTypeOK, SessionTyped, Running, Off, Waiting, Places, Granted
  <2>5. /\ page' \in {"shown", "left", "closed"} /\ phase' \in {"off", "busy", "live"}
        /\ current' \in Flows \union {NoFlow} /\ slot' \in {"none", "queued", "held"}
        /\ beatRef' \in beats' \union {NoFlow} /\ beats' \union rooms' \union closing' \subseteq Flows
    BY DEF SessionInv, SessionTypeOK, SessionTyped, Reachable
  <2>6. page' = "closed" => rooms' = {} /\ closing' = {} /\ beats' = {} /\ \A g \in Flows : flow'[g] = "over"
    BY DEF SessionInv, SessionTypeOK, SessionTyped, Running, Off, Reachable
  <2> QED
    BY <2>1, <2>2, <2>3, <2>4, <2>5, <2>6 DEF SessionTypeOK, SessionTyped
<1>2. FlowsInOrder'
  BY DEF SessionInv, SessionTypeOK, SessionTyped, FlowsInOrder, Reachable, Running, Off
<1>3. StoppedGivesUp'
  BY DEF SessionInv, SessionTypeOK, SessionTyped, FlowsInOrder, StoppedGivesUp, Running, Off, Waiting
<1>4. ASSUME Alone' PROVE OneFlow'
  <2>1. Alone /\ OneFlow
    BY <1>4 DEF SessionInv, SessionTyped, Alone
  <2>2. OneRuns'
    BY <1>4, <2>1 DEF SessionInv, SessionTypeOK, SessionTyped, OneFlow, OneRuns, Alone, Running, Off
  <2>3. RefIsRight'
    BY <1>4, <2>1 DEF SessionInv, SessionTypeOK, SessionTyped, FlowsInOrder, StoppedGivesUp, OneFlow, OneRuns, RefIsRight, LiveIsAlone, Alone, Reachable, Running, Off, Waiting, Granted
  <2>4. LiveIsAlone'
    BY <1>4, <2>1 DEF SessionInv, SessionTypeOK, SessionTyped, FlowsInOrder, OneFlow, OneRuns, RefIsRight, LiveIsAlone, Alone, Reachable, Running, Off
  <2>5. QuitIsSet'
    BY <1>4, <2>1 DEF SessionInv, SessionTypeOK, SessionTyped, FlowsInOrder, OneFlow, OneRuns, QuitIsSet, Alone, Running, Off
  <2> QED
    BY <2>2, <2>3, <2>4, <2>5 DEF OneFlow
<1>5. ASSUME Clean' PROVE GrantStays'
  <2>1. Alone /\ OneFlow /\ GrantStays
    BY <1>5 DEF SessionInv, SessionTyped, Clean, Alone
  <2> QED
    BY <1>5, <2>1 DEF SessionInv, SessionTypeOK, SessionTyped, FlowsInOrder, OneFlow, OneRuns, RefIsRight, LiveIsAlone, GrantStays, Clean, Alone, Reachable, Running, Off, Granted
<1> QED
  BY <1>1, <1>2, <1>3, <1>4, <1>5 DEF SessionInv

LEMMA StopCallKeeps ==
  ASSUME SessionInv, StopCall
  PROVE  SessionInv'
<1> USE DEF StopCall, ClearTimers, Release, NoteStop, Stage, Close, Reachable, ServerIdle
<1>1. SessionTypeOK' /\ SessionTyped'
  <2>1. releases' \in Nat
    <3>1. releases \in Nat /\ releases + 1 \in Nat
      BY ReleasesAreCounted
    <3> QED
      BY <3>1
  <2>2. lapsed' \in BOOLEAN /\ overtaken' \in BOOLEAN /\ crossed' \in BOOLEAN /\ holding' \in BOOLEAN /\ quit' \in BOOLEAN
    BY DEF SessionInv, SessionTypeOK, SessionTyped
  <2>3. flow' \in [Flows -> Places] /\ revived' \subseteq Flows
    BY DEF SessionInv, SessionTypeOK, SessionTyped, Off, Waiting, Places, Granted
  <2>4. stoppedAt' \in [Flows -> {"none", "asking", "importing", "entering"}]
    BY DEF SessionInv, SessionTypeOK, SessionTyped, Running, Off, Waiting, Places, Granted
  <2>5. /\ page' \in {"shown", "left", "closed"} /\ phase' \in {"off", "busy", "live"}
        /\ current' \in Flows \union {NoFlow} /\ slot' \in {"none", "queued", "held"}
        /\ beatRef' \in beats' \union {NoFlow} /\ beats' \union rooms' \union closing' \subseteq Flows
    BY DEF SessionInv, SessionTypeOK, SessionTyped, Reachable
  <2>6. page' = "closed" => rooms' = {} /\ closing' = {} /\ beats' = {} /\ \A g \in Flows : flow'[g] = "over"
    BY DEF SessionInv, SessionTypeOK, SessionTyped, Running, Off, Reachable
  <2> QED
    BY <2>1, <2>2, <2>3, <2>4, <2>5, <2>6 DEF SessionTypeOK, SessionTyped
<1>2. FlowsInOrder'
  BY DEF SessionInv, SessionTypeOK, SessionTyped, FlowsInOrder, Reachable, Running, Off
<1>3. StoppedGivesUp'
  BY DEF SessionInv, SessionTypeOK, SessionTyped, FlowsInOrder, StoppedGivesUp, Running, Off, Waiting, Places, Granted
<1>4. ASSUME Alone' PROVE OneFlow'
  <2>1. Alone /\ OneFlow
    BY <1>4 DEF SessionInv, SessionTyped, Alone
  <2>2. OneRuns'
    BY <1>4, <2>1 DEF SessionInv, SessionTypeOK, SessionTyped, OneFlow, OneRuns, Alone, Running, Off
  <2>3. RefIsRight'
    BY <1>4, <2>1 DEF SessionInv, SessionTypeOK, SessionTyped, FlowsInOrder, StoppedGivesUp, OneFlow, OneRuns, RefIsRight, LiveIsAlone, Alone, Reachable, Running, Off, Waiting, Granted
  <2>4. LiveIsAlone'
    BY <1>4, <2>1 DEF SessionInv, SessionTypeOK, SessionTyped, FlowsInOrder, OneFlow, OneRuns, RefIsRight, LiveIsAlone, Alone, Reachable, Running, Off
  <2>5. QuitIsSet'
    BY <1>4, <2>1 DEF SessionInv, SessionTypeOK, SessionTyped, FlowsInOrder, OneFlow, OneRuns, QuitIsSet, Alone, Running, Off, Places, Waiting, Granted
  <2> QED
    BY <2>2, <2>3, <2>4, <2>5 DEF OneFlow
<1>5. ASSUME Clean' PROVE GrantStays'
  <2>1. Alone /\ OneFlow /\ GrantStays
    BY <1>5 DEF SessionInv, SessionTyped, Clean, Alone
  <2> QED
    BY <1>5, <2>1 DEF SessionInv, SessionTypeOK, SessionTyped, FlowsInOrder, OneFlow, OneRuns, RefIsRight, LiveIsAlone, GrantStays, Clean, Alone, Reachable, Running, Off, Granted
<1> QED
  BY <1>1, <1>2, <1>3, <1>4, <1>5 DEF SessionInv

LEMMA LeaveKeeps ==
  ASSUME SessionInv, Leave
  PROVE  SessionInv'
<1> USE DEF Leave, ClearTimers, Release, NoteStop, Stage, Close, Reachable, ServerIdle
<1>1. SessionTypeOK' /\ SessionTyped'
  <2>1. releases' \in Nat
    <3>1. releases \in Nat /\ releases + 1 \in Nat
      BY ReleasesAreCounted
    <3> QED
      BY <3>1
  <2>2. lapsed' \in BOOLEAN /\ overtaken' \in BOOLEAN /\ crossed' \in BOOLEAN /\ holding' \in BOOLEAN /\ quit' \in BOOLEAN
    BY DEF SessionInv, SessionTypeOK, SessionTyped
  <2>3. flow' \in [Flows -> Places] /\ revived' \subseteq Flows
    BY DEF SessionInv, SessionTypeOK, SessionTyped, Off, Waiting, Places, Granted
  <2>4. stoppedAt' \in [Flows -> {"none", "asking", "importing", "entering"}]
    BY DEF SessionInv, SessionTypeOK, SessionTyped, Running, Off, Waiting, Places, Granted
  <2>5. /\ page' \in {"shown", "left", "closed"} /\ phase' \in {"off", "busy", "live"}
        /\ current' \in Flows \union {NoFlow} /\ slot' \in {"none", "queued", "held"}
        /\ beatRef' \in beats' \union {NoFlow} /\ beats' \union rooms' \union closing' \subseteq Flows
    BY DEF SessionInv, SessionTypeOK, SessionTyped, Reachable
  <2>6. page' = "closed" => rooms' = {} /\ closing' = {} /\ beats' = {} /\ \A g \in Flows : flow'[g] = "over"
    BY DEF SessionInv, SessionTypeOK, SessionTyped, Running, Off, Reachable
  <2> QED
    BY <2>1, <2>2, <2>3, <2>4, <2>5, <2>6 DEF SessionTypeOK, SessionTyped
<1>2. FlowsInOrder'
  BY DEF SessionInv, SessionTypeOK, SessionTyped, FlowsInOrder, Reachable, Running, Off
<1>3. StoppedGivesUp'
  BY DEF SessionInv, SessionTypeOK, SessionTyped, FlowsInOrder, StoppedGivesUp, Running, Off, Waiting, Places, Granted
<1>4. ASSUME Alone' PROVE OneFlow'
  <2>1. Alone /\ OneFlow
    BY <1>4 DEF SessionInv, SessionTyped, Alone
  <2>2. OneRuns'
    BY <1>4, <2>1 DEF SessionInv, SessionTypeOK, SessionTyped, OneFlow, OneRuns, Alone, Running, Off
  <2>3. RefIsRight'
    BY <1>4, <2>1 DEF SessionInv, SessionTypeOK, SessionTyped, FlowsInOrder, StoppedGivesUp, OneFlow, OneRuns, RefIsRight, LiveIsAlone, Alone, Reachable, Running, Off, Waiting, Granted
  <2>4. LiveIsAlone'
    BY <1>4, <2>1 DEF SessionInv, SessionTypeOK, SessionTyped, FlowsInOrder, OneFlow, OneRuns, RefIsRight, LiveIsAlone, Alone, Reachable, Running, Off
  <2>5. QuitIsSet'
    BY <1>4, <2>1 DEF SessionInv, SessionTypeOK, SessionTyped, FlowsInOrder, OneFlow, OneRuns, QuitIsSet, Alone, Running, Off, Places, Waiting, Granted
  <2> QED
    BY <2>2, <2>3, <2>4, <2>5 DEF OneFlow
<1>5. ASSUME Clean' PROVE GrantStays'
  <2>1. Alone /\ OneFlow /\ GrantStays
    BY <1>5 DEF SessionInv, SessionTyped, Clean, Alone
  <2> QED
    BY <1>5, <2>1 DEF SessionInv, SessionTypeOK, SessionTyped, FlowsInOrder, OneFlow, OneRuns, RefIsRight, LiveIsAlone, GrantStays, Clean, Alone, Reachable, Running, Off, Granted
<1> QED
  BY <1>1, <1>2, <1>3, <1>4, <1>5 DEF SessionInv

LEMMA CloseTabKeeps ==
  ASSUME SessionInv, CloseTab
  PROVE  SessionInv'
<1> USE DEF CloseTab, Release, NoteStop, Stage, ServerIdle
<1>1. SessionTypeOK' /\ SessionTyped'
  <2>1. releases' \in Nat
    <3>1. releases \in Nat /\ releases + 1 \in Nat
      BY ReleasesAreCounted
    <3> QED
      BY <3>1
  <2>2. lapsed' \in BOOLEAN /\ overtaken' \in BOOLEAN /\ crossed' \in BOOLEAN /\ holding' \in BOOLEAN /\ quit' \in BOOLEAN
    BY DEF SessionInv, SessionTypeOK, SessionTyped
  <2>3. flow' \in [Flows -> Places] /\ revived' \subseteq Flows
    BY DEF SessionInv, SessionTypeOK, SessionTyped, Off, Waiting, Places, Granted
  <2>4. stoppedAt' \in [Flows -> {"none", "asking", "importing", "entering"}]
    BY DEF SessionInv, SessionTypeOK, SessionTyped, Running, Off, Waiting, Places, Granted
  <2>5. /\ page' \in {"shown", "left", "closed"} /\ phase' \in {"off", "busy", "live"}
        /\ current' \in Flows \union {NoFlow} /\ slot' \in {"none", "queued", "held"}
        /\ beatRef' \in beats' \union {NoFlow} /\ beats' \union rooms' \union closing' \subseteq Flows
    BY DEF SessionInv, SessionTypeOK, SessionTyped, Reachable
  <2>6. page' = "closed" => rooms' = {} /\ closing' = {} /\ beats' = {} /\ \A g \in Flows : flow'[g] = "over"
    BY DEF SessionInv, SessionTypeOK, SessionTyped, Running, Off, Reachable
  <2> QED
    BY <2>1, <2>2, <2>3, <2>4, <2>5, <2>6 DEF SessionTypeOK, SessionTyped
<1>2. FlowsInOrder'
  BY DEF SessionInv, SessionTypeOK, SessionTyped, FlowsInOrder, Reachable, Running, Off
<1>3. StoppedGivesUp'
  BY DEF SessionInv, SessionTypeOK, SessionTyped, FlowsInOrder, StoppedGivesUp, Running, Off, Waiting
<1>4. ASSUME Alone' PROVE OneFlow'
  <2>1. Alone /\ OneFlow
    BY <1>4 DEF SessionInv, SessionTyped, Alone
  <2>2. OneRuns'
    BY <1>4, <2>1 DEF SessionInv, SessionTypeOK, SessionTyped, OneFlow, OneRuns, Alone, Running, Off
  <2>3. RefIsRight'
    BY <1>4, <2>1 DEF SessionInv, SessionTypeOK, SessionTyped, FlowsInOrder, StoppedGivesUp, OneFlow, OneRuns, RefIsRight, LiveIsAlone, Alone, Reachable, Running, Off, Waiting, Granted
  <2>4. LiveIsAlone'
    BY <1>4, <2>1 DEF SessionInv, SessionTypeOK, SessionTyped, FlowsInOrder, OneFlow, OneRuns, RefIsRight, LiveIsAlone, Alone, Reachable, Running, Off
  <2>5. QuitIsSet'
    BY <1>4, <2>1 DEF SessionInv, SessionTypeOK, SessionTyped, FlowsInOrder, OneFlow, OneRuns, QuitIsSet, Alone, Running, Off
  <2> QED
    BY <2>2, <2>3, <2>4, <2>5 DEF OneFlow
<1>5. ASSUME Clean' PROVE GrantStays'
  <2>1. Alone /\ OneFlow /\ GrantStays
    BY <1>5 DEF SessionInv, SessionTyped, Clean, Alone
  <2> QED
    BY <1>5, <2>1 DEF SessionInv, SessionTypeOK, SessionTyped, FlowsInOrder, OneFlow, OneRuns, RefIsRight, LiveIsAlone, GrantStays, Clean, Alone, Reachable, Running, Off, Granted
<1> QED
  BY <1>1, <1>2, <1>3, <1>4, <1>5 DEF SessionInv

LEMMA DisconnectedKeeps ==
  ASSUME SessionInv, NEW f \in Flows, Disconnected(f)
  PROVE  SessionInv'
<1> USE DEF Disconnected, ClearTimers, Release, Severed, Reachable, ServerIdle
<1>1. SessionTypeOK' /\ SessionTyped'
  <2>1. releases' \in Nat
    <3>1. releases \in Nat /\ releases + 1 \in Nat
      BY ReleasesAreCounted
    <3> QED
      BY <3>1
  <2>2. lapsed' \in BOOLEAN /\ overtaken' \in BOOLEAN /\ crossed' \in BOOLEAN /\ holding' \in BOOLEAN /\ quit' \in BOOLEAN
    BY DEF SessionInv, SessionTypeOK, SessionTyped
  <2>3. flow' \in [Flows -> Places] /\ revived' \subseteq Flows
    BY DEF SessionInv, SessionTypeOK, SessionTyped, Off, Waiting, Places, Granted
  <2>4. stoppedAt' \in [Flows -> {"none", "asking", "importing", "entering"}]
    BY DEF SessionInv, SessionTypeOK, SessionTyped, Running, Off, Waiting, Places, Granted
  <2>5. /\ page' \in {"shown", "left", "closed"} /\ phase' \in {"off", "busy", "live"}
        /\ current' \in Flows \union {NoFlow} /\ slot' \in {"none", "queued", "held"}
        /\ beatRef' \in beats' \union {NoFlow} /\ beats' \union rooms' \union closing' \subseteq Flows
    BY DEF SessionInv, SessionTypeOK, SessionTyped, Reachable
  <2>6. page' = "closed" => rooms' = {} /\ closing' = {} /\ beats' = {} /\ \A g \in Flows : flow'[g] = "over"
    BY DEF SessionInv, SessionTypeOK, SessionTyped, Running, Off, Reachable
  <2> QED
    BY <2>1, <2>2, <2>3, <2>4, <2>5, <2>6 DEF SessionTypeOK, SessionTyped
<1>2. FlowsInOrder'
  BY DEF SessionInv, SessionTypeOK, SessionTyped, FlowsInOrder, Reachable, Running, Off
<1>3. StoppedGivesUp'
  BY DEF SessionInv, SessionTypeOK, SessionTyped, FlowsInOrder, StoppedGivesUp, Running, Off, Waiting
<1>4. ASSUME Alone' PROVE OneFlow' /\ Alone /\ OneFlow /\ \A g \in Flows \ {f} : ~Running(g)
  <2>1. Alone /\ OneFlow
    BY <1>4 DEF SessionInv, SessionTyped, Alone
  <2>2. \A g \in Flows \ {f} : ~Running(g) /\ g \notin rooms \ closing
    <3>1. CASE f \in closing
      BY <1>4, <3>1 DEF Alone
    <3>2. CASE f \notin closing
      BY <2>1, <3>2 DEF SessionInv, SessionTypeOK, FlowsInOrder, OneFlow, OneRuns, RefIsRight, LiveIsAlone, Reachable, Running, Off
    <3> QED
      BY <3>1, <3>2
  <2>3. \A g \in Flows : Running(g)' => g = f
    BY <2>2 DEF SessionInv, SessionTyped, Running, Off
  <2>4. \A g \in Flows : g \notin Reachable' \ closing'
    BY <2>2 DEF SessionInv, SessionTyped, SessionTypeOK, Running, Off
  <2>5. OneRuns' /\ RefIsRight' /\ LiveIsAlone'
    BY <2>3, <2>4 DEF SessionInv, SessionTypeOK, OneRuns, RefIsRight, LiveIsAlone, Reachable
  <2>6. QuitIsSet'
    BY <2>1 DEF SessionInv, SessionTyped, OneFlow, QuitIsSet, Running, Off
  <2> QED
    BY <2>1, <2>2, <2>5, <2>6 DEF OneFlow
<1>5. ASSUME Clean' PROVE GrantStays'
  <2>1. OneFlow' /\ \A g \in Flows \ {f} : ~Running(g)
    BY <1>4, <1>5 DEF Clean
  <2>2. \A g \in Flows : flow'[g] \notin Granted
    BY <2>1 DEF SessionInv, SessionTyped, FlowsInOrder, Running, Off, Granted
  <2> QED
    BY <2>1, <2>2 DEF GrantStays, OneFlow, RefIsRight
<1> QED
  BY <1>1, <1>2, <1>3, <1>4, <1>5 DEF SessionInv

LEMMA ServerKeeps ==
  ASSUME SessionInv, ReleaseArrives \/ Lapse
  PROVE  SessionInv'
<1> USE DEF ReleaseArrives, Lapse
<1>1. SessionTypeOK' /\ SessionTyped'
  <2>1. releases' \in Nat
    <3>1. releases \in Nat /\ releases + 1 \in Nat
      BY ReleasesAreCounted
    <3> QED
      BY <3>1
  <2>2. lapsed' \in BOOLEAN /\ overtaken' \in BOOLEAN /\ crossed' \in BOOLEAN /\ holding' \in BOOLEAN /\ quit' \in BOOLEAN
    BY DEF SessionInv, SessionTypeOK, SessionTyped
  <2>3. flow' \in [Flows -> Places] /\ revived' \subseteq Flows
    BY DEF SessionInv, SessionTypeOK, SessionTyped, Off, Waiting, Places, Granted
  <2>4. stoppedAt' \in [Flows -> {"none", "asking", "importing", "entering"}]
    BY DEF SessionInv, SessionTypeOK, SessionTyped, Running, Off, Waiting, Places, Granted
  <2>5. /\ page' \in {"shown", "left", "closed"} /\ phase' \in {"off", "busy", "live"}
        /\ current' \in Flows \union {NoFlow} /\ slot' \in {"none", "queued", "held"}
        /\ beatRef' \in beats' \union {NoFlow} /\ beats' \union rooms' \union closing' \subseteq Flows
    BY DEF SessionInv, SessionTypeOK, SessionTyped, Reachable
  <2>6. page' = "closed" => rooms' = {} /\ closing' = {} /\ beats' = {} /\ \A g \in Flows : flow'[g] = "over"
    BY DEF SessionInv, SessionTypeOK, SessionTyped, Running, Off, Reachable
  <2> QED
    BY <2>1, <2>2, <2>3, <2>4, <2>5, <2>6 DEF SessionTypeOK, SessionTyped
<1>2. FlowsInOrder'
  BY DEF SessionInv, SessionTypeOK, SessionTyped, FlowsInOrder, Reachable, Running, Off
<1>3. StoppedGivesUp'
  BY DEF SessionInv, SessionTypeOK, SessionTyped, FlowsInOrder, StoppedGivesUp, Running, Off, Waiting
<1>4. ASSUME Alone' PROVE OneFlow'
  <2>1. Alone /\ OneFlow
    BY <1>4 DEF SessionInv, SessionTyped, Alone
  <2>2. OneRuns'
    BY <1>4, <2>1 DEF SessionInv, SessionTypeOK, SessionTyped, OneFlow, OneRuns, Alone, Running, Off
  <2>3. RefIsRight'
    BY <1>4, <2>1 DEF SessionInv, SessionTypeOK, SessionTyped, FlowsInOrder, StoppedGivesUp, OneFlow, OneRuns, RefIsRight, LiveIsAlone, Alone, Reachable, Running, Off, Waiting, Granted
  <2>4. LiveIsAlone'
    BY <1>4, <2>1 DEF SessionInv, SessionTypeOK, SessionTyped, FlowsInOrder, OneFlow, OneRuns, RefIsRight, LiveIsAlone, Alone, Reachable, Running, Off
  <2>5. QuitIsSet'
    BY <1>4, <2>1 DEF SessionInv, SessionTypeOK, SessionTyped, FlowsInOrder, OneFlow, OneRuns, QuitIsSet, Alone, Running, Off
  <2> QED
    BY <2>2, <2>3, <2>4, <2>5 DEF OneFlow
<1>5. ASSUME Clean' PROVE GrantStays'
  <2>1. Alone /\ OneFlow /\ GrantStays
    BY <1>5 DEF SessionInv, SessionTyped, Clean, Alone
  <2>2. CASE ReleaseArrives
    <3>1. releases # 0
      BY <2>2
    <3> QED
      BY <2>1, <2>2, <3>1 DEF GrantStays
  <2>3. CASE Lapse
    <3>1. beats = {} /\ \A f \in Flows : flow[f] \notin Granted
      BY <1>5, <2>3 DEF Clean
    <3>2. \A f \in rooms \ closing : FALSE
      BY <2>1, <3>1 DEF SessionInv, SessionTypeOK, FlowsInOrder, OneFlow, LiveIsAlone, Granted
    <3> QED
      BY <2>3, <3>1, <3>2 DEF GrantStays
  <2> QED
    BY <2>2, <2>3
<1> QED
  BY <1>1, <1>2, <1>3, <1>4, <1>5 DEF SessionInv

LEMMA PageStandsStill ==
  ASSUME SessionInv, UNCHANGED sessionVars
  PROVE  SessionInv'
<1> USE DEF sessionVars
<1>1. SessionTypeOK' /\ SessionTyped'
  BY DEF SessionInv, SessionTypeOK, SessionTyped, Running, Off, Waiting, Places, Granted
<1>2. FlowsInOrder'
  BY DEF SessionInv, SessionTypeOK, SessionTyped, FlowsInOrder, Reachable, Running, Off
<1>3. StoppedGivesUp'
  BY DEF SessionInv, SessionTypeOK, SessionTyped, FlowsInOrder, StoppedGivesUp, Running, Off, Waiting
<1>4. ASSUME Alone' PROVE OneFlow'
  <2>1. Alone /\ OneFlow
    BY <1>4 DEF SessionInv, SessionTyped, Alone
  <2>2. OneRuns'
    BY <1>4, <2>1 DEF SessionInv, SessionTypeOK, SessionTyped, OneFlow, OneRuns, Alone, Running, Off
  <2>3. RefIsRight'
    BY <1>4, <2>1 DEF SessionInv, SessionTypeOK, SessionTyped, FlowsInOrder, StoppedGivesUp, OneFlow, OneRuns, RefIsRight, LiveIsAlone, Alone, Reachable, Running, Off, Waiting, Granted
  <2>4. LiveIsAlone'
    BY <1>4, <2>1 DEF SessionInv, SessionTypeOK, SessionTyped, FlowsInOrder, OneFlow, OneRuns, RefIsRight, LiveIsAlone, Alone, Reachable, Running, Off
  <2>5. QuitIsSet'
    BY <1>4, <2>1 DEF SessionInv, SessionTypeOK, SessionTyped, FlowsInOrder, OneFlow, OneRuns, QuitIsSet, Alone, Running, Off
  <2> QED
    BY <2>2, <2>3, <2>4, <2>5 DEF OneFlow
<1>5. ASSUME Clean' PROVE GrantStays'
  <2>1. Alone /\ OneFlow /\ GrantStays
    BY <1>5 DEF SessionInv, SessionTyped, Clean, Alone
  <2> QED
    BY <1>5, <2>1 DEF SessionInv, SessionTypeOK, SessionTyped, FlowsInOrder, OneFlow, OneRuns, RefIsRight, LiveIsAlone, GrantStays, Clean, Alone, Reachable, Running, Off, Granted
<1> QED
  BY <1>1, <1>2, <1>3, <1>4, <1>5 DEF SessionInv

LEMMA SessionStep == SessionInv /\ [SessionNext]_sessionVars => SessionInv'
<1> QED
  BY StartCallKeeps, AskForSlotKeeps, AskingFailsKeeps, AnsweredKeeps, PollAgainKeeps, ImportedKeeps, JoinKeeps, GoLiveKeeps, StartFailsKeeps, StopCallKeeps, LeaveKeeps, CloseTabKeeps, DisconnectedKeeps, ServerKeeps, PageStandsStill
     DEF SessionNext, FlowStep

\* Whatever tabs, calls of start and stop, releases and leases do, and however late
\* the handler of a closed room runs: who is live has the slot and was not stopped
\* before connect, but for the named races.
THEOREM SessionIsSafe == SessionSpec => []SessionSafe
<1> QED
  BY SessionStart, SessionStep, SessionInvIsSafe, PTL DEF SessionSpec

============================================================================

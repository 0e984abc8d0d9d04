------------------------------ MODULE ChatTurn ------------------------------
(***************************************************************************)
(* A turn of the text chat (chat and _run_tool in services/chat.py) as the *)
(* widget and the public API run it: rounds of the language model and of   *)
(* the tools it calls, all in one database session that is committed when  *)
(* the turn is over.  Tools swallow what they raise, so that a turn goes on   *)
(* after a failing statement.  Booking also writes to an outside           *)
(* calendar, which no rollback reaches (services/booking.py).              *)
(***************************************************************************)
EXTENDS Integers, FiniteSets

CONSTANTS
  Turns,      \* posts to a chat route
  Slots,      \* times that can be booked; the other tools come once each
  MaxRounds   \* MAX_TOOL_ROUNDS

ASSUME RoundsAssumption == MaxRounds \in Nat

TurnTools == Slots \union {"message", "lookup"}
NoTool == "none"

VARIABLES
  turn,      \* each turn and its session
  answer,    \* what each visitor got: none, reply, error
  turnRows,  \* committed rows: the turn, and its slot or message
  calendar,  \* appointments in the outside calendar
  cancelled, \* those whose status the dashboard set to cancelled
  broke      \* history: turns with a statement or a commit that failed

turnVars == <<turn, answer, turnRows, calendar, cancelled, broke>>

\* tx as in EventOutbox: Postgres turns the COMMIT of an aborted transaction
\* into a ROLLBACK, SQLAlchemy refuses to commit an inactive one.
NewTurn == [pc |-> "idle", round |-> 0, tx |-> "live", todo |-> {}, doing |-> NoTool,
            mine |-> {}, told |-> {}]

TurnInit ==
  /\ turn = [t \in Turns |-> NewTurn]
  /\ answer = [t \in Turns |-> "none"]
  /\ turnRows = {} /\ calendar = {} /\ cancelled = {} /\ broke = {}

AtStep(t, pc) == turn[t].pc = pc
Become(t, r) == turn' = [turn EXCEPT ![t] = r]

----------------------------------------------------------------------------
(* The loop of chat                                                        *)

Post(t) ==
  /\ AtStep(t, "idle")
  /\ Become(t, [NewTurn EXCEPT !.pc = "model"])
  /\ UNCHANGED <<answer, turnRows, calendar, cancelled, broke>>

NextRound_Same(n) == n
NextRound(n) == n + 1

\* The model asks for tools; the same ones again, if it likes.
CallTools(t, calls) ==
  /\ AtStep(t, "model") /\ turn[t].round < MaxRounds
  /\ Become(t, [turn[t] EXCEPT !.pc = "tools", !.round = NextRound(@), !.todo = calls])
  /\ UNCHANGED <<answer, turnRows, calendar, cancelled, broke>>

\* It answers, or has had its rounds and a fixed reply is given.
Conclude(t) ==
  /\ AtStep(t, "model")
  /\ Become(t, [turn[t] EXCEPT !.pc = "reply"])
  /\ UNCHANGED <<answer, turnRows, calendar, cancelled, broke>>

\* It fails, or the client hangs up: get_db rolls back.
TurnFails(t) ==
  /\ turn[t].pc \in {"model", "tools", "calendar", "insert"}
  /\ Become(t, [turn[t] EXCEPT !.pc = "failed", !.todo = {}, !.mine = {}])
  /\ answer' = [answer EXCEPT ![t] = "error"]
  /\ UNCHANGED <<turnRows, calendar, cancelled, broke>>

----------------------------------------------------------------------------
(* _run_tool, and booking.book under it                                    *)

\* The turn after one of its tools
After(r, tool) ==
  [r EXCEPT !.todo = @ \ {tool}, !.doing = NoTool,
            !.pc = IF r.todo = {tool} THEN "model" ELSE "tools"]

\* TOOL_ERROR; the session is left as it is.
ToolError(t, tool) ==
  /\ Become(t, After(turn[t], tool))
  /\ UNCHANGED <<answer, turnRows, calendar, cancelled, broke>>

Written(r, tool) == [r EXCEPT !.mine = @ \union {tool}, !.told = @ \union {tool}]
QueryFailed(r) == [r EXCEPT !.tx = "aborted", !.mine = {}]
FlushFailed(r) == [r EXCEPT !.tx = "inactive", !.mine = {}]

StatementFails(t, tool, r) ==
  /\ Become(t, After(r, tool))
  /\ broke' = broke \union {t}
  /\ UNCHANGED <<answer, turnRows, calendar, cancelled>>

\* Bad arguments, a time in the past, an embedding that fails, an unknown tool;
\* and whatever is asked of a session that broke.
RefuseTool(t, tool) ==
  /\ AtStep(t, "tools") /\ tool \in turn[t].todo
  /\ ToolError(t, tool)

LookUp(t) ==
  /\ AtStep(t, "tools") /\ "lookup" \in turn[t].todo /\ turn[t].tx = "live"
  /\ \/ Become(t, After(turn[t], "lookup")) /\ UNCHANGED <<answer, turnRows, calendar, cancelled, broke>>
     \/ StatementFails(t, "lookup", QueryFailed(turn[t]))

TakeMessage(t) ==
  /\ AtStep(t, "tools") /\ "message" \in turn[t].todo /\ turn[t].tx = "live"
  /\ \/ /\ Become(t, After(Written(turn[t], "message"), "message"))
        /\ UNCHANGED <<answer, turnRows, calendar, cancelled, broke>>
     \/ StatementFails(t, "message", FlushFailed(turn[t]))

\* _existing sees what is committed and the turn's own rows.
SlotTaken(t, s) == s \in turn[t].mine \/ \E u \in Turns : <<u, s>> \in turnRows \ cancelled

CheckSlot(t, s) ==
  /\ AtStep(t, "tools") /\ s \in turn[t].todo \cap Slots /\ turn[t].tx = "live"
  /\ IF SlotTaken(t, s)
       THEN ToolError(t, s)
       ELSE /\ Become(t, [turn[t] EXCEPT !.pc = "calendar", !.doing = s])
            /\ UNCHANGED <<answer, turnRows, calendar, cancelled, broke>>

\* Cal.com confirms; or is not configured, refuses or times out, the last
\* possibly after it has confirmed.
AskCalendar(t) ==
  /\ AtStep(t, "calendar")
  /\ calendar' \in {calendar, calendar \union {<<t, turn[t].doing>>}}
  /\ Become(t, [turn[t] EXCEPT !.pc = "insert"])
  /\ UNCHANGED <<answer, turnRows, cancelled, broke>>

InsertBooking(t) ==
  LET s == turn[t].doing IN
    /\ AtStep(t, "insert")
    /\ \/ Become(t, After(Written(turn[t], s), s)) /\ UNCHANGED <<answer, turnRows, calendar, cancelled, broke>>
       \/ StatementFails(t, s, FlushFailed(turn[t]))

----------------------------------------------------------------------------
(* The end of the request: get_db commits before or after the answer has   *)
(* left, as the web framework's version has it.                            *)

AnswerFirst(t) ==
  /\ AtStep(t, "reply") /\ answer[t] = "none"
  /\ answer' = [answer EXCEPT ![t] = "reply"]
  /\ UNCHANGED <<turn, turnRows, calendar, cancelled, broke>>

AnswerIfNone(t, a) == answer' = IF answer[t] = "none" THEN [answer EXCEPT ![t] = a] ELSE answer

CommitTurn(t) ==
  /\ AtStep(t, "reply") /\ turn[t].tx # "inactive"
  /\ turnRows' = turnRows \union ({t} \X turn[t].mine)
  /\ Become(t, [turn[t] EXCEPT !.pc = "done", !.mine = {}])
  /\ AnswerIfNone(t, "reply")
  /\ UNCHANGED <<calendar, cancelled, broke>>

CommitFails(t) ==
  /\ AtStep(t, "reply")
  /\ Become(t, [turn[t] EXCEPT !.pc = "done", !.mine = {}])
  /\ broke' = broke \union {t}
  /\ AnswerIfNone(t, "error")
  /\ UNCHANGED <<turnRows, calendar, cancelled>>

\* The dashboard cancels a booking; the calendar is not told.
CancelBooking(row) ==
  /\ row \in turnRows \ cancelled /\ row[2] \in Slots
  /\ cancelled' = cancelled \union {row}
  /\ UNCHANGED <<turn, answer, turnRows, calendar, broke>>

TurnStep(t) ==
  \/ \E calls \in SUBSET TurnTools \ {{}} : CallTools(t, calls)
  \/ Conclude(t) \/ TurnFails(t)
  \/ \E tool \in TurnTools : RefuseTool(t, tool)
  \/ LookUp(t) \/ TakeMessage(t) \/ \E s \in Slots : CheckSlot(t, s)
  \/ AskCalendar(t) \/ InsertBooking(t)
  \/ AnswerFirst(t) \/ CommitTurn(t) \/ CommitFails(t)

TurnNext ==
  \/ \E t \in Turns : Post(t) \/ TurnStep(t)
  \/ \E row \in turnRows : CancelBooking(row)

\* The model and the calendar have timeouts.
TurnFairness == \A t \in Turns : WF_turnVars(TurnStep(t))

TurnSpec == TurnInit /\ [][TurnNext]_turnVars /\ TurnFairness

----------------------------------------------------------------------------
(* Properties                                                              *)

\* Types, and: a turn counts only its own rounds, and has uncommitted rows in
\* a live session only.
TurnTypeOK ==
  /\ answer \in [Turns -> {"none", "reply", "error"}]
  /\ turnRows \subseteq Turns \X TurnTools /\ calendar \subseteq Turns \X Slots
  /\ cancelled \subseteq turnRows /\ broke \subseteq Turns
  /\ \A t \in Turns :
       /\ turn[t].pc \in {"idle", "model", "tools", "calendar", "insert", "reply", "done", "failed"}
       /\ turn[t].round \in 0 .. MaxRounds
       /\ turn[t].tx \in {"live", "aborted", "inactive"}
       /\ turn[t].todo \subseteq TurnTools /\ turn[t].mine \subseteq turn[t].told
       /\ turn[t].mine # {} => turn[t].tx = "live"

\* What the tools said to the model (BOOKED, CAPTURED) before the visitor got a
\* reply is in the database after it, unless a statement of the same turn
\* or its commit failed.  A tool that is refused, for a time that is taken or a bad
\* argument, undoes nothing of what others of the turn have done.
PromisedIsStored ==
  \A t \in Turns :
    AtStep(t, "done") /\ answer[t] = "reply" => t \in broke \/ {t} \X turn[t].told \subseteq turnRows

\* The outside calendar has no appointment without a booking, but of turns
\* that are going on or failed later.
CalendarFollows ==
  \A t \in Turns, s \in Slots :
    <<t, s>> \in calendar =>
      \/ <<t, s>> \in turnRows
      \/ s \in turn[t].mine \union {turn[t].doing}
      \/ t \in broke \/ AtStep(t, "failed")

\* However the model insists on tools and the tools fail, the visitor is answered.
EveryTurnAnswered == \A t \in Turns : AtStep(t, "model") ~> answer[t] # "none"

\* A turn answers, and what it promised is in the database and the calendar.
TurnsKept == [](TurnTypeOK /\ PromisedIsStored /\ CalendarFollows) /\ EveryTurnAnswered

============================================================================

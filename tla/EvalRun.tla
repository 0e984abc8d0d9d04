------------------------------- MODULE EvalRun -------------------------------
(***************************************************************************)
(* The evaluation harness (eval/runner.py, eval/scorers.py): a suite of    *)
(* scenarios, each a conversation between a synthetic caller and the agent *)
(* with its real tools, then scored and counted.                           *)
(***************************************************************************)
EXTENDS Naturals, Sequences

CONSTANTS
  SuiteLength,  \* bound: scenarios of a suite
  MaxTurns,     \* MAX_TURNS, which is 8
  MaxCalls      \* bound: tool calls of one answer

ASSUME SuiteAssumption == SuiteLength \in Nat /\ MaxTurns \in Nat /\ MaxCalls \in Nat

VARIABLES
  evalAt,      \* what the runner does
  scenario,    \* how many scenarios were begun
  wanted,      \* the expected outcome of this one
  transcript,  \* what was said, and by whom
  calls,       \* the tools that were called, and whether name and phone were given
  empty,       \* a lookup returned nothing (knowledge_empty > 0)
  error,       \* an exception ended the conversation and had something to say
  todo,        \* tool calls of this answer still to run
  failures,    \* of the suite so far
  did          \* history: what each tool call came to

evalVars == <<evalAt, scenario, wanted, transcript, calls, empty, error, todo, failures, did>>

OutcomeTool ==
  [booked |-> "book_appointment", rescheduled |-> "reschedule", cancelled |-> "cancel",
   message_taken |-> "take_message", transferred |-> "transfer_to_human"]
Outcomes == DOMAIN OutcomeTool \union {"answered", "unmapped"}
NeedsContact == {"booked", "rescheduled", "message_taken"}

\* The tools that are offered (check_availability counts for no outcome) and the
\* two that outcomes name and nobody offers: a model may call them all the same.
Unoffered == {"reschedule", "cancel"}
EvalTools ==
  {"search_knowledge", "check_availability", "book_appointment", "take_message", "transfer_to_human"} \union Unoffered

\* The tools whose parameters hold a name and a phone, where they are known
Personal == {"book_appointment", "take_message"} \union Unoffered

EvalInit ==
  /\ evalAt = "start" /\ scenario = 0 /\ wanted = "answered"
  /\ transcript = << >> /\ calls = {} /\ empty = FALSE /\ error = FALSE
  /\ todo = 0 /\ failures = 0 /\ did = {}

\* One failure when the workspace was not seeded
OpenSuite ==
  /\ evalAt = "start"
  /\ \/ evalAt' = "next" /\ failures' = 0
     \/ evalAt' = "done" /\ failures' = 1
  /\ UNCHANGED <<scenario, wanted, transcript, calls, empty, error, todo, did>>

BeginScenario ==
  /\ evalAt = "next" /\ scenario < SuiteLength
  /\ evalAt' = "caller" /\ scenario' = scenario + 1 /\ wanted' \in Outcomes
  /\ UNCHANGED <<transcript, calls, empty, error, todo, failures, did>>

EndSuite ==
  /\ evalAt = "next" /\ scenario = SuiteLength
  /\ evalAt' = "done"
  /\ UNCHANGED <<scenario, wanted, transcript, calls, empty, error, todo, failures, did>>

----------------------------------------------------------------------------
(* run_scenario_text                                                       *)

Lines(role) == {i \in DOMAIN transcript : transcript[i].role = role}
Turns == IF transcript = << >> THEN 0 ELSE (Len(transcript) + 1) \div 2

Say(role, text) == transcript' = Append(transcript, [role |-> role, text |-> text])

\* The caller's next line; a goodbye is the last.
CallerSpeaks ==
  /\ evalAt = "caller" /\ Turns < MaxTurns
  /\ \E text \in {"line", "bye"} :
       /\ Say("user", text)
       /\ evalAt' = IF text = "bye" THEN "scoring" ELSE "agent"
  /\ UNCHANGED <<scenario, wanted, calls, empty, error, todo, failures, did>>

OutOfTurns ==
  /\ evalAt = "caller" /\ Turns = MaxTurns
  /\ evalAt' = "scoring"
  /\ UNCHANGED <<scenario, wanted, transcript, calls, empty, error, todo, failures, did>>

AgentSays ==
  /\ evalAt' = "caller"
  /\ \E text \in {"words", "price", ""} : Say("assistant", text)
  /\ UNCHANGED <<scenario, wanted, calls, empty, error, todo, failures, did>>

\* Either a line, or tool calls, whose text is dropped for that of the reply.
AgentAnswers == evalAt = "agent" /\ AgentSays

AgentCalls ==
  /\ evalAt = "agent"
  /\ evalAt' = "tools" /\ todo' \in 1..MaxCalls
  /\ UNCHANGED <<scenario, wanted, transcript, calls, empty, error, failures, did>>

AgentReplies == evalAt = "reply" /\ AgentSays

\* What a tool may come to.  A booking without a name or a phone raises, and a
\* transfer is an answer only.
Comes(tool, contact) ==
  CASE tool = "search_knowledge" -> {"done", "empty", "failed"}
    [] tool = "book_appointment" /\ ~contact -> {"failed"}
    [] tool = "transfer_to_human" -> {"done"}
    [] tool \in Unoffered -> {"unknown"}
    [] OTHER -> {"done", "failed"}

EmptyAfter_Last(o) == o = "empty"
EmptyAfter(o) == empty \/ o = "empty"

\* _dispatch: the call is recorded before it runs, and no tool raises.
Dispatch ==
  /\ evalAt = "tools"
  /\ \E tool \in EvalTools, contact \in BOOLEAN : \E o \in Comes(tool, contact) :
       /\ contact => tool \in Personal
       /\ calls' = calls \union {[tool |-> tool, contact |-> contact]}
       /\ empty' = EmptyAfter(o)
       /\ did' = did \union {<<tool, o>>}
  /\ todo' = todo - 1
  /\ evalAt' = IF todo = 1 THEN "reply" ELSE "tools"
  /\ UNCHANGED <<scenario, wanted, transcript, error, failures>>

\* The language model raises: the scenario is over, and scored.  What is kept of
\* the exception is its text, which may be empty.
ModelFails ==
  /\ evalAt \in {"agent", "reply"} \/ (evalAt = "caller" /\ Turns < MaxTurns)
  /\ evalAt' = "scoring" /\ error' \in BOOLEAN
  /\ UNCHANGED <<scenario, wanted, transcript, calls, empty, todo, failures, did>>

----------------------------------------------------------------------------
(* scorers.py, and the count of run_suite                                  *)

\* The lines are joined with blanks between them: two that are empty make a text.
Answered ==
  \E i \in Lines("assistant") : transcript[i].text # "" \/ \E j \in Lines("assistant") : j # i

\* A price that the joining makes of two lines is a line of its own here.
SaidPrice == \E i \in Lines("assistant") : transcript[i].text = "price"

TaskSuccess ==
  CASE wanted = "answered" -> Answered /\ ~error
    [] wanted = "unmapped" -> TRUE
    [] OTHER -> \E c \in calls : c.tool = OutcomeTool[wanted]

NoUnsupportedPrice == empty => ~SaidPrice

CapturedContact == wanted \in NeedsContact => \E c \in calls : c.contact

\* latency_ok compares the time of the whole conversation with the budget of one
\* answer, so whether it passes is open.  The next scenario has a RunResult of its
\* own.
Passes(slow) == TaskSuccess /\ NoUnsupportedPrice /\ CapturedContact /\ ~slow

Score(slow) ==
  /\ evalAt = "scoring" /\ evalAt' = "next"
  /\ failures' = IF Passes(slow) THEN failures ELSE failures + 1
  /\ transcript' = << >> /\ calls' = {} /\ empty' = FALSE /\ error' = FALSE /\ did' = {}
  /\ UNCHANGED <<scenario, wanted, todo>>

Conversation == CallerSpeaks \/ OutOfTurns \/ AgentAnswers \/ AgentCalls \/ Dispatch \/ AgentReplies \/ ModelFails

EvalNext == OpenSuite \/ BeginScenario \/ EndSuite \/ Conversation \/ \E slow \in BOOLEAN : Score(slow)

\* A suite that was started goes on, the language model answers it or fails.
EvalSpec == EvalInit /\ [][EvalNext]_evalVars /\ WF_evalVars(evalAt # "start" /\ EvalNext)

----------------------------------------------------------------------------
(* Properties                                                              *)

\* Types; the two speak in turn, at most MaxTurns times each, and nobody speaks
\* after a goodbye.
EvalTypeOK ==
  /\ evalAt \in {"start", "next", "caller", "agent", "tools", "reply", "scoring", "done"}
  /\ scenario \in 0..SuiteLength /\ wanted \in Outcomes /\ todo \in 0..MaxCalls
  /\ empty \in BOOLEAN /\ error \in BOOLEAN /\ failures <= scenario + 1
  /\ Len(transcript) <= 2 * MaxTurns
  /\ \A i \in DOMAIN transcript :
       /\ transcript[i].role = IF i % 2 = 1 THEN "user" ELSE "assistant"
       /\ transcript[i].text = "bye" => i = Len(transcript)

Came(tool, outcomes) == \E o \in outcomes : <<tool, o>> \in did

\* "If the knowledge base returned nothing, the agent must not state a price": in
\* a scenario that passes no price was said, before or after a lookup that came
\* back empty, however many others found something.  Where an answer was wanted,
\* no exception with a text ended it, and the agent said something or was silent
\* through two whole turns, which the scorer takes for an answer; where an outcome
\* was wanted, its tool was tried, and where that takes a name and a phone,
\* somebody's were given.
PassIsEarned ==
  evalAt = "scoring" /\ failures' = failures =>
    /\ Came("search_knowledge", {"empty"}) => ~SaidPrice
    /\ wanted = "answered" => ~error /\ (Len(transcript) > 3 \/ \E i \in Lines("assistant") : transcript[i].text # "")
    /\ wanted \in DOMAIN OutcomeTool => Came(OutcomeTool[wanted], {"done", "failed", "unknown"})
    /\ wanted \in NeedsContact => \E c \in calls : c.contact

\* A scenario in which what was wanted was done fails for its price or its time
\* alone, and a message for a missing name or phone.
DoneIsRecognised ==
  evalAt = "scoring" /\ wanted \in DOMAIN OutcomeTool /\ Came(OutcomeTool[wanted], {"done"})
    => \/ Passes(FALSE)
       \/ SaidPrice /\ Came("search_knowledge", {"empty"})
       \/ wanted = "message_taken" /\ \A c \in calls : ~c.contact

\* A failing model or tool ends its scenario at most: the suite goes on to its
\* end, and has gone through every scenario of a workspace that is there.
SuiteEnds ==
  evalAt # "start" ~> evalAt = "done" /\ (scenario = SuiteLength \/ (scenario = 0 /\ failures = 1))

\* What the evaluation reports is what happened.
EvalSound == [](EvalTypeOK /\ DoneIsRecognised) /\ [][PassIsEarned]_evalVars /\ SuiteEnds

============================================================================

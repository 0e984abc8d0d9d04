------------------------------- MODULE MCTalk -------------------------------
(***************************************************************************)
(* Who talks to a customer, side by side for TLC: the browser's hook of a  *)
(* voice call, a turn of the chat, and what the agent remembers of a       *)
(* WhatsApp customer.  They share no state, so a behaviour is one of any   *)
(* of them: part says of which.                                            *)
(***************************************************************************)
EXTENDS VoiceSession, ChatTurn, WhatsAppMemory

VARIABLE part

talkVars == <<part, sessionVars, turnVars, memoryVars>>

TalkInit == part \in {"voice", "chat", "memory"} /\ SessionInit /\ TurnInit /\ MemoryInit

InVoice(A) == part = "voice" /\ A /\ UNCHANGED <<part, turnVars, memoryVars>>
InChat(A) == part = "chat" /\ A /\ UNCHANGED <<part, sessionVars, memoryVars>>
InMemory(A) == part = "memory" /\ A /\ UNCHANGED <<part, sessionVars, turnVars>>

TalkNext == InVoice(SessionNext) \/ InChat(TurnNext) \/ InMemory(MemoryNext)

\* SessionFairness and TurnFairness
TalkFairness ==
  /\ \A f \in Flows : WF_talkVars(InVoice(FlowStep(f))) /\ WF_talkVars(InVoice(f \in closing /\ Disconnected(f)))
  /\ WF_talkVars(InVoice(ReleaseArrives)) /\ WF_talkVars(InVoice(beats = {} /\ Lapse))
  /\ \A t \in Turns : WF_talkVars(InChat(TurnStep(t)))

TalkSpec == TalkInit /\ [][TalkNext]_talkVars /\ TalkFairness

============================================================================

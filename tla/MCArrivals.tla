----------------------------- MODULE MCArrivals -----------------------------
(***************************************************************************)
(* What arrives at the same moment, side by side for TLC: calls for a      *)
(* voice slot, and messages of WhatsApp.  They share no state, so a        *)
(* behaviour is one of either: part says of which.                         *)
(***************************************************************************)
EXTENDS VoiceAccess, WhatsAppInbound, TLC

VARIABLE part

\* Requests are alike, and messages, and the tasks that handle them; tenants
\* are not, Redis orders them.
Symmetry == Permutations(Reqs) \union Permutations(Messages) \union Permutations(Handlers)

ArrivalsInit == part \in {"voice", "messages"} /\ Init /\ InboundInit

ArrivalsNext ==
  /\ UNCHANGED part
  /\ \/ part = "voice" /\ Next /\ UNCHANGED inboundVars
     \/ part = "messages" /\ InboundNext /\ UNCHANGED vars

ArrivalsSpec == ArrivalsInit /\ [][ArrivalsNext]_<<part, vars, inboundVars>>

============================================================================

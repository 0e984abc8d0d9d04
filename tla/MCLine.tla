------------------------------- MODULE MCLine -------------------------------
(***************************************************************************)
(* What surrounds a call, side by side for TLC: the callers who wait for a *)
(* slot, the agent's job of a call and the delays it measures, and the     *)
(* scripts that seed a workspace and evaluate its agent.  They share no    *)
(* state, so a behaviour is one of any of them: part says of which.        *)
(***************************************************************************)
EXTENDS CallLife, CallLatency, VoiceWaitlist, EvalRun, DemoSeed

VARIABLE part

endVars == <<part, callVars, latencyVars, lineVars, evalVars, seedVars>>

EndInit ==
  /\ part \in {"waiting", "talking", "measuring", "evaluating", "seeding"}
  /\ CallInit /\ LatencyInit /\ LineInit /\ EvalInit /\ SeedInit
  /\ part # "seeding" => \A p \in Parts : db[p] = 0

InCall(A) == part = "talking" /\ A /\ UNCHANGED <<part, latencyVars, lineVars, evalVars, seedVars>>
InLatency(A) == part = "measuring" /\ A /\ UNCHANGED <<part, callVars, lineVars, evalVars, seedVars>>
InLine(A) == part = "waiting" /\ A /\ UNCHANGED <<part, callVars, latencyVars, evalVars, seedVars>>
InEval(A) == part = "evaluating" /\ A /\ UNCHANGED <<part, callVars, latencyVars, lineVars, seedVars>>
InSeed(A) == part = "seeding" /\ A /\ UNCHANGED <<part, callVars, latencyVars, lineVars, evalVars>>

EndNext == InCall(CallNext) \/ InLatency(LatencyNext) \/ InLine(LineNext) \/ InEval(EvalNext) \/ InSeed(SeedNext)

\* CallFairness, LineFairness, SeedFairness and that of EvalRun, for the part that
\* goes on
EndFairness ==
  /\ WF_endVars(InCall(job # "idle" /\ Entrypoint)) /\ WF_endVars(InCall(Shutdown))
  /\ \A e \in Tools \union {"call"} : WF_endVars(InCall(Deliver(e)))
  /\ \A k \in Tenants :
       /\ WF_endVars(InLine(Poll(k))) /\ WF_endVars(InLine(Expire(k)))
       /\ SF_endVars(InLine(browser[k] = "live" /\ Stop(k)))
  /\ WF_endVars(InEval(evalAt # "start" /\ EvalNext))
  /\ \A r \in Seeders : WF_endVars(InSeed(Advance(r)))

EndSpec == EndInit /\ [][EndNext]_endVars /\ EndFairness

============================================================================

---------------------------- MODULE MCAgentLoop ----------------------------
(* The agent and the provider it asks: a completion begins and ends while the
   agent waits for it. *)
EXTENDS AgentLoop, AisdkProvider

AgentVars == <<loopVars, completion_vars>>
(* Bound: a stream is read by an agent of one iteration that runs once. *)
AgentInit == LoopInit /\ CompletionInit /\ (provider.is_codex_oauth => max_iterations <= 1)
Completes == at = "completing" /\ CompletionNext /\ UNCHANGED loopVars
(* An empty text is an answer; an error of the provider ends the run. *)
Continues ==
  /\ Loop
  /\ IF at = "completing"
     THEN /\ Taken
          /\ step = "failed" <=> (output'.kind = "error" /\ at' = "rest")
          /\ text = <<>> => at' # "acting"
     ELSE UNCHANGED completion_vars
Caller ==
  /\ Run \/ Reset
  /\ provider.is_codex_oauth => runs' <= 1
  /\ UNCHANGED completion_vars
AgentSpec == AgentInit /\ [][Caller \/ Completes \/ Continues]_AgentVars /\ WF_AgentVars(Completes \/ Continues)
=============================================================================

----------------------------- MODULE AgentLoop -----------------------------
(* The loop of an agent: ask the model, call the tool it asks for, tell it the
   result, until it answers or the iterations are used up
   (argos-agent/src/generic_agent.rs, GenericAgent).

   run holds the agent exclusively, so its steps are those between its awaits:
   the answer of the model and the return of the tool.  What the model says is
   reduced to what parse_response makes of it. *)
EXTENDS Integers, Sequences

CONSTANTS
  Tools,           \* the tools of the registry
  UnknownTools,    \* other names the model may ask for
  MaxIterations,   \* bound on the limits an agent is built with
  MaxRuns,         \* bound on the runs of one agent
  Resets           \* whether the caller resets the agent before it runs again

ASSUME ToolAssumption == Tools \cap UnknownTools = {}
ASSUME IterationAssumption == MaxIterations \in Nat
ASSUME RunAssumption == MaxRuns \in Nat /\ Resets \in BOOLEAN

VARIABLES
  state,             \* AgentState
  at,                \* where run is: "rest", "started", "completing", "acting"
  max_iterations,    \* the agent's limit
  iteration,
  tool_invocations,  \* the agent's trail
  tool,              \* the tool being called
  output,            \* what the last run returned
  called,            \* history: the tools called in this run
  completions,       \* history: the answers asked of the model in this run
  runs

loopVars == <<state, at, max_iterations, iteration, tool_invocations, tool, output, called, completions, runs>>

Names == Tools \cup UnknownTools
AgentState == {"Idle", "Observing", "Thinking", "Acting", "AwaitingTool", "Done", "Failed"}
Invocation == [tool : Tools, ok : BOOLEAN]
Output == [kind : {"none", "answer", "limit", "error"}, tool_invocations : Seq(Invocation)]

TypeOK ==
  /\ state \in AgentState
  /\ at \in {"rest", "started", "completing", "acting"}
  /\ max_iterations \in 0 .. MaxIterations
  /\ iteration \in Nat
  /\ tool_invocations \in Seq(Invocation)
  /\ tool \in Names \cup {"none"}
  /\ output \in Output
  /\ called \in Seq(Names)
  /\ completions \in Nat
  /\ runs \in 0 .. MaxRuns

LoopInit ==
  /\ state = "Idle" /\ at = "rest" /\ iteration = 0
  /\ max_iterations \in 0 .. MaxIterations
  /\ tool_invocations = <<>> /\ tool = "none"
  /\ output = [kind |-> "none", tool_invocations |-> <<>>]
  /\ called = <<>> /\ completions = 0 /\ runs = 0

(* run: the prompt is built; nothing of an earlier run is cleared. *)
Run ==
  /\ at = "rest" /\ runs < MaxRuns
  /\ Resets => state = "Idle"
  /\ at' = "started" /\ state' = "Observing" /\ iteration' = 0
  /\ runs' = runs + 1 /\ called' = <<>> /\ completions' = 0
  /\ UNCHANGED <<max_iterations, tool_invocations, tool, output>>

Return(final, kind, invocations) ==
  /\ at' = "rest" /\ state' = final
  /\ output' = [kind |-> kind, tool_invocations |-> invocations]

(* The first iteration, if there is one. *)
Think ==
  /\ at = "started" /\ iteration < max_iterations
  /\ at' = "completing" /\ state' = "Thinking" /\ completions' = 1
  /\ UNCHANGED <<max_iterations, iteration, tool_invocations, tool, output, called, runs>>

NoIterations ==
  /\ at = "started" /\ iteration >= max_iterations
  /\ Return("Failed", "error", <<>>)
  /\ UNCHANGED <<max_iterations, iteration, tool_invocations, tool, called, completions, runs>>

(* The provider's error leaves run at once, and the state as it is. *)
ProviderFails ==
  /\ at = "completing"
  /\ Return(state, "error", <<>>)
  /\ UNCHANGED <<max_iterations, iteration, tool_invocations, tool, called, completions, runs>>

Answer ==
  /\ at = "completing"
  /\ Return("Done", "answer", tool_invocations)
  /\ UNCHANGED <<max_iterations, iteration, tool_invocations, tool, called, completions, runs>>

CallTool(t) ==
  /\ at = "completing"
  /\ at' = "acting" /\ state' = "Acting"
  /\ tool' = t /\ called' = Append(called, t)
  /\ UNCHANGED <<max_iterations, iteration, tool_invocations, output, completions, runs>>

(* The trail after the tool has returned: only a registered tool enters it. *)
Recorded(ok) ==
  IF tool \in Tools THEN Append(tool_invocations, [tool |-> tool, ok |-> ok])
  ELSE tool_invocations

(* Defect: The limit is compared with the iterations done, not with this one counted. *)
ToolReturnsLate(ok) ==
  /\ at = "acting"
  /\ ok => tool \in Tools
  /\ tool_invocations' = Recorded(ok)
  /\ tool' = "none"
  /\ IF iteration >= max_iterations
     THEN /\ Return("Failed", "limit", tool_invocations')
          /\ UNCHANGED <<iteration, completions>>
     ELSE /\ at' = "completing" /\ state' = "Thinking"
          /\ iteration' = iteration + 1 /\ completions' = completions + 1
          /\ UNCHANGED output
  /\ UNCHANGED <<max_iterations, called, runs>>

(* The tool returns, the trail grows, and the loop goes on or stops at its
   limit; a tool that is not registered returns an error. *)
ToolReturns(ok) ==
  /\ at = "acting"
  /\ ok => tool \in Tools
  /\ tool_invocations' = Recorded(ok)
  /\ tool' = "none"
  /\ IF iteration + 1 >= max_iterations
     THEN /\ Return("Failed", "limit", tool_invocations')
          /\ UNCHANGED <<iteration, completions>>
     ELSE /\ at' = "completing" /\ state' = "Thinking"
          /\ iteration' = iteration + 1 /\ completions' = completions + 1
          /\ UNCHANGED output
  /\ UNCHANGED <<max_iterations, called, runs>>

(* Defect: A reset leaves the trail. *)
ResetStateOnly ==
  /\ at = "rest" /\ state # "Idle"
  /\ state' = "Idle"
  /\ UNCHANGED <<max_iterations, at, iteration, tool_invocations, tool, output,
                 called, completions, runs>>

Reset ==
  /\ at = "rest" /\ state # "Idle"
  /\ state' = "Idle" /\ tool_invocations' = <<>>
  /\ UNCHANGED <<max_iterations, at, iteration, tool, output, called, completions, runs>>

(* Defect: The error of a tool is awaited and never handed to the model. *)
LoopWithoutErrors ==
  \/ Think \/ NoIterations \/ ProviderFails \/ Answer
  \/ \E t \in Names : CallTool(t)
  \/ ToolReturns(TRUE)

Loop ==
  \/ Think \/ NoIterations \/ ProviderFails \/ Answer
  \/ \E t \in Names : CallTool(t)
  \/ \E ok \in BOOLEAN : ToolReturns(ok)

LoopNext == Run \/ Reset \/ Loop

(* The provider and the tools answer, well or badly, in the end. *)
LoopSpec == LoopInit /\ [][LoopNext]_loopVars /\ WF_loopVars(Loop)
-----------------------------------------------------------------------------
(* Properties. *)

(* The trail is what was called, in order, unknown tools left out. *)
Selects(trail, names) ==
  \E at_call \in [DOMAIN trail -> DOMAIN names] :
    /\ \A i, j \in DOMAIN trail : i < j => at_call[i] < at_call[j]
    /\ \A k \in DOMAIN names : names[k] \in Tools <=> \E i \in DOMAIN trail : at_call[i] = k
    /\ \A i \in DOMAIN trail : trail[i].tool = names[at_call[i]]

(* "Tool invocations performed during the run": what a run that answers or
   gives up reports is what it called, in order, unknown tools left out, and
   nothing of an earlier run. *)
TrailIsOfThisRun ==
    at = "rest" /\ output.kind \in {"answer", "limit"} => Selects(output.tool_invocations, called)

(* "If max_iterations reached -> Failed": neither the model nor the tools are
   asked more often than allowed, and a run gives up only after it has called
   as many tools as it was allowed to. *)
StopsAtTheLimit ==
  /\ completions <= max_iterations
  /\ Len(called) <= max_iterations
  /\ (at = "rest" /\ output.kind = "limit") =>
       (Len(called) = max_iterations /\ completions = max_iterations)

(* A run ends, whatever the model says. *)
RunEnds == at # "rest" ~> at = "rest"
=============================================================================

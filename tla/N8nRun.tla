------------------------------- MODULE N8nRun -------------------------------
(* Running n8n workflows from ArgOS: the REST client, the connector's health
   gate, the MCP adapter with its REST fallback and the runner's mirror
   (argos-n8n-connector/src/client.rs, rest.rs, connector.rs, runner.rs;
   argos-mcp/src/n8n_adapter.rs).

   A run is several requests: the definition is read for its webhook path, the
   path is posted to, and the executions are listed to learn which run that
   was.  n8n is the environment: other people edit, switch and start the same
   workflows between any two of the requests, and any answer may be lost. *)
EXTENDS Integers, Sequences, FiniteSets

CONSTANTS
  Workflows,
  Callers,      \* tasks of ArgOS that run workflows
  Paths,        \* webhook paths
  Definitions,  \* the definitions a workflow may be given: [nodes, mode]
  Beginnings,   \* the definitions the workflows may have at first
  MaxPolls,     \* max_retries of run_workflow (10 in the code)
  MaxProbes,    \* the connector's max_retries
  MaxCalls,     \* bound on the runs asked for
  MaxOthers,    \* bound on what others do: starts, edits and switches
  Endings,      \* the ways executions end here
  Fallback      \* whether the adapter has a REST client to fall back to

NoPath == "no path"       \* a webhook node whose parameters name none
NoParams == "no params"   \* a webhook node without parameters
Node == [type : {"webhook", "other", "untyped"}, path : Paths \cup {NoPath, NoParams},
         webhookId : Paths \cup {NoPath}]
Definition == [nodes : Seq(Node), mode : {"lastNode", "onReceived"}]

ASSUME DefinitionAssumption == Definitions \subseteq Definition /\ Definitions # {}
ASSUME BeginningAssumption == Beginnings \subseteq [Workflows -> Definitions]
ASSUME BoundAssumption ==
  /\ Endings \subseteq {"success", "canceled", "error"} /\ "success" \in Endings
  /\ MaxPolls \in Nat \ {0} /\ MaxProbes \in Nat /\ Fallback \in BOOLEAN
  /\ MaxCalls \in Nat /\ MaxOthers \in Nat

VARIABLES
  definition,  \* n8n: what each workflow is
  active,      \* n8n: the workflows whose triggers are live
  execs,       \* n8n: the executions, oldest first; an id is a position
  accepted,    \* n8n: triggers answered at once, not yet registered
  calls,       \* each caller's run_workflow
  mirror,      \* RunMirror: the runs recorded, by id
  asked,       \* the runs asked for so far; a call is named by its number
  others

vars == <<definition, active, execs, accepted, calls, mirror, asked, others>>

Others == -1   \* in the place of a call's number
RunStatus == {"Running", "Success", "Cancelled", "Failed"}

map_status(s) ==
  CASE s \in {"running", "waiting"} -> "Running"
    [] s = "success" -> "Success"
    [] s = "canceled" -> "Cancelled"
    [] OTHER -> "Failed"

(* The first webhook node with a path or an id; a node without a type, and a
   webhook without parameters, end the search with nothing. *)
extract_webhook_path(nodes) ==
  LET Stops(n) == \/ n.type = "untyped"
                  \/ n.type = "webhook" /\ (n.path # NoPath \/ n.webhookId # NoPath)
      first == {i \in DOMAIN nodes : Stops(nodes[i]) /\ \A j \in 1 .. i - 1 : ~Stops(nodes[j])}
      Named(n) == CASE n.type = "untyped" \/ n.path = NoParams -> NoPath
                    [] n.path = NoPath -> n.webhookId
                    [] OTHER -> n.path
  IN  IF first = {} THEN NoPath ELSE Named(nodes[CHOOSE i \in first : TRUE])

(* What n8n serves for a definition, and by whom a path is served. *)
Served(d) == {IF n.path = NoPath THEN n.webhookId ELSE n.path :
                n \in {m \in {d.nodes[i] : i \in DOMAIN d.nodes} : m.type = "webhook"}} \cap Paths
Serving(p) == {w \in active : p \in Served(definition[w])}

(* The executions listed for w, the newest first: the first is what is taken. *)
Of(w) == {i \in DOMAIN execs : execs[i].wf = w}
Newest(S) == CHOOSE i \in S : \A j \in S : j <= i

(* Defect: The list is read from its end. *)
parse_latest_execution_last(w) ==
  IF Of(w) = {} THEN 0 ELSE CHOOSE i \in Of(w) : \A j \in Of(w) : i <= j

parse_latest_execution(w) == IF Of(w) = {} THEN 0 ELSE Newest(Of(w))

-----------------------------------------------------------------------------
(* A call: where it is, what it asked for, and what it knows.  exec is
   the execution it waits for, if it does. *)
NoCall == [pc |-> "idle", via |-> "runner", wf |-> "none", path |-> NoPath, tries |-> 0, exec |-> 0,
           fell |-> FALSE, n |-> 0,
           id |-> 0, status |-> "none"]

Init ==
  /\ definition \in Beginnings /\ active = Workflows
  /\ execs = <<>> /\ accepted = <<>>
  /\ calls = [c \in Callers |-> NoCall]
  /\ mirror = <<>> /\ asked = 0 /\ others = 0

n8n == <<definition, active, execs, accepted>>
AtRest == {"idle", "done", "failed"}
At(c, pc) == calls[c].pc = pc
Go(c, pc) == calls' = [calls EXCEPT ![c].pc = pc]

(* run_workflow returns an error; the runner records nothing. *)
Fails(c) ==
  /\ calls' = [calls EXCEPT ![c] = [@ EXCEPT !.pc = "failed", !.path = NoPath, !.tries = 0, !.exec = 0]]
  /\ UNCHANGED mirror

(* It returns a run, and a runner (not the connector) mirrors it under its id.  Id 0 is
   the name "unknown" of a run whose answer carried none. *)
Returns(c, id, status) ==
  /\ calls' = [calls EXCEPT ![c] = [@ EXCEPT !.pc = "done", !.path = NoPath, !.tries = 0,
                                           !.id = id, !.status = status]]
  /\ mirror' = IF calls[c].via = "connector" THEN mirror
               ELSE [i \in DOMAIN mirror \cup {id} |->
                       IF i = id THEN [wf |-> calls[c].wf, status |-> status, rest |-> ~At(c, "tool")]
                       ELSE mirror[i]]

RunWorkflow(c, w, via) ==
  /\ calls[c].pc \in AtRest /\ asked < MaxCalls
  /\ calls' = [calls EXCEPT ![c] = [NoCall EXCEPT !.wf = w, !.via = via, !.n = asked + 1,
       !.pc = CASE via = "connector" -> "probe" [] via = "adapter" -> "tool" [] OTHER -> "get"]]
  /\ asked' = asked + 1
  /\ UNCHANGED <<n8n, mirror, others>>

(* N8nConnector::connect: the health check, and up to MaxProbes more. *)
Probe(c) ==
  /\ At(c, "probe")
  /\ \/ Go(c, "get") /\ UNCHANGED mirror
     \/ calls[c].tries < MaxProbes /\ calls' = [calls EXCEPT ![c].tries = @ + 1] /\ UNCHANGED mirror
     \/ calls[c].tries = MaxProbes /\ Fails(c)
  /\ UNCHANGED <<n8n, asked, others>>

(* The workflow is read and its webhook looked for. *)
GetWorkflow(c) ==
  /\ At(c, "get")
  /\ \/ LET p == extract_webhook_path(definition[calls[c].wf].nodes)
        IN  IF p = NoPath THEN Fails(c)
            ELSE calls' = [calls EXCEPT ![c].pc = "post", ![c].path = p] /\ UNCHANGED mirror
     \/ Fails(c)
  /\ UNCHANGED <<n8n, asked, others>>

Started(w, by) == [wf |-> w, by |-> by, status |-> "running"]

(* The webhook is posted to.  n8n answers 404 when no active workflow serves
   the path; else it starts the execution and either answers at once
   (onReceived) or keeps the request until the last node has run. *)
PostWebhook(c) ==
  /\ At(c, "post")
  /\ \/ Fails(c) /\ UNCHANGED n8n
     \/ \E w \in Serving(calls[c].path) :
          \/ /\ definition[w].mode = "onReceived"
             /\ accepted' = Append(accepted, Started(w, calls[c].n))
             /\ (calls' = [calls EXCEPT ![c].pc = "poll", ![c].tries = 0] /\ UNCHANGED mirror) \/ Fails(c)
             /\ UNCHANGED <<definition, active, execs>>
          \/ /\ definition[w].mode = "lastNode"
             /\ execs' = Append(execs, Started(w, calls[c].n))
             /\ calls' = [calls EXCEPT ![c].pc = "blocked", ![c].exec = Len(execs) + 1]
             /\ UNCHANGED <<definition, active, accepted, mirror>>
  /\ UNCHANGED <<asked, others>>

(* The execution has ended, or the connection broke: no timeout is set. *)
WebhookAnswers(c) ==
  /\ At(c, "blocked")
  /\ \/ execs[calls[c].exec].status = "success" /\ Go(c, "query") /\ UNCHANGED mirror
     \/ Fails(c)
  /\ UNCHANGED <<n8n, asked, others>>

(* One look at the executions, to learn the id. *)
QueryOnce(c) ==
  /\ At(c, "query")
  /\ LET i == parse_latest_execution(calls[c].wf)
     IN  \/ i # 0 /\ Returns(c, i, map_status(execs[i].status))
         \/ Fails(c)
  /\ UNCHANGED <<n8n, asked, others>>

(* Defect: The answers that cannot be used are not counted. *)
PollUncounted(c) ==
  /\ At(c, "poll")
  /\ LET i == parse_latest_execution(calls[c].wf)
     IN  \/ i # 0 /\ Returns(c, i, map_status(execs[i].status))
         \/ UNCHANGED <<calls, mirror>>
  /\ UNCHANGED <<n8n, asked, others>>

(* Polling: an answer that cannot be used is passed over, up to MaxPolls. *)
Poll(c) ==
  /\ At(c, "poll")
  /\ LET i == parse_latest_execution(calls[c].wf)
     IN  \/ i # 0 /\ Returns(c, i, map_status(execs[i].status))
         \/ calls[c].tries + 1 < MaxPolls /\ calls' = [calls EXCEPT ![c].tries = @ + 1] /\ UNCHANGED mirror
         \/ calls[c].tries + 1 = MaxPolls /\ Fails(c)
  /\ UNCHANGED <<n8n, asked, others>>

(* Defect: An answer that cannot be parsed is retried over REST as well. *)
CallToolRetryingAll(c) ==
  LET Rest == calls' = [calls EXCEPT ![c].pc = "get"] /\ UNCHANGED mirror
  IN  /\ At(c, "tool")
      /\ \/ /\ execs' = Append(execs, Started(calls[c].wf, calls[c].n))
            /\ Returns(c, Len(execs) + 1, "Success") \/ Rest
         \/ UNCHANGED execs /\ Rest
      /\ UNCHANGED <<definition, active, accepted, asked, others>>

(* The MCP tool run_workflow.  Its server (external) may or may not have
   started the workflow whatever it answers, but an answer that names a run has.
   An answer that is an error, or none, sends the call over REST when there is
   a client for it; one that cannot be parsed ends it.  The run reported is a
   success, and "unknown" (0) when the answer has no id. *)
CallTool(c) ==
  LET Rest == IF Fallback
              THEN calls' = [calls EXCEPT ![c].pc = "get", ![c].fell = TRUE] /\ UNCHANGED mirror
              ELSE Fails(c)
  IN  /\ At(c, "tool")
      /\ \/ /\ execs' = Append(execs, Started(calls[c].wf, calls[c].n))
            /\ \/ \E id \in {0, Len(execs) + 1} : Returns(c, id, "Success")
               \/ Fails(c)
               \/ Rest
         \/ UNCHANGED execs /\ Rest
      /\ UNCHANGED <<definition, active, accepted, asked, others>>

Steps(c) == Probe(c) \/ GetWorkflow(c) \/ PostWebhook(c) \/ WebhookAnswers(c) \/ QueryOnce(c) \/ Poll(c) \/ CallTool(c)

-----------------------------------------------------------------------------
(* n8n and its other users. *)

(* A trigger answered at once is registered, or came to nothing. *)
Registers ==
  /\ accepted # <<>> /\ accepted' = Tail(accepted)
  /\ execs' = Append(execs, Head(accepted)) \/ UNCHANGED execs
  /\ UNCHANGED <<definition, active, calls, mirror, asked, others>>

Proceeds(i) ==
  /\ execs[i].status \in {"running", "waiting"}
  /\ \E s \in {"waiting"} \cup Endings : execs' = [execs EXCEPT ![i].status = s]
  /\ UNCHANGED <<definition, active, accepted, calls, mirror, asked, others>>

StartedByOthers(w) ==
  /\ w \in active /\ others < MaxOthers /\ others' = others + 1
  /\ execs' = Append(execs, Started(w, Others))
  /\ UNCHANGED <<definition, active, accepted, calls, mirror, asked>>

(* update_workflow, deactivate_workflow and activate_workflow, by another task
   or another user: each is one request, whose answer nothing depends on.  n8n
   refuses to activate two workflows on one path. *)
update_workflow(w, d) ==
  /\ others < MaxOthers /\ others' = others + 1
  /\ definition' = [definition EXCEPT ![w] = d]
  /\ active' = IF \E v \in active \ {w} : Served(d) \cap Served(definition[v]) # {} THEN active \ {w} ELSE active
  /\ UNCHANGED <<calls, execs, accepted, mirror, asked>>

activate_workflow(w) ==
  /\ w \notin active /\ others < MaxOthers /\ others' = others + 1
  /\ \A v \in active : Served(definition[w]) \cap Served(definition[v]) = {}
  /\ active' = active \cup {w}
  /\ UNCHANGED <<calls, definition, execs, accepted, mirror, asked>>

deactivate_workflow(w) ==
  /\ w \in active /\ others < MaxOthers /\ others' = others + 1
  /\ active' = active \ {w}
  /\ UNCHANGED <<calls, definition, execs, accepted, mirror, asked>>

Next ==
  \/ \E c \in Callers, w \in Workflows, via \in {"runner", "connector", "adapter"} : RunWorkflow(c, w, via)
  \/ \E c \in Callers : Steps(c)
  \/ Registers
  \/ \E i \in DOMAIN execs : Proceeds(i)
  \/ \E w \in Workflows : StartedByOthers(w) \/ activate_workflow(w) \/ deactivate_workflow(w)
  \/ \E w \in Workflows, d \in Definitions : update_workflow(w, d)

(* A task of ArgOS takes its next step; n8n runs what it started to an end. *)
Fairness ==
  /\ \A c \in Callers : WF_vars(Steps(c))
  /\ WF_vars(\E i \in DOMAIN execs : Proceeds(i))

Spec == Init /\ [][Next]_vars /\ Fairness

-----------------------------------------------------------------------------
(* A call starts one execution, and a second only when the MCP server answered
   with an error and REST was there to repeat it (run_workflow never retries). *)
RunsOncePerTransport ==
  \A c \in Callers :
    LET mine == {i \in DOMAIN execs : execs[i].by = calls[c].n} \cup
                {i + Len(execs) : i \in {j \in DOMAIN accepted : accepted[j].by = calls[c].n}}
    IN  Cardinality(mine) <= IF calls[c].fell THEN 2 ELSE 1

(* The run a call over REST reports, and the mirror keeps, is an execution of
   the workflow asked for; and when it is reported as ended it has ended so,
   whatever was listed first when the executions were looked at.  A call that
   waited for the last node of its workflow reports no older execution than the
   one it waited for. *)
Tells(id, wf, status) ==
  /\ id \in DOMAIN execs /\ execs[id].wf = wf
  /\ status # "Running" => status = map_status(execs[id].status)
ReportIsTrue ==
  /\ \A c \in Callers : At(c, "done") /\ (calls[c].via # "adapter" \/ calls[c].fell) =>
       /\ Tells(calls[c].id, calls[c].wf, calls[c].status)
       /\ LET own == calls[c].exec
          IN  own # 0 /\ execs[own].wf = calls[c].wf => calls[c].id >= own
  /\ \A i \in DOMAIN mirror : mirror[i].rest => Tells(i, mirror[i].wf, mirror[i].status)

(* Every call ends: the polls run out, and n8n answers for what it has run. *)
CallsEnd == \A c \in Callers : calls[c].pc \notin AtRest ~> calls[c].pc \in AtRest
=============================================================================

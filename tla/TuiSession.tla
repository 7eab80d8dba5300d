----------------------------- MODULE TuiSession -----------------------------
(***************************************************************************)
(* A conversation in the terminal user interface: prompts sent to the      *)
(* agent, the double-Escape cancellation, workflow runs, and the end of    *)
(* the session with its autosave (argos-tui/src/app.rs, handle_action and  *)
(* handle_async; argos-tui/src/runtime.rs, autosave_session).              *)
(*                                                                         *)
(* Every prompt and every workflow run is a request of its own.  The       *)
(* transcript keeps the entries a conversation is made of - the user's     *)
(* questions, the agent's answers, the cancellation notices - and leaves   *)
(* out the other notices.  Each answer is charged one unit of tokens.      *)
(* Popups only swallow keys, so a session that opens one is a session in   *)
(* which these keys were not pressed.                                      *)
(***************************************************************************)
EXTENDS TuiLoop, FiniteSets

CONSTANTS Prompts,           \* requests submit_prompt is called for
          Runs,              \* requests run_workflow is called for
          None               \* stands for "no prompt" and "no session file"

ASSUME SessionAssumption ==
    /\ Prompts \cap Runs = {}
    /\ None \notin Prompts

VARIABLES is_submitting_prompt, is_running_workflow,
          esc_last_press,    \* "none", "recent" (under 800 ms ago) or "old"
          composer_focused,  \* AppState.focus is FocusPane::Composer
          transcript, session_tokens,
          session_file,      \* what autosave_session wrote
          latest,            \* history: the prompt submitted last
          cancelled,         \* history: prompts reported as cancelled
          delivered          \* history: prompts whose answer was sent

Requests == Prompts \cup Runs

promptVars == <<is_submitting_prompt, esc_last_press, transcript,
                session_tokens, latest, cancelled>>
otherVars  == <<is_running_workflow, composer_focused, session_file, delivered>>
vars       == <<loopVars, promptVars, otherVars>>

Event == [req : Requests, ok : BOOLEAN]
Entry == [speaker : {"You", "ArgOS", "Cancelled"}, prompt : Prompts]
You(p)   == [speaker |-> "You", prompt |-> p]
ArgOS(p) == [speaker |-> "ArgOS", prompt |-> p]
Notice(p) == [speaker |-> "Cancelled", prompt |-> p]

(* startup_commands emits a snapshot load and a model fetch, which TuiConfig
   follows; no prompt and no run is in flight when the session starts. *)
Init ==
    /\ LoopInit({})
    /\ is_submitting_prompt = FALSE
    /\ is_running_workflow = FALSE
    /\ esc_last_press = "none"
    /\ composer_focused = TRUE
    /\ transcript = <<>>
    /\ session_tokens = 0
    /\ session_file = None
    /\ latest = None
    /\ cancelled = {}
    /\ delivered = {}

-----------------------------------------------------------------------------
(* Keys *)

(* Action::SubmitPrompt with plain text in the composer. *)
SubmitPrompt(p) ==
    /\ Key
    /\ ~is_submitting_prompt
    /\ Emit({p})
    /\ is_submitting_prompt' = TRUE
    /\ transcript' = Append(transcript, You(p))
    /\ latest' = p
    /\ UNCHANGED <<running, should_quit, exited, esc_last_press,
                   session_tokens, cancelled, otherVars>>

(* Action::SubmitPrompt with /clear in the composer. *)
ClearTranscript ==
    /\ Key
    /\ ~is_submitting_prompt
    /\ transcript' = <<>>
    /\ NoCommand
    /\ UNCHANGED <<running, should_quit, exited, is_submitting_prompt,
                   esc_last_press, session_tokens, latest, cancelled,
                   otherVars>>

(* Action::SubmitPrompt with /quit in the composer. *)
QuitCommand ==
    /\ Key
    /\ ~is_submitting_prompt
    /\ should_quit' = TRUE
    /\ NoCommand
    /\ UNCHANGED <<running, exited, promptVars, otherVars>>

(* Action::RunSelectedWorkflow with a workflow selected. *)
RunSelectedWorkflow(w) ==
    /\ Key
    /\ ~is_running_workflow
    /\ Emit({w})
    /\ is_running_workflow' = TRUE
    /\ UNCHANGED <<running, should_quit, exited, promptVars,
                   composer_focused, session_file, delivered>>

(* Action::Escape while a prompt is pending and Escape was pressed less than
   800 ms ago: the request is reported as cancelled; its task goes on. *)
CancelPrompt ==
    /\ Key
    /\ is_submitting_prompt
    /\ esc_last_press = "recent"
    /\ is_submitting_prompt' = FALSE
    /\ esc_last_press' = "none"
    /\ transcript' = Append(transcript, Notice(latest))
    /\ cancelled' = cancelled \cup {latest}
    /\ NoCommand
    /\ UNCHANGED <<running, should_quit, exited, session_tokens, latest,
                   otherVars>>

(* Action::Escape while a prompt is pending, for the first time. *)
ArmCancel ==
    /\ Key
    /\ is_submitting_prompt
    /\ esc_last_press # "recent"
    /\ esc_last_press' = "recent"
    /\ NoCommand
    /\ UNCHANGED <<running, should_quit, exited, is_submitting_prompt,
                   transcript, session_tokens, latest, cancelled, otherVars>>

(* 800 ms go by after a press of Escape. *)
EscWindowEnds ==
    /\ ~exited
    /\ esc_last_press = "recent"
    /\ esc_last_press' = "old"
    /\ UNCHANGED <<loopVars, is_submitting_prompt, transcript,
                   session_tokens, latest, cancelled, otherVars>>

(* Action::Escape with nothing pending leaves the composer. *)
LeaveComposer ==
    /\ Key
    /\ ~is_submitting_prompt
    /\ composer_focused
    /\ composer_focused' = FALSE
    /\ NoCommand
    /\ UNCHANGED <<running, should_quit, exited, promptVars,
                   is_running_workflow, session_file, delivered>>

(* Action::FocusPrev out of the composer, FocusNext or FocusPrev into it. *)
MoveFocus ==
    /\ Key
    /\ composer_focused' = ~composer_focused
    /\ NoCommand
    /\ UNCHANGED <<running, should_quit, exited, promptVars,
                   is_running_workflow, session_file, delivered>>

(* Action::Quit. *)
QuitKey ==
    /\ Key
    /\ ~composer_focused
    /\ should_quit' = TRUE
    /\ NoCommand
    /\ UNCHANGED <<running, exited, promptVars, otherVars>>

(* The input thread failed to read the terminal (AsyncEvent::InputError). *)
InputError ==
    /\ Key
    /\ should_quit' = TRUE
    /\ NoCommand
    /\ UNCHANGED <<running, exited, promptVars, otherVars>>

-----------------------------------------------------------------------------
(* Tasks *)

(* submit_prompt or run_workflow returns, with a result or an error. *)
TaskReturns(r) ==
    /\ \E ok \in BOOLEAN :
        /\ SendLast(r, [req |-> r, ok |-> ok])
        /\ delivered' = IF ok /\ r \in Prompts THEN delivered \cup {r}
                                              ELSE delivered
    /\ UNCHANGED <<promptVars, is_running_workflow, composer_focused,
                   session_file>>

-----------------------------------------------------------------------------
(* Events of tasks *)

(* A defect: a failed prompt leaves the flag up. *)
PromptCompletedStuck(p, ok) ==
    /\ Receive([req |-> p, ok |-> ok])
    /\ is_submitting_prompt' = (is_submitting_prompt /\ ~ok)
    /\ esc_last_press' = "none"
    /\ IF ok THEN /\ transcript' = Append(transcript, ArgOS(p))
                  /\ session_tokens' = session_tokens + 1
             ELSE UNCHANGED <<transcript, session_tokens>>
    /\ NoCommand
    /\ UNCHANGED <<running, should_quit, exited, latest, cancelled,
                   otherVars>>

(* AsyncEvent::PromptCompleted: whichever prompt it answers, no prompt is
   pending any more. *)
PromptCompleted(p, ok) ==
    /\ Receive([req |-> p, ok |-> ok])
    /\ is_submitting_prompt' = FALSE
    /\ esc_last_press' = "none"
    /\ IF ok THEN /\ transcript' = Append(transcript, ArgOS(p))
                  /\ session_tokens' = session_tokens + 1
             ELSE UNCHANGED <<transcript, session_tokens>>
    /\ NoCommand
    /\ UNCHANGED <<running, should_quit, exited, latest, cancelled,
                   otherVars>>

(* AsyncEvent::WorkflowCompleted. *)
WorkflowCompleted(w, ok) ==
    /\ Receive([req |-> w, ok |-> ok])
    /\ is_running_workflow' = FALSE
    /\ NoCommand
    /\ UNCHANGED <<running, should_quit, exited, promptVars,
                   composer_focused, session_file, delivered>>

-----------------------------------------------------------------------------
(* The loop *)

DispatchCommands ==
    /\ Dispatch
    /\ UNCHANGED <<promptVars, otherVars>>

(* A defect: the loop only ends on a batch without commands. *)
QuitWithoutCommands ==
    /\ outbox = {}
    /\ Leave
    /\ session_file' \in {None, [transcript |-> transcript,
                                 tokens |-> session_tokens]}
    /\ UNCHANGED <<promptVars, is_running_workflow, composer_focused,
                   delivered>>

(* The loop ends and autosave_session writes the session, unless the write
   fails, which is only reported. *)
Quit ==
    /\ Leave
    /\ session_file' \in {None, [transcript |-> transcript,
                                 tokens |-> session_tokens]}
    /\ UNCHANGED <<promptVars, is_running_workflow, composer_focused,
                   delivered>>

Keys ==
    \/ \E p \in Prompts : SubmitPrompt(p)
    \/ \E w \in Runs : RunSelectedWorkflow(w)
    \/ ClearTranscript
    \/ QuitCommand
    \/ CancelPrompt
    \/ ArmCancel
    \/ EscWindowEnds
    \/ LeaveComposer
    \/ MoveFocus
    \/ QuitKey
    \/ InputError

Events ==
    \/ \E p \in Prompts, ok \in BOOLEAN : PromptCompleted(p, ok)
    \/ \E w \in Runs, ok \in BOOLEAN : WorkflowCompleted(w, ok)

Next ==
    \/ Keys
    \/ Events
    \/ \E r \in Requests : TaskReturns(r)
    \/ DispatchCommands
    \/ Quit

Spec == Init /\ [][Next]_vars

(* The loop task is always polled again, and every call to a provider or to
   n8n is assumed to return: agent.run is bounded by max_iterations and the
   HTTP request it awaits by the network. *)
Fairness ==
    /\ WF_vars(Events)
    /\ WF_vars(DispatchCommands)
    /\ WF_vars(Quit)
    /\ \A r \in Requests : WF_vars(TaskReturns(r))

FairSpec == Spec /\ Fairness

-----------------------------------------------------------------------------
(* Properties *)

(* Every variable holds a value of its kind. *)
TypeOK ==
    /\ LoopTypeOK(Requests, Event)
    /\ is_submitting_prompt \in BOOLEAN
    /\ is_running_workflow \in BOOLEAN
    /\ esc_last_press \in {"none", "recent", "old"}
    /\ composer_focused \in BOOLEAN
    /\ transcript \in Seq(Entry)
    /\ session_tokens \in Nat
    /\ latest \in Prompts \cup {None}
    /\ cancelled \subseteq Prompts
    /\ delivered \subseteq Prompts

(* The busy flag of workflow runs tells the truth about tasks it never sees:
   while it is up exactly one run is queued, running or waiting to be
   reported, and while it is down none is, so n8n is never asked for a second
   run of the session before the first has been reported. *)
OneWorkflowInFlight ==
    /\ ~exited => (is_running_workflow <=> \E w \in Runs : InFlight(w))
    /\ \A v, w \in Runs : InFlight(v) /\ InFlight(w) => v = w

(* The composer is never locked for nothing: while prompts are refused as
   "already submitting", the prompt submitted last is still in flight, was not
   reported as cancelled, and its answer will lift the flag - whatever late
   answers of cancelled prompts arrive in between. *)
PendingPromptIsLatest ==
    is_submitting_prompt /\ ~exited =>
        latest \in Prompts \ cancelled /\ InFlight(latest)

(* A first press of Escape counts only for the prompt it was aimed at: it is
   remembered no longer than that prompt is pending, so a single press never
   cancels the next one. *)
EscapeAimsAtPendingPrompt ==
    esc_last_press # "none" => is_submitting_prompt

(* What the session shows as busy, locked or about to be cancelled is so. *)
BusyFlagsAreTrue ==
    OneWorkflowInFlight /\ PendingPromptIsLatest /\ EscapeAimsAtPendingPrompt

Has(t, entry) == \E i \in DOMAIN t : t[i] = entry

(* Without cancellations the conversation reads as one: the entry above an
   answer is its own question. *)
AnswersFollowTheirQuestion ==
    cancelled = {} =>
        \A i \in DOMAIN transcript : transcript[i].speaker = "ArgOS" =>
            i > 1 /\ transcript[i - 1] = You(transcript[i].prompt)

(* What the tasks delivered before the session ended is in the session file:
   each answer was charged exactly once, and the question of a delivered
   answer does not stand there without it - although the loop may learn of the
   quit long before it has looked at the rest of the channel. *)
DeliveredAnswersAreSaved ==
    session_file # None =>
        /\ session_file.tokens = Cardinality(delivered)
        /\ \A p \in delivered : Has(session_file.transcript, You(p)) =>
                Has(session_file.transcript, ArgOS(p))

(* What was asked and answered is told in order and kept. *)
TranscriptIsKept == AnswersFollowTheirQuestion /\ DeliveredAnswersAreSaved

(* No request is forgotten: each is dispatched, returns and is reported,
   unless the session ends first. *)
EveryRequestIsSettled ==
    \A r \in Requests : InFlight(r) ~> ~InFlight(r)

(* A session told to quit ends, whatever is still queued or running. *)
QuitEndsTheSession == should_quit ~> exited

(* Whatever is begun in a session comes to its end, and so does the session. *)
SessionSettles == EveryRequestIsSettled /\ QuitEndsTheSession

=============================================================================

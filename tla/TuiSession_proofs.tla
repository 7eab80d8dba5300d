-------------------------- MODULE TuiSession_proofs --------------------------
(***************************************************************************)
(* The type invariant and the safety invariants of TuiSession, for any     *)
(* number of prompts and workflow runs.  The invariant the proof rests on  *)
(* says where a request can be: a request in flight was issued, is in one  *)
(* place only - the outbox, a task or the channel - and has at most one    *)
(* event in the channel.                                                   *)
(***************************************************************************)
EXTENDS TuiSession, FiniteSetTheorems, TLAPS

(* No request has two events in the sequence. *)
Distinct(events) ==
    \A i, j \in DOMAIN events : events[i].req = events[j].req => i = j

OnePlace ==
    /\ outbox \cap running = {}
    /\ outbox \cap Waiting = {}
    /\ running \cap Waiting = {}
    /\ Waiting \subseteq issued
    /\ Distinct(channel)

Inv ==
    /\ TypeOK
    /\ OnePlace
    /\ cancelled \subseteq issued
    /\ OneWorkflowInFlight
    /\ PendingPromptIsLatest
    /\ EscapeAimsAtPendingPrompt

-----------------------------------------------------------------------------
(* What sending and taking an event does to the requests in the channel. *)
LEMMA AppendReqs ==
    ASSUME NEW E, NEW c \in Seq(E), NEW e \in E
    PROVE  Reqs(Append(c, e)) = Reqs(c) \cup {e.req}
<1>1. DOMAIN c = 1 .. Len(c) /\ DOMAIN Append(c, e) = 1 .. Len(c) + 1
      /\ Len(c) \in Nat
  OBVIOUS
<1>2. /\ \A i \in 1 .. Len(c) : Append(c, e)[i] = c[i]
      /\ Append(c, e)[Len(c) + 1] = e
  OBVIOUS
<1>3. Reqs(Append(c, e)) \subseteq Reqs(c) \cup {e.req}
  BY <1>1, <1>2 DEF Reqs
<1>4. Reqs(c) \subseteq Reqs(Append(c, e))
  BY <1>1, <1>2 DEF Reqs
<1>5. e.req \in Reqs(Append(c, e))
  BY <1>1, <1>2 DEF Reqs
<1> QED
  BY <1>3, <1>4, <1>5

LEMMA AppendDistinct ==
    ASSUME NEW E, NEW c \in Seq(E), NEW e \in E,
           Distinct(c), e.req \notin Reqs(c)
    PROVE  Distinct(Append(c, e))
<1>1. DOMAIN c = 1 .. Len(c) /\ DOMAIN Append(c, e) = 1 .. Len(c) + 1
      /\ Len(c) \in Nat
  OBVIOUS
<1>2. /\ \A i \in 1 .. Len(c) : Append(c, e)[i] = c[i]
      /\ Append(c, e)[Len(c) + 1] = e
  OBVIOUS
<1>3. \A i \in 1 .. Len(c) : c[i].req # e.req
  BY <1>1 DEF Reqs
<1> QED
  BY <1>1, <1>2, <1>3 DEF Distinct

LEMMA TailReqs ==
    ASSUME NEW E, NEW c \in Seq(E), c # <<>>
    PROVE  /\ Tail(c) \in Seq(E)
           /\ Reqs(c) = {Head(c).req} \cup Reqs(Tail(c))
           /\ Distinct(c) => /\ Distinct(Tail(c))
                             /\ Head(c).req \notin Reqs(Tail(c))
<1>1. /\ DOMAIN c = 1 .. Len(c) /\ DOMAIN Tail(c) = 1 .. Len(c) - 1
      /\ Len(c) \in Nat /\ Len(c) > 0
      /\ Tail(c) \in Seq(E)
  OBVIOUS
<1>2. /\ \A i \in 1 .. Len(c) - 1 : Tail(c)[i] = c[i + 1]
      /\ Head(c) = c[1]
  OBVIOUS
<1>3. Reqs(c) \subseteq {Head(c).req} \cup Reqs(Tail(c))
  <2> SUFFICES ASSUME NEW i \in 1 .. Len(c)
               PROVE  c[i].req \in {Head(c).req} \cup Reqs(Tail(c))
    BY <1>1 DEF Reqs
  <2>1. CASE i = 1
    BY <2>1, <1>2
  <2>2. CASE i # 1
    <3>1. i - 1 \in 1 .. Len(c) - 1 /\ Tail(c)[i - 1] = c[i]
      BY <2>2, <1>1, <1>2
    <3> QED
      BY <3>1, <1>1 DEF Reqs
  <2> QED
    BY <2>1, <2>2
<1>4. Reqs(Tail(c)) \subseteq Reqs(c)
  <2> SUFFICES ASSUME NEW i \in 1 .. Len(c) - 1
               PROVE  Tail(c)[i].req \in Reqs(c)
    BY <1>1 DEF Reqs
  <2>1. i + 1 \in 1 .. Len(c) /\ Tail(c)[i] = c[i + 1]
    BY <1>1, <1>2
  <2> QED
    BY <2>1, <1>1 DEF Reqs
<1>5. Head(c).req \in Reqs(c)
  BY <1>1, <1>2 DEF Reqs
<1>6. ASSUME Distinct(c)
      PROVE  Distinct(Tail(c)) /\ Head(c).req \notin Reqs(Tail(c))
  BY <1>1, <1>2, <1>6 DEF Distinct, Reqs
<1> QED
  BY <1>1, <1>3, <1>4, <1>5, <1>6

-----------------------------------------------------------------------------
(* What the steps of the loop do to the requests in flight. *)
LEMMA SameLoop ==
    ASSUME UNCHANGED <<issued, outbox, running, channel>>
    PROVE  /\ \A r : InFlight(r)' <=> InFlight(r)
           /\ OnePlace => OnePlace'
  BY DEF InFlight, OnePlace, Waiting, Reqs, Distinct

LEMMA EmitOne ==
    ASSUME NEW r, TypeOK, OnePlace, Emit({r}), UNCHANGED <<running, channel>>
    PROVE  /\ issued' = issued \cup {r}
           /\ outbox' \subseteq issued' /\ running' \subseteq issued'
           /\ OnePlace'
           /\ r \notin issued /\ ~InFlight(r)
           /\ \A q : InFlight(q)' <=> InFlight(q) \/ q = r
<1>1. /\ issued' = issued \cup {r} /\ outbox' = outbox \cup {r}
      /\ r \notin issued
  BY DEF Emit
<1>2. Waiting' = Waiting /\ (Distinct(channel) => Distinct(channel'))
  BY DEF Waiting, Reqs, Distinct
<1>3. outbox \subseteq issued /\ running \subseteq issued
  BY DEF TypeOK, LoopTypeOK
<1> QED
  BY <1>1, <1>2, <1>3 DEF OnePlace, InFlight

LEMMA ReceiveOne ==
    ASSUME NEW r \in Requests, NEW ok \in BOOLEAN, TypeOK, OnePlace,
           Receive([req |-> r, ok |-> ok]), UNCHANGED <<issued, outbox, running>>
    PROVE  /\ channel' \in Seq(Event)
           /\ OnePlace'
           /\ InFlight(r) /\ ~InFlight(r)'
           /\ \A q : q # r => (InFlight(q)' <=> InFlight(q))
<1>1. /\ channel \in Seq(Event) /\ channel # <<>> /\ channel' = Tail(channel)
      /\ Head(channel).req = r
  BY DEF Receive, TypeOK, LoopTypeOK
<1>2. /\ channel' \in Seq(Event)
      /\ Waiting = {r} \cup Waiting'
      /\ Distinct(channel') /\ r \notin Waiting'
  BY <1>1, TailReqs DEF Waiting, OnePlace
<1> QED
  BY <1>2 DEF OnePlace, InFlight

LEMMA SendOne ==
    ASSUME NEW r \in Requests, NEW ok \in BOOLEAN, TypeOK, OnePlace,
           SendLast(r, [req |-> r, ok |-> ok])
    PROVE  /\ channel' \in Seq(Event)
           /\ running' \subseteq issued
           /\ OnePlace'
           /\ \A q : InFlight(q)' <=> InFlight(q)
<1> DEFINE e == [req |-> r, ok |-> ok]
<1>1. /\ r \in running /\ running' = running \ {r}
      /\ channel' = Append(channel, e)
      /\ issued' = issued /\ outbox' = outbox
  BY DEF SendLast
<1>2. e \in Event /\ e.req = r /\ channel \in Seq(Event)
  BY DEF Event, TypeOK, LoopTypeOK
<1>3. r \notin Waiting /\ Distinct(channel) /\ running \subseteq issued
  BY <1>1 DEF OnePlace, TypeOK, LoopTypeOK
<1>4. channel' \in Seq(Event)
  BY <1>1, <1>2
<1>5. Waiting' = Waiting \cup {r}
  <2> HIDE DEF e
  <2> QED
    BY <1>1, <1>2, AppendReqs DEF Waiting
<1>6. Distinct(channel')
  <2> HIDE DEF e
  <2> QED
    BY <1>1, <1>2, <1>3, AppendDistinct DEF Waiting
<1> HIDE DEF e
<1> QED
  BY <1>1, <1>3, <1>4, <1>5, <1>6 DEF OnePlace, InFlight

(* In flight means issued. *)
LEMMA InFlightIssued ==
    ASSUME TypeOK, OnePlace, NEW r, InFlight(r)
    PROVE  r \in issued
  BY DEF TypeOK, LoopTypeOK, OnePlace, InFlight

-----------------------------------------------------------------------------
(* The invariant holds at the start. *)
LEMMA InitInv == Init => Inv
<1> SUFFICES ASSUME Init PROVE Inv
  OBVIOUS
<1>1. channel = <<>> /\ Waiting = {} /\ Distinct(channel)
  BY DEF Init, LoopInit, Waiting, Reqs, Distinct
<1>2. \A r : ~InFlight(r)
  BY <1>1 DEF InFlight, Init, LoopInit
<1>3. TypeOK
  <2>1. <<>> \in Seq(Entry) /\ <<>> \in Seq(Event)
    OBVIOUS
  <2> QED
    BY <2>1 DEF TypeOK, LoopTypeOK, Init, LoopInit
<1> QED
  BY <1>1, <1>2, <1>3 DEF Inv, Init, LoopInit, OnePlace, OneWorkflowInFlight,
     PendingPromptIsLatest, EscapeAimsAtPendingPrompt

-----------------------------------------------------------------------------
(* Keys that leave the workflow flag and the requests alone keep what is said
   of workflow runs. *)
LEMMA KeyKeepsRequests ==
    ASSUME Inv, UNCHANGED <<issued, outbox, running, channel>>,
           is_running_workflow' = is_running_workflow, exited' = exited
    PROVE  /\ OnePlace' /\ OneWorkflowInFlight'
           /\ \A r : InFlight(r)' <=> InFlight(r)
  BY SameLoop DEF Inv, OneWorkflowInFlight

LEMMA SubmitPromptInv ==
    ASSUME Inv, NEW p \in Prompts, SubmitPrompt(p)
    PROVE  Inv'
<1> USE DEF Inv
<1>1. /\ UNCHANGED <<running, channel, should_quit, exited, session_tokens,
                     esc_last_press, cancelled, is_running_workflow,
                     composer_focused, session_file, delivered>>
      /\ ~exited /\ Emit({p})
      /\ is_submitting_prompt' = TRUE /\ latest' = p
      /\ transcript' = Append(transcript, You(p))
  BY DEF SubmitPrompt, Key, otherVars
<1>2. /\ issued' = issued \cup {p}
      /\ outbox' \subseteq issued' /\ running' \subseteq issued'
      /\ OnePlace' /\ p \notin issued
      /\ \A q : InFlight(q)' <=> InFlight(q) \/ q = p
  BY <1>1, EmitOne
<1>3. TypeOK'
  <2>1. You(p) \in Entry
    BY DEF You, Entry
  <2>2. transcript' \in Seq(Entry)
    BY <1>1, <2>1 DEF TypeOK
  <2> QED
    BY <1>1, <1>2, <2>2 DEF TypeOK, LoopTypeOK, Requests
<1>4. p \notin Runs
  BY SessionAssumption
<1>5. OneWorkflowInFlight'
  BY <1>1, <1>2, <1>4 DEF OneWorkflowInFlight
<1> QED
  BY <1>1, <1>2, <1>3, <1>5
     DEF PendingPromptIsLatest, EscapeAimsAtPendingPrompt

LEMMA RunSelectedWorkflowInv ==
    ASSUME Inv, NEW w \in Runs, RunSelectedWorkflow(w)
    PROVE  Inv'
<1> USE DEF Inv
<1>1. /\ UNCHANGED <<running, channel, should_quit, exited, promptVars,
                     composer_focused, session_file, delivered>>
      /\ ~exited /\ Emit({w})
      /\ ~is_running_workflow /\ is_running_workflow' = TRUE
  BY DEF RunSelectedWorkflow, Key
<1>2. /\ issued' = issued \cup {w}
      /\ outbox' \subseteq issued' /\ running' \subseteq issued'
      /\ OnePlace'
      /\ \A q : InFlight(q)' <=> InFlight(q) \/ q = w
  BY <1>1, EmitOne
<1>3. TypeOK'
  BY <1>1, <1>2 DEF TypeOK, LoopTypeOK, promptVars, Requests
<1>4. OneWorkflowInFlight'
  BY <1>1, <1>2 DEF OneWorkflowInFlight
<1> QED
  BY <1>1, <1>2, <1>3, <1>4
     DEF promptVars, PendingPromptIsLatest, EscapeAimsAtPendingPrompt

(* A cancelled prompt was in flight, hence issued, and no later prompt is
   pending with it. *)
LEMMA CancelPromptInv ==
    ASSUME Inv, CancelPrompt
    PROVE  Inv'
<1> USE DEF Inv
<1>1. /\ UNCHANGED <<issued, outbox, running, channel, should_quit, exited,
                     session_tokens, latest, is_running_workflow,
                     composer_focused, session_file, delivered>>
      /\ ~exited /\ is_submitting_prompt
      /\ is_submitting_prompt' = FALSE /\ esc_last_press' = "none"
      /\ cancelled' = cancelled \cup {latest}
      /\ transcript' = Append(transcript, Notice(latest))
  BY DEF CancelPrompt, Key, NoCommand, otherVars
<1>2. latest \in Prompts /\ latest \in issued
  BY <1>1, InFlightIssued DEF PendingPromptIsLatest
<1>3. TypeOK'
  <2>1. Notice(latest) \in Entry
    BY <1>2 DEF Notice, Entry
  <2>2. transcript' \in Seq(Entry)
    BY <1>1, <2>1 DEF TypeOK
  <2> QED
    BY <1>1, <1>2, <2>2 DEF TypeOK, LoopTypeOK
<1>4. OnePlace' /\ OneWorkflowInFlight'
  BY <1>1, KeyKeepsRequests
<1> QED
  BY <1>1, <1>2, <1>3, <1>4
     DEF PendingPromptIsLatest, EscapeAimsAtPendingPrompt

(* The keys that neither send a prompt nor cancel one. *)
LEMMA OtherKeysInv ==
    ASSUME Inv,
           \/ ClearTranscript \/ QuitCommand \/ ArmCancel \/ EscWindowEnds
           \/ LeaveComposer \/ MoveFocus \/ QuitKey \/ InputError
    PROVE  Inv'
<1> USE DEF Inv
<1>1. /\ UNCHANGED <<issued, outbox, running, channel, exited, latest,
                     cancelled, is_submitting_prompt, session_tokens,
                     is_running_workflow, session_file, delivered>>
      /\ should_quit' \in BOOLEAN /\ composer_focused' \in BOOLEAN
      /\ transcript' \in {transcript, <<>>}
      /\ esc_last_press' \in {"none", "recent", "old"}
      /\ esc_last_press' # "none" => is_submitting_prompt'
  BY DEF TypeOK, LoopTypeOK, EscapeAimsAtPendingPrompt, ClearTranscript,
     QuitCommand, ArmCancel, EscWindowEnds, LeaveComposer, MoveFocus, QuitKey,
     InputError, Key, NoCommand, loopVars, promptVars, otherVars
<1>2. TypeOK'
  <2>1. <<>> \in Seq(Entry)
    OBVIOUS
  <2>2. transcript' \in Seq(Entry)
    BY <1>1, <2>1 DEF TypeOK
  <2> QED
    BY <1>1, <2>2 DEF TypeOK, LoopTypeOK
<1>3. /\ OnePlace' /\ OneWorkflowInFlight'
      /\ \A r : InFlight(r)' <=> InFlight(r)
  BY <1>1, KeyKeepsRequests
<1>4. PendingPromptIsLatest'
  BY <1>1, <1>3 DEF PendingPromptIsLatest
<1> QED
  BY <1>1, <1>2, <1>3, <1>4 DEF EscapeAimsAtPendingPrompt

-----------------------------------------------------------------------------
(* The steps of tasks, of their events and of the loop. *)
LEMMA TaskReturnsInv ==
    ASSUME Inv, NEW r \in Requests, TaskReturns(r)
    PROVE  Inv'
<1> USE DEF Inv
<1>1. PICK ok \in BOOLEAN :
        /\ SendLast(r, [req |-> r, ok |-> ok])
        /\ delivered' = IF ok /\ r \in Prompts THEN delivered \cup {r}
                                              ELSE delivered
  BY DEF TaskReturns
<1>2. /\ UNCHANGED <<promptVars, is_running_workflow, composer_focused,
                     session_file, issued, outbox, should_quit, exited>>
      /\ ~exited
  BY <1>1 DEF TaskReturns, SendLast
<1>3. /\ channel' \in Seq(Event) /\ running' \subseteq issued
      /\ OnePlace'
      /\ \A q : InFlight(q)' <=> InFlight(q)
  BY <1>1, SendOne
<1>4. TypeOK'
  BY <1>1, <1>2, <1>3 DEF TypeOK, LoopTypeOK, promptVars
<1> QED
  BY <1>2, <1>3, <1>4 DEF promptVars, OneWorkflowInFlight,
     PendingPromptIsLatest, EscapeAimsAtPendingPrompt

LEMMA PromptCompletedInv ==
    ASSUME Inv, NEW p \in Prompts, NEW ok \in BOOLEAN, PromptCompleted(p, ok)
    PROVE  Inv'
<1> USE DEF Inv
<1>1. /\ Receive([req |-> p, ok |-> ok])
      /\ UNCHANGED <<issued, outbox, running, should_quit, exited, latest,
                     cancelled, otherVars>>
      /\ is_submitting_prompt' = FALSE /\ esc_last_press' = "none"
      /\ transcript' \in {transcript, Append(transcript, ArgOS(p))}
      /\ session_tokens' \in {session_tokens, session_tokens + 1}
  BY DEF PromptCompleted, NoCommand
<1>2. /\ channel' \in Seq(Event) /\ OnePlace'
      /\ \A q : q # p => (InFlight(q)' <=> InFlight(q))
  BY <1>1, ReceiveOne DEF Requests
<1>3. TypeOK'
  <2>1. ArgOS(p) \in Entry
    BY DEF ArgOS, Entry
  <2>2. transcript' \in Seq(Entry)
    BY <1>1, <2>1 DEF TypeOK
  <2>3. session_tokens' \in Nat
    BY <1>1 DEF TypeOK
  <2>4. LoopTypeOK(Requests, Event)'
    BY <1>1, <1>2 DEF TypeOK, LoopTypeOK
  <2> QED
    BY <1>1, <2>2, <2>3, <2>4 DEF TypeOK, otherVars
<1>4. p \notin Runs
  BY SessionAssumption
<1>5. OneWorkflowInFlight'
  BY <1>1, <1>2, <1>4 DEF OneWorkflowInFlight, otherVars
<1> QED
  BY <1>1, <1>2, <1>3, <1>5
     DEF PendingPromptIsLatest, EscapeAimsAtPendingPrompt

LEMMA WorkflowCompletedInv ==
    ASSUME Inv, NEW w \in Runs, NEW ok \in BOOLEAN, WorkflowCompleted(w, ok)
    PROVE  Inv'
<1> USE DEF Inv
<1>1. /\ Receive([req |-> w, ok |-> ok]) /\ ~exited
      /\ UNCHANGED <<issued, outbox, running, should_quit, exited, promptVars,
                     composer_focused, session_file, delivered>>
      /\ is_running_workflow' = FALSE
  BY DEF WorkflowCompleted, Receive, NoCommand
<1>2. /\ channel' \in Seq(Event) /\ OnePlace'
      /\ InFlight(w) /\ ~InFlight(w)'
      /\ \A q : q # w => (InFlight(q)' <=> InFlight(q))
  BY <1>1, ReceiveOne DEF Requests
<1>3. TypeOK'
  BY <1>1, <1>2 DEF TypeOK, LoopTypeOK, promptVars
<1>4. OneWorkflowInFlight'
  BY <1>1, <1>2 DEF OneWorkflowInFlight
<1>5. PendingPromptIsLatest'
  <2>1. \A p \in Prompts : p # w
    BY SessionAssumption
  <2> QED
    BY <1>1, <1>2, <2>1 DEF PendingPromptIsLatest, promptVars
<1> QED
  BY <1>1, <1>2, <1>3, <1>4, <1>5 DEF promptVars, EscapeAimsAtPendingPrompt

LEMMA DispatchCommandsInv ==
    ASSUME Inv, DispatchCommands
    PROVE  Inv'
<1> USE DEF Inv
<1>1. /\ UNCHANGED <<issued, channel, should_quit, exited, promptVars,
                     otherVars>>
      /\ running' = running \cup outbox /\ outbox' = {}
  BY DEF DispatchCommands, Dispatch
<1>2. Waiting' = Waiting /\ (Distinct(channel) => Distinct(channel'))
  BY <1>1 DEF Waiting, Reqs, Distinct
<1>3. TypeOK'
  BY <1>1 DEF TypeOK, LoopTypeOK, promptVars, otherVars
<1>4. OnePlace' /\ \A q : InFlight(q)' <=> InFlight(q)
  BY <1>1, <1>2 DEF OnePlace, InFlight
<1> QED
  BY <1>1, <1>3, <1>4 DEF promptVars, otherVars, OneWorkflowInFlight,
     PendingPromptIsLatest, EscapeAimsAtPendingPrompt

(* Nothing is in flight once the loop has been left. *)
LEMMA QuitInv ==
    ASSUME Inv, Quit
    PROVE  Inv'
<1> USE DEF Inv
<1>1. /\ UNCHANGED <<issued, channel, should_quit, promptVars,
                     is_running_workflow, composer_focused, delivered>>
      /\ channel = <<>> /\ exited' = TRUE /\ outbox' = {} /\ running' = {}
  BY DEF Quit, Leave
<1>2. Waiting' = {} /\ Distinct(channel')
  BY <1>1 DEF Waiting, Reqs, Distinct
<1>3. TypeOK'
  BY <1>1 DEF TypeOK, LoopTypeOK, promptVars
<1>4. OnePlace' /\ \A q : ~InFlight(q)'
  BY <1>1, <1>2 DEF OnePlace, InFlight
<1> QED
  BY <1>1, <1>3, <1>4 DEF promptVars, OneWorkflowInFlight,
     PendingPromptIsLatest, EscapeAimsAtPendingPrompt

LEMMA NextInv == Inv /\ [Next]_vars => Inv'
<1> SUFFICES ASSUME Inv, [Next]_vars PROVE Inv'
  OBVIOUS
<1>1. CASE Keys
  BY <1>1, SubmitPromptInv, RunSelectedWorkflowInv, CancelPromptInv,
     OtherKeysInv DEF Keys
<1>2. CASE Events
  BY <1>2, PromptCompletedInv, WorkflowCompletedInv DEF Events
<1>3. CASE \E r \in Requests : TaskReturns(r)
  BY <1>3, TaskReturnsInv
<1>4. CASE DispatchCommands
  BY <1>4, DispatchCommandsInv
<1>5. CASE Quit
  BY <1>5, QuitInv
<1>6. CASE UNCHANGED vars
  <2>1. /\ UNCHANGED <<issued, outbox, running, channel, should_quit, exited,
                       promptVars, otherVars>>
    BY <1>6 DEF vars, loopVars
  <2>2. /\ OnePlace' /\ OneWorkflowInFlight'
        /\ \A r : InFlight(r)' <=> InFlight(r)
    BY <2>1, KeyKeepsRequests DEF otherVars
  <2>3. TypeOK'
    BY <2>1 DEF Inv, TypeOK, LoopTypeOK, promptVars, otherVars
  <2> QED
    BY <2>1, <2>2, <2>3 DEF Inv, promptVars, PendingPromptIsLatest,
       EscapeAimsAtPendingPrompt
<1> QED
  BY <1>1, <1>2, <1>3, <1>4, <1>5, <1>6 DEF Next

-----------------------------------------------------------------------------
(* The invariant of any session: what every request in flight is up to. *)
THEOREM Invariant == Spec => []Inv
  BY InitInv, NextInv, PTL DEF Spec

(* Every variable of the session keeps a value of its kind; in particular no
   cancellation is ever noted for a prompt that does not exist. *)
THEOREM TypeCorrect == Spec => []TypeOK
<1>1. Inv => TypeOK
  BY DEF Inv
<1> QED
  BY <1>1, Invariant, PTL

(* However many workflows are started, one at most is in flight and the busy
   flag says so; however many prompts are cancelled and answered late, prompts
   are refused only while the last one is in flight; and a first press of Escape
   is never left over for a later prompt (handle_action and handle_async in
   app.rs). *)
THEOREM BusyFlagsStayTrue == Spec => []BusyFlagsAreTrue
<1>1. Inv => BusyFlagsAreTrue
  BY DEF Inv, BusyFlagsAreTrue
<1> QED
  BY <1>1, Invariant, PTL

-----------------------------------------------------------------------------
(* The transcript and the session file.  While no prompt was cancelled, the   *)
(* prompt that is pending is the only one in flight, and its question is the  *)
(* last entry; and an answer that was delivered is either still in the        *)
(* channel, or was charged and, if its question is there, told.               *)
Answers(events) ==
    {events[i].req : i \in {j \in DOMAIN events : events[j].ok}}
Answering == Answers(channel) \cap Prompts

OnlyThePendingPrompt ==
    cancelled = {} =>
        \A p \in Prompts : InFlight(p) => is_submitting_prompt /\ p = latest

PendingQuestionIsLast ==
    cancelled = {} /\ is_submitting_prompt =>
        transcript # <<>> /\ transcript[Len(transcript)] = You(latest)

EachAnswerIsCharged ==
    /\ IsFiniteSet(delivered) /\ delivered \subseteq issued
    /\ delivered \cap (outbox \cup running) = {}
    /\ Answering \subseteq delivered
    /\ session_tokens = Cardinality(delivered \ Answering)

EachAnswerIsTold ==
    \A p \in delivered \ Answering :
        Has(transcript, You(p)) => Has(transcript, ArgOS(p))

SavedAtTheEnd == session_file # None => exited

KeptInv ==
    /\ OnlyThePendingPrompt
    /\ PendingQuestionIsLast
    /\ EachAnswerIsCharged
    /\ EachAnswerIsTold
    /\ SavedAtTheEnd
    /\ AnswersFollowTheirQuestion
    /\ DeliveredAnswersAreSaved

LEMMA AppendAnswers ==
    ASSUME NEW c \in Seq(Event), NEW e \in Event
    PROVE  Answers(Append(c, e)) = Answers(c) \cup (IF e.ok THEN {e.req} ELSE {})
<1>1. /\ DOMAIN c = 1 .. Len(c) /\ DOMAIN Append(c, e) = 1 .. Len(c) + 1
      /\ Len(c) \in Nat
  OBVIOUS
<1>2. /\ \A i \in 1 .. Len(c) : Append(c, e)[i] = c[i]
      /\ Append(c, e)[Len(c) + 1] = e
  OBVIOUS
<1>3. ASSUME NEW i \in 1 .. Len(c) + 1, Append(c, e)[i].ok
      PROVE  Append(c, e)[i].req \in Answers(c) \cup (IF e.ok THEN {e.req} ELSE {})
  <2>1. CASE i = Len(c) + 1
    BY <2>1, <1>2, <1>3
  <2>2. CASE i # Len(c) + 1
    <3>1. i \in 1 .. Len(c)
      BY <2>2, <1>1
    <3> QED
      BY <3>1, <1>1, <1>2, <1>3 DEF Answers
  <2> QED
    BY <2>1, <2>2
<1>4. Answers(c) \subseteq Answers(Append(c, e))
  BY <1>1, <1>2 DEF Answers
<1>5. e.ok => e.req \in Answers(Append(c, e))
  BY <1>1, <1>2 DEF Answers
<1>6. Answers(Append(c, e)) \subseteq Answers(c) \cup (IF e.ok THEN {e.req} ELSE {})
  BY <1>1, <1>3 DEF Answers
<1> QED
  BY <1>4, <1>5, <1>6

LEMMA TailAnswers ==
    ASSUME NEW c \in Seq(Event), c # <<>>, Distinct(c)
    PROVE  /\ Answers(c) = Answers(Tail(c)) \cup (IF Head(c).ok THEN {Head(c).req} ELSE {})
           /\ Head(c).req \notin Answers(Tail(c))
<1>1. /\ DOMAIN c = 1 .. Len(c) /\ DOMAIN Tail(c) = 1 .. Len(c) - 1
      /\ Len(c) \in Nat /\ Len(c) > 0
  OBVIOUS
<1>2. /\ \A i \in 1 .. Len(c) - 1 : Tail(c)[i] = c[i + 1]
      /\ Head(c) = c[1]
  OBVIOUS
<1>3. ASSUME NEW i \in 1 .. Len(c), c[i].ok
      PROVE  c[i].req \in Answers(Tail(c)) \cup (IF Head(c).ok THEN {Head(c).req} ELSE {})
  <2>1. CASE i = 1
    BY <2>1, <1>2, <1>3
  <2>2. CASE i # 1
    <3>1. i - 1 \in 1 .. Len(c) - 1 /\ Tail(c)[i - 1] = c[i]
      BY <2>2, <1>1, <1>2
    <3> QED
      BY <3>1, <1>1, <1>3 DEF Answers
  <2> QED
    BY <2>1, <2>2
<1>4. Answers(Tail(c)) \subseteq Answers(c)
  <2> SUFFICES ASSUME NEW i \in 1 .. Len(c) - 1, Tail(c)[i].ok
               PROVE  Tail(c)[i].req \in Answers(c)
    BY <1>1 DEF Answers
  <2>1. i + 1 \in 1 .. Len(c) /\ Tail(c)[i] = c[i + 1]
    BY <1>1, <1>2
  <2> QED
    BY <2>1, <1>1 DEF Answers
<1>5. Head(c).ok => Head(c).req \in Answers(c)
  BY <1>1, <1>2 DEF Answers
<1>6. Head(c).req \notin Reqs(Tail(c))
  BY TailReqs
<1>7. Answers(Tail(c)) \subseteq Reqs(Tail(c))
  BY DEF Answers, Reqs
<1>8. Answers(c) \subseteq Answers(Tail(c)) \cup (IF Head(c).ok THEN {Head(c).req} ELSE {})
  BY <1>1, <1>3 DEF Answers
<1> QED
  BY <1>4, <1>5, <1>6, <1>7, <1>8

LEMMA AppendEntry ==
    ASSUME NEW t \in Seq(Entry), NEW e \in Entry
    PROVE  /\ Append(t, e) # <<>> /\ Append(t, e)[Len(Append(t, e))] = e
           /\ \A x : Has(Append(t, e), x) <=> Has(t, x) \/ x = e
           /\ DOMAIN Append(t, e) = DOMAIN t \cup {Len(t) + 1}
           /\ Append(t, e)[Len(t) + 1] = e
           /\ \A i \in DOMAIN t : Append(t, e)[i] = t[i]
<1>1. /\ DOMAIN t = 1 .. Len(t) /\ DOMAIN Append(t, e) = 1 .. Len(t) + 1
      /\ Len(t) \in Nat /\ Len(Append(t, e)) = Len(t) + 1
  OBVIOUS
<1>2. /\ \A i \in 1 .. Len(t) : Append(t, e)[i] = t[i]
      /\ Append(t, e)[Len(t) + 1] = e
  OBVIOUS
<1>3. 1 .. Len(t) + 1 = (1 .. Len(t)) \cup {Len(t) + 1}
  BY <1>1
<1>4. \A x : Has(Append(t, e), x) <=> Has(t, x) \/ x = e
  BY <1>1, <1>2, <1>3 DEF Has
<1>5. Append(t, e) # <<>>
  <2>1. Len(Append(t, e)) # 0
    BY <1>1
  <2>2. Len(<<>>) = 0
    OBVIOUS
  <2> QED
    BY <2>1, <2>2
<1> QED
  BY <1>1, <1>2, <1>3, <1>4, <1>5

LEMMA KeptInitially == Init => KeptInv
<1> SUFFICES ASSUME Init PROVE KeptInv
  OBVIOUS
<1>1. /\ issued = {} /\ outbox = {} /\ running = {} /\ channel = <<>>
      /\ delivered = {} /\ transcript = <<>> /\ session_tokens = 0
      /\ is_submitting_prompt = FALSE /\ session_file = None
  BY DEF Init, LoopInit
<1>2. Waiting = {} /\ Answering = {}
  BY <1>1 DEF Waiting, Reqs, Answering, Answers
<1>3. IsFiniteSet({}) /\ Cardinality({}) = 0
  BY FS_EmptySet
<1>4. EachAnswerIsCharged /\ EachAnswerIsTold
  BY <1>1, <1>2, <1>3 DEF EachAnswerIsCharged, EachAnswerIsTold
<1>5. OnlyThePendingPrompt /\ PendingQuestionIsLast /\ SavedAtTheEnd
  BY <1>1, <1>2 DEF OnlyThePendingPrompt, PendingQuestionIsLast, SavedAtTheEnd,
     InFlight
<1>6. AnswersFollowTheirQuestion /\ DeliveredAnswersAreSaved
  BY <1>1 DEF AnswersFollowTheirQuestion, DeliveredAnswersAreSaved
<1> QED
  BY <1>4, <1>5, <1>6 DEF KeptInv

(* Steps that leave the requests alone, and the transcript or all of it. *)
LEMMA KeptStays ==
    ASSUME Inv, KeptInv,
           UNCHANGED <<issued, outbox, running, channel, exited, delivered,
                       session_tokens, latest, cancelled, session_file,
                       is_submitting_prompt>>,
           \/ transcript' = transcript
           \/ transcript' = <<>> /\ ~is_submitting_prompt
    PROVE  KeptInv'
<1>1. /\ \A r : InFlight(r)' <=> InFlight(r)
      /\ Answering' = Answering
  BY SameLoop DEF Answering, Answers, Inv
<1>2. OnlyThePendingPrompt' /\ EachAnswerIsCharged' /\ SavedAtTheEnd'
  BY <1>1 DEF KeptInv, OnlyThePendingPrompt, EachAnswerIsCharged, SavedAtTheEnd
<1>3. PendingQuestionIsLast'
  BY DEF KeptInv, PendingQuestionIsLast
<1>4. EachAnswerIsTold' /\ AnswersFollowTheirQuestion'
  <2>1. CASE transcript' = transcript
    BY <2>1, <1>1 DEF KeptInv, EachAnswerIsTold, AnswersFollowTheirQuestion
  <2>2. CASE transcript' = <<>>
    <3>1. DOMAIN transcript' = {}
      BY <2>2
    <3> QED
      BY <3>1 DEF EachAnswerIsTold, AnswersFollowTheirQuestion, Has
  <2> QED
    BY <2>1, <2>2
<1>5. DeliveredAnswersAreSaved'
  BY DEF KeptInv, DeliveredAnswersAreSaved
<1> QED
  BY <1>2, <1>3, <1>4, <1>5 DEF KeptInv

LEMMA SubmitPromptKept ==
    ASSUME Inv, KeptInv, NEW p \in Prompts, SubmitPrompt(p)
    PROVE  KeptInv'
<1>1. /\ UNCHANGED <<running, channel, session_tokens, cancelled, session_file, delivered, exited>>
      /\ ~exited /\ Emit({p}) /\ ~is_submitting_prompt
      /\ is_submitting_prompt' = TRUE /\ latest' = p
      /\ transcript' = Append(transcript, You(p))
  BY DEF SubmitPrompt, Key, otherVars
<1>2. /\ issued' = issued \cup {p} /\ outbox' = outbox \cup {p} /\ p \notin issued
      /\ \A q : InFlight(q)' <=> InFlight(q) \/ q = p
  BY <1>1, EmitOne DEF Inv, Emit
<1>3. You(p) \in Entry /\ transcript \in Seq(Entry) /\ channel \in Seq(Event)
  BY DEF You, Entry, Inv, TypeOK, LoopTypeOK
<1>4. Answering' = Answering
  BY <1>1 DEF Answering, Answers
<1>5. OnlyThePendingPrompt'
  BY <1>1, <1>2 DEF KeptInv, OnlyThePendingPrompt
<1>6. PendingQuestionIsLast'
  BY <1>1, <1>3, AppendEntry DEF PendingQuestionIsLast
<1>7. EachAnswerIsCharged'
  BY <1>1, <1>2, <1>4 DEF KeptInv, EachAnswerIsCharged
<1>8. EachAnswerIsTold'
  <2> SUFFICES ASSUME NEW q \in delivered \ Answering, Has(transcript', You(q))
               PROVE  Has(transcript', ArgOS(q))
    BY <1>1, <1>4 DEF EachAnswerIsTold
  <2>1. q # p
    BY <1>2 DEF KeptInv, EachAnswerIsCharged
  <2>2. Has(transcript, You(q))
    BY <2>1, <1>1, <1>3, AppendEntry DEF You
  <2> QED
    BY <2>2, <1>1, <1>3, AppendEntry DEF KeptInv, EachAnswerIsTold
<1>9. AnswersFollowTheirQuestion'
  <2> SUFFICES ASSUME cancelled = {}, NEW i \in DOMAIN transcript',
                      transcript'[i].speaker = "ArgOS"
               PROVE  i > 1 /\ transcript'[i - 1] = You(transcript'[i].prompt)
    BY <1>1 DEF AnswersFollowTheirQuestion
  <2>1. i \in DOMAIN transcript
    BY <1>1, <1>3, AppendEntry DEF You
  <2>2. i > 1 /\ transcript[i - 1] = You(transcript[i].prompt)
    BY <2>1, <1>1, <1>3, AppendEntry DEF KeptInv, AnswersFollowTheirQuestion
  <2>3. i - 1 \in DOMAIN transcript
    BY <2>1, <2>2, <1>3
  <2> QED
    BY <2>1, <2>2, <2>3, <1>1, <1>3, AppendEntry
<1>10. SavedAtTheEnd' /\ DeliveredAnswersAreSaved'
  BY <1>1 DEF KeptInv, SavedAtTheEnd, DeliveredAnswersAreSaved
<1> QED
  BY <1>5, <1>6, <1>7, <1>8, <1>9, <1>10 DEF KeptInv

LEMMA RunSelectedWorkflowKept ==
    ASSUME Inv, KeptInv, NEW w \in Runs, RunSelectedWorkflow(w)
    PROVE  KeptInv'
<1>1. /\ UNCHANGED <<running, channel, exited, is_submitting_prompt, transcript,
                     session_tokens, latest, cancelled, session_file, delivered>>
      /\ Emit({w})
  BY DEF RunSelectedWorkflow, Key, promptVars
<1>2. /\ issued' = issued \cup {w} /\ outbox' = outbox \cup {w} /\ w \notin issued
      /\ \A q : InFlight(q)' <=> InFlight(q) \/ q = w
  BY <1>1, EmitOne DEF Inv, Emit
<1>3. w \notin Prompts
  BY SessionAssumption
<1>4. Answering' = Answering
  BY <1>1 DEF Answering, Answers
<1>5. OnlyThePendingPrompt' /\ EachAnswerIsCharged'
  BY <1>1, <1>2, <1>3, <1>4 DEF KeptInv, OnlyThePendingPrompt, EachAnswerIsCharged
<1>6. PendingQuestionIsLast' /\ EachAnswerIsTold' /\ SavedAtTheEnd'
  BY <1>1, <1>4 DEF KeptInv, PendingQuestionIsLast, EachAnswerIsTold, SavedAtTheEnd
<1>7. AnswersFollowTheirQuestion' /\ DeliveredAnswersAreSaved'
  BY <1>1 DEF KeptInv, AnswersFollowTheirQuestion, DeliveredAnswersAreSaved
<1> QED
  BY <1>5, <1>6, <1>7 DEF KeptInv

LEMMA CancelPromptKept ==
    ASSUME Inv, KeptInv, CancelPrompt
    PROVE  KeptInv'
<1>1. /\ UNCHANGED <<issued, outbox, running, channel, exited, session_tokens,
                     session_file, delivered>>
      /\ cancelled' = cancelled \cup {latest}
      /\ transcript' = Append(transcript, Notice(latest))
      /\ ~exited /\ is_submitting_prompt
  BY DEF CancelPrompt, Key, NoCommand, otherVars
<1>2. latest \in Prompts /\ transcript \in Seq(Entry)
  BY <1>1 DEF Inv, PendingPromptIsLatest, TypeOK
<1>3. Notice(latest) \in Entry /\ Answering' = Answering /\ cancelled' # {}
  BY <1>1, <1>2 DEF Notice, Entry, Answering, Answers
<1>4. OnlyThePendingPrompt' /\ PendingQuestionIsLast' /\ AnswersFollowTheirQuestion'
  BY <1>3 DEF OnlyThePendingPrompt, PendingQuestionIsLast, AnswersFollowTheirQuestion
<1>5. EachAnswerIsCharged' /\ SavedAtTheEnd' /\ DeliveredAnswersAreSaved'
  BY <1>1, <1>3 DEF KeptInv, EachAnswerIsCharged, SavedAtTheEnd, DeliveredAnswersAreSaved
<1>6. EachAnswerIsTold'
  <2>1. \A q : You(q) # Notice(latest)
    BY DEF You, Notice
  <2> QED
    BY <2>1, <1>1, <1>2, <1>3, AppendEntry DEF KeptInv, EachAnswerIsTold
<1> QED
  BY <1>4, <1>5, <1>6 DEF KeptInv

(* A task that returns with an answer has not delivered it before. *)
LEMMA TaskReturnsKept ==
    ASSUME Inv, KeptInv, NEW r \in Requests, TaskReturns(r)
    PROVE  KeptInv'
<1>1. PICK ok \in BOOLEAN :
        /\ SendLast(r, [req |-> r, ok |-> ok])
        /\ delivered' = IF ok /\ r \in Prompts THEN delivered \cup {r}
                                              ELSE delivered
  BY DEF TaskReturns
<1>2. /\ UNCHANGED <<issued, outbox, exited, is_submitting_prompt, transcript,
                     session_tokens, latest, cancelled, session_file>>
      /\ ~exited /\ r \in running /\ running' = running \ {r}
  BY <1>1 DEF TaskReturns, SendLast, promptVars
<1>3. PICK e \in Event : e = [req |-> r, ok |-> ok] /\ e.req = r /\ e.ok = ok
  <2> DEFINE e == [req |-> r, ok |-> ok]
  <2>1. e \in Event
    BY DEF Event
  <2>2. e.req = r /\ e.ok = ok
    OBVIOUS
  <2> QED
    BY <2>1, <2>2
<1>4. channel' = Append(channel, e) /\ channel \in Seq(Event)
  BY <1>1, <1>3 DEF SendLast, Inv, TypeOK, LoopTypeOK
<1>5. \A q : InFlight(q)' <=> InFlight(q)
  BY <1>1, SendOne DEF Inv
<1>6. Answering' = IF ok /\ r \in Prompts THEN Answering \cup {r} ELSE Answering
  BY <1>3, <1>4, AppendAnswers DEF Answering
<1>7. r \notin delivered /\ r \in issued
  BY <1>2 DEF KeptInv, EachAnswerIsCharged, Inv, TypeOK, LoopTypeOK
<1>8. delivered' \ Answering' = delivered \ Answering
  BY <1>1, <1>6, <1>7
<1>9. EachAnswerIsCharged'
  <2>1. IsFiniteSet(delivered')
    BY <1>1, FS_AddElement DEF KeptInv, EachAnswerIsCharged
  <2>2. Answering' \subseteq delivered'
    BY <1>1, <1>6 DEF KeptInv, EachAnswerIsCharged
  <2>3. delivered' \subseteq issued' /\ delivered' \cap (outbox' \cup running') = {}
    <3>1. r \notin outbox
      BY <1>2 DEF Inv, OnePlace
    <3> QED
      BY <3>1, <1>1, <1>2, <1>7 DEF KeptInv, EachAnswerIsCharged
  <2> QED
    BY <2>1, <2>2, <2>3, <1>2, <1>8 DEF KeptInv, EachAnswerIsCharged
<1>10. OnlyThePendingPrompt' /\ PendingQuestionIsLast' /\ EachAnswerIsTold'
  BY <1>2, <1>5, <1>8 DEF KeptInv, OnlyThePendingPrompt, PendingQuestionIsLast, EachAnswerIsTold
<1>11. SavedAtTheEnd' /\ AnswersFollowTheirQuestion' /\ DeliveredAnswersAreSaved'
  BY <1>2 DEF KeptInv, SavedAtTheEnd, AnswersFollowTheirQuestion, DeliveredAnswersAreSaved
<1> QED
  BY <1>9, <1>10, <1>11 DEF KeptInv

LEMMA PromptCompletedKept ==
    ASSUME Inv, KeptInv, NEW p \in Prompts, NEW ok \in BOOLEAN, PromptCompleted(p, ok)
    PROVE  KeptInv'
<1>1. /\ Receive([req |-> p, ok |-> ok])
      /\ UNCHANGED <<issued, outbox, running, exited, latest, cancelled,
                     session_file, delivered>>
      /\ is_submitting_prompt' = FALSE
      /\ transcript' = IF ok THEN Append(transcript, ArgOS(p)) ELSE transcript
      /\ session_tokens' = IF ok THEN session_tokens + 1 ELSE session_tokens
  BY DEF PromptCompleted, NoCommand, otherVars
<1>2. /\ InFlight(p) /\ ~InFlight(p)' /\ ~exited
      /\ \A q : q # p => (InFlight(q)' <=> InFlight(q))
  BY <1>1, ReceiveOne DEF Inv, Requests, Receive
<1>3. /\ channel \in Seq(Event) /\ channel # <<>> /\ channel' = Tail(channel) /\ Distinct(channel)
      /\ Head(channel).req = p /\ Head(channel).ok = ok
  BY <1>1 DEF Receive, Inv, TypeOK, LoopTypeOK, OnePlace
<1>4. p \notin Answering' /\ Answering = Answering' \cup (IF ok THEN {p} ELSE {})
  BY <1>3, TailAnswers DEF Answering
<1>5. ArgOS(p) \in Entry /\ transcript \in Seq(Entry) /\ session_tokens \in Nat
  BY DEF ArgOS, Entry, Inv, TypeOK
<1>6. delivered' = delivered
  BY <1>1
<1>7. delivered \ Answering' = IF ok THEN (delivered \ Answering) \cup {p} ELSE delivered \ Answering
  BY <1>4 DEF KeptInv, EachAnswerIsCharged
<1>8. EachAnswerIsCharged'
  <2>1. session_tokens' = Cardinality(delivered \ Answering')
    <3>1. CASE ok
      <4>1. IsFiniteSet(delivered \ Answering) /\ p \notin delivered \ Answering
        BY <3>1, <1>4, FS_Subset DEF KeptInv, EachAnswerIsCharged
      <4>2. Cardinality((delivered \ Answering) \cup {p}) = Cardinality(delivered \ Answering) + 1
        BY <4>1, FS_AddElement
      <4> QED
        BY <3>1, <4>2, <1>1, <1>7 DEF KeptInv, EachAnswerIsCharged
    <3>2. CASE ~ok
      BY <3>2, <1>1, <1>7 DEF KeptInv, EachAnswerIsCharged
    <3> QED
      BY <3>1, <3>2
  <2>2. Answering' \subseteq delivered
    BY <1>4 DEF KeptInv, EachAnswerIsCharged
  <2> QED
    BY <2>1, <2>2, <1>1, <1>6 DEF KeptInv, EachAnswerIsCharged
<1>9. EachAnswerIsTold'
  <2>1. CASE ok
    <3>1. \A q : You(q) # ArgOS(p)
      BY DEF You, ArgOS
    <3>2. /\ \A q : Has(transcript', You(q)) => Has(transcript, You(q))
          /\ \A q : Has(transcript, ArgOS(q)) => Has(transcript', ArgOS(q))
          /\ Has(transcript', ArgOS(p))
      BY <3>1, <2>1, <1>1, <1>5, AppendEntry
    <3> QED
      BY <3>2, <2>1, <1>6, <1>7 DEF KeptInv, EachAnswerIsTold
  <2>2. CASE ~ok
    BY <2>2, <1>1, <1>6, <1>7 DEF KeptInv, EachAnswerIsTold
  <2> QED
    BY <2>1, <2>2
<1>10. OnlyThePendingPrompt'
  BY <1>1, <1>2 DEF KeptInv, OnlyThePendingPrompt
<1>11. PendingQuestionIsLast' /\ SavedAtTheEnd' /\ DeliveredAnswersAreSaved'
  BY <1>1 DEF KeptInv, PendingQuestionIsLast, SavedAtTheEnd, DeliveredAnswersAreSaved
<1>12. AnswersFollowTheirQuestion'
  <2> SUFFICES ASSUME cancelled = {}, NEW i \in DOMAIN transcript',
                      transcript'[i].speaker = "ArgOS"
               PROVE  i > 1 /\ transcript'[i - 1] = You(transcript'[i].prompt)
    BY <1>1 DEF AnswersFollowTheirQuestion
  <2>1. is_submitting_prompt /\ p = latest
    BY <1>2 DEF KeptInv, OnlyThePendingPrompt
  <2>2. transcript # <<>> /\ transcript[Len(transcript)] = You(p)
    BY <2>1 DEF KeptInv, PendingQuestionIsLast
  <2>3. ASSUME i \in DOMAIN transcript, transcript'[i] = transcript[i],
               \A j \in DOMAIN transcript : transcript'[j] = transcript[j]
        PROVE  i > 1 /\ transcript'[i - 1] = You(transcript'[i].prompt)
    <3>1. i > 1 /\ transcript[i - 1] = You(transcript[i].prompt)
      BY <2>3 DEF KeptInv, AnswersFollowTheirQuestion
    <3>2. i - 1 \in DOMAIN transcript
      BY <3>1, <2>3, <1>5
    <3> QED
      BY <3>1, <3>2, <2>3
  <2>4. CASE ~ok
    BY <2>3, <2>4, <1>1
  <2>5. CASE ok /\ i \in DOMAIN transcript
    BY <2>3, <2>5, <1>1, <1>5, AppendEntry
  <2>6. CASE ok /\ i \notin DOMAIN transcript
    <3>1. i = Len(transcript) + 1 /\ transcript'[i] = ArgOS(p)
      BY <2>6, <1>1, <1>5, AppendEntry
    <3>2. Len(transcript) \in Nat \ {0} /\ Len(transcript) \in DOMAIN transcript
      BY <2>2, <1>5
    <3>3. transcript'[Len(transcript)] = You(p)
      BY <3>2, <2>2, <2>6, <1>1, <1>5, AppendEntry
    <3>4. i > 1 /\ i - 1 = Len(transcript)
      BY <3>1, <3>2
    <3>5. transcript'[i].prompt = p
      BY <3>1 DEF ArgOS
    <3> QED
      BY <3>3, <3>4, <3>5
  <2> QED
    BY <2>4, <2>5, <2>6
<1> QED
  BY <1>8, <1>9, <1>10, <1>11, <1>12 DEF KeptInv

LEMMA WorkflowCompletedKept ==
    ASSUME Inv, KeptInv, NEW w \in Runs, NEW ok \in BOOLEAN, WorkflowCompleted(w, ok)
    PROVE  KeptInv'
<1>1. /\ Receive([req |-> w, ok |-> ok])
      /\ UNCHANGED <<issued, outbox, running, exited, is_submitting_prompt,
                     transcript, session_tokens, latest, cancelled,
                     session_file, delivered>>
  BY DEF WorkflowCompleted, NoCommand, promptVars
<1>2. w \notin Prompts
  BY SessionAssumption
<1>3. /\ ~InFlight(w)' /\ \A q : q # w => (InFlight(q)' <=> InFlight(q))
  BY <1>1, ReceiveOne DEF Inv, Requests
<1>4. /\ channel \in Seq(Event) /\ channel # <<>> /\ channel' = Tail(channel) /\ Distinct(channel)
      /\ Head(channel).req = w
  BY <1>1 DEF Receive, Inv, TypeOK, LoopTypeOK, OnePlace
<1>5. Answering' = Answering
  BY <1>2, <1>4, TailAnswers DEF Answering
<1>6. OnlyThePendingPrompt' /\ EachAnswerIsCharged'
  BY <1>1, <1>2, <1>3, <1>5 DEF KeptInv, OnlyThePendingPrompt, EachAnswerIsCharged
<1>7. PendingQuestionIsLast' /\ EachAnswerIsTold' /\ SavedAtTheEnd'
  BY <1>1, <1>5 DEF KeptInv, PendingQuestionIsLast, EachAnswerIsTold, SavedAtTheEnd
<1>8. AnswersFollowTheirQuestion' /\ DeliveredAnswersAreSaved'
  BY <1>1 DEF KeptInv, AnswersFollowTheirQuestion, DeliveredAnswersAreSaved
<1> QED
  BY <1>6, <1>7, <1>8 DEF KeptInv

LEMMA DispatchCommandsKept ==
    ASSUME Inv, KeptInv, DispatchCommands
    PROVE  KeptInv'
<1>1. /\ UNCHANGED <<issued, channel, exited, is_submitting_prompt, transcript,
                     session_tokens, latest, cancelled, session_file, delivered>>
      /\ running' = running \cup outbox /\ outbox' = {}
  BY DEF DispatchCommands, Dispatch, promptVars, otherVars
<1>2. (\A q : InFlight(q)' <=> InFlight(q)) /\ Answering' = Answering
  BY <1>1 DEF InFlight, Waiting, Reqs, Answering, Answers
<1>3. OnlyThePendingPrompt' /\ EachAnswerIsCharged'
  BY <1>1, <1>2 DEF KeptInv, OnlyThePendingPrompt, EachAnswerIsCharged
<1>4. PendingQuestionIsLast' /\ EachAnswerIsTold' /\ SavedAtTheEnd'
  BY <1>1, <1>2 DEF KeptInv, PendingQuestionIsLast, EachAnswerIsTold, SavedAtTheEnd
<1>5. AnswersFollowTheirQuestion' /\ DeliveredAnswersAreSaved'
  BY <1>1 DEF KeptInv, AnswersFollowTheirQuestion, DeliveredAnswersAreSaved
<1> QED
  BY <1>3, <1>4, <1>5 DEF KeptInv

(* The loop is left with an empty channel: every answer has been charged. *)
LEMMA QuitKept ==
    ASSUME Inv, KeptInv, Quit
    PROVE  KeptInv'
<1>1. /\ UNCHANGED <<issued, channel, is_submitting_prompt, transcript,
                     session_tokens, latest, cancelled, delivered>>
      /\ channel = <<>> /\ exited' = TRUE /\ outbox' = {} /\ running' = {}
      /\ session_file' \in {None, [transcript |-> transcript, tokens |-> session_tokens]}
  BY DEF Quit, Leave, promptVars
<1>2. (\A q : ~InFlight(q)') /\ Answering = {} /\ Answering' = {}
  BY <1>1 DEF InFlight, Waiting, Reqs, Answering, Answers
<1>3. OnlyThePendingPrompt' /\ PendingQuestionIsLast' /\ SavedAtTheEnd' /\ AnswersFollowTheirQuestion'
  BY <1>1, <1>2 DEF KeptInv, OnlyThePendingPrompt, PendingQuestionIsLast,
     SavedAtTheEnd, AnswersFollowTheirQuestion
<1>4. EachAnswerIsCharged' /\ EachAnswerIsTold'
  BY <1>1, <1>2 DEF KeptInv, EachAnswerIsCharged, EachAnswerIsTold
<1>5. DeliveredAnswersAreSaved'
  <2> SUFFICES ASSUME session_file' # None
               PROVE  /\ session_file'.tokens = Cardinality(delivered)
                      /\ \A p \in delivered : Has(session_file'.transcript, You(p)) =>
                                Has(session_file'.transcript, ArgOS(p))
    BY <1>1 DEF DeliveredAnswersAreSaved
  <2>1. session_file'.transcript = transcript /\ session_file'.tokens = session_tokens
    BY <1>1
  <2>2. delivered \ Answering = delivered
    BY <1>2
  <2> QED
    BY <2>1, <2>2 DEF KeptInv, EachAnswerIsCharged, EachAnswerIsTold
<1> QED
  BY <1>3, <1>4, <1>5 DEF KeptInv

LEMMA KeptNext == Inv /\ KeptInv /\ [Next]_vars => KeptInv'
<1> SUFFICES ASSUME Inv, KeptInv, [Next]_vars PROVE KeptInv'
  OBVIOUS
<1>1. ASSUME \/ ClearTranscript \/ QuitCommand \/ ArmCancel \/ EscWindowEnds
             \/ LeaveComposer \/ MoveFocus \/ QuitKey \/ InputError
      PROVE  KeptInv'
  <2>1. /\ UNCHANGED <<issued, outbox, running, channel, exited, delivered,
                       session_tokens, latest, cancelled, session_file,
                       is_submitting_prompt>>
        /\ \/ transcript' = transcript
           \/ transcript' = <<>> /\ ~is_submitting_prompt
    BY <1>1 DEF ClearTranscript, QuitCommand, ArmCancel, EscWindowEnds,
       LeaveComposer, MoveFocus, QuitKey, InputError, Key, NoCommand, loopVars,
       promptVars, otherVars
  <2> QED
    BY <2>1, KeptStays
<1>2. CASE Keys
  BY <1>1, <1>2, SubmitPromptKept, RunSelectedWorkflowKept, CancelPromptKept DEF Keys
<1>3. CASE Events
  BY <1>3, PromptCompletedKept, WorkflowCompletedKept DEF Events
<1>4. CASE \E r \in Requests : TaskReturns(r)
  BY <1>4, TaskReturnsKept
<1>5. CASE DispatchCommands
  BY <1>5, DispatchCommandsKept
<1>6. CASE Quit
  BY <1>6, QuitKept
<1>7. CASE UNCHANGED vars
  <2>1. /\ UNCHANGED <<issued, outbox, running, channel, exited, delivered,
                       session_tokens, latest, cancelled, session_file,
                       is_submitting_prompt, transcript>>
    BY <1>7 DEF vars, loopVars, promptVars, otherVars
  <2> QED
    BY <2>1, KeptStays
<1> QED
  BY <1>2, <1>3, <1>4, <1>5, <1>6, <1>7 DEF Next

(* Without cancellations every answer follows its own question, and the
   session file has every answer that was delivered, charged exactly once,
   although the loop learns of the quit before it has read the rest of the
   channel (handle_async in app.rs; run and autosave_session in runtime.rs). *)
THEOREM TranscriptStaysKept == Spec => []TranscriptIsKept
<1>1. KeptInv => TranscriptIsKept
  BY DEF KeptInv, TranscriptIsKept
<1> QED
  BY <1>1, KeptInitially, KeptNext, Invariant, PTL DEF Spec
=============================================================================

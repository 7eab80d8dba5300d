------------------------------ MODULE TuiShell ------------------------------
(* The keys of the terminal UI, as handle_action hands them out (argos-tui/src/
   app.rs): to the provider popup while it is open, else to the command palette,
   else to panes and composer; and, between any two keys, the answers of the
   tasks.  The snapshot's answer moves both halves at once. *)
EXTENDS TuiInput, TuiProviders

shellVars == <<inputVars, providerVars>>

Init == InputInit /\ ProvidersInit

PopupMoves == [MoveUp |-> "Up", ComposerMoveUp |-> "Up", MoveDown |-> "Down", ComposerMoveDown |-> "Down",
               FocusPrev |-> "Left", ComposerMoveLeft |-> "Left", FocusNext |-> "Right", ComposerMoveRight |-> "Right",
               Escape |-> "Escape"]
Submits == {"SubmitPrompt", "RunSelectedWorkflow"}

insert_add_provider_template ==
  /\ AddSelected /\ InsertTemplate(<<"/provider-add">>) /\ popup' = Hidden
  /\ UNCHANGED <<palette, current_config, dynamic_models, tasks, file, changes, unchecked>>
handle_popup_action(action) ==
  \/ action \in DOMAIN PopupMoves /\ PopupMove(PopupMoves[action]) /\ UNCHANGED inputVars
  \/ action \in Submits /\ insert_add_provider_template
  \/ action \in Submits /\ PopupSelect /\ UNCHANGED inputVars
  \/ action = "PopupDelete" /\ PopupDelete /\ UNCHANGED inputVars

(* A key. *)
handle_action(action, key) ==
  \/ popup.visible /\ handle_popup_action(action)
  \/ ~popup.visible /\ palette # Closed /\ handle_command_palette_action(action) /\ UNCHANGED providerVars
  \/ ~popup.visible /\ palette = Closed /\ handle_input(action, key) /\ UNCHANGED providerVars
  \/ ~popup.visible /\ palette = Closed /\ action = "ShowProviderPopup" /\ ShowProviderPopup /\ UNCHANGED inputVars
Key == \E key \in Keys : handle_action(map_key(key), key)

(* A command of the configuration, typed into an empty composer and submitted:
   what TuiInput does with its words, in one step. *)
Submitted == ~popup.visible /\ palette = Closed /\ focus = "Composer" /\ is_empty(composer) /\ Command /\ UNCHANGED inputVars

Answered ==
  \/ Answer /\ UNCHANGED inputVars
  \/ \E t \in tasks, n \in 0..MaxWorkflows : SnapshotLoaded(t) /\ WorkflowsLoaded(n)

Next == Key \/ Submitted \/ Answered
Spec == Init /\ [][Next]_shellVars
=============================================================================

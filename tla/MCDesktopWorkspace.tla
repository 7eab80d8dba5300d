------------------------- MODULE MCDesktopWorkspace -------------------------
(* Two files and a workflow; two presets, one of which needs no key.  The
   workspace and the provider form share no state: each is checked with the
   other at rest. *)
EXTENDS DesktopWorkspace, DesktopProvider, FiniteSets

DesktopVars == <<vars, provider_vars>>
DesktopInit == Init /\ ProviderInit
WorkspaceStep == Next /\ UNCHANGED provider_vars
ProviderStep == ProviderNext /\ UNCHANGED vars
DesktopSpec == DesktopInit /\ [][WorkspaceStep \/ ProviderStep]_DesktopVars

MCPresets == {"custom", "ollama"}
MCKeyless == {"ollama"}

(* Bounds: workspace and form apart; and of a test, a chat and a crash one. *)
Testing == test # Idle \/ form_test_result # ""
AtRest == workspace_loading /\ ~assistant_loading /\ tasks[1].step = "running"
Apart ==
  /\ presets_shown \/ crashes # 0 \/ config # NoFile => AtRest
  /\ Cardinality({i \in 1..3 : <<Testing, chat # NoChat, crashes # 0>>[i]}) <= 1
=============================================================================

----------------------------- MODULE MCTuiShell -----------------------------
(* Two symbols to type, one of which begins every command; three providers of
   which one lists OpenRouter's ids and one is not known; two tasks that panic.
   Terminal and keys share no state: each is checked with the other at rest. *)
EXTENDS TuiShell, TuiTerminal

MCTyped == {"/", "q"}
MCKnown == {"openrouter", "openai", "codex"}
MCBackends == MCKnown \cup {"local"}
MCModels == {"gpt", "vendor/gpt"}
MCOpenRouterIds == {"vendor/gpt"}
MCLists == {<<"gpt", "vendor/gpt">>}

(* Bounds: an edited text, a look around, and a configuration that changes are
   not followed any further when they come together; and no part of an inserted
   template is marked. *)
Editing == composer # clear
Browsing == workflows # 0 \/ hidden # {} \/ palette > 1 \/ focus \in {"Workflows", "Activity"}
Configuring ==
  changes # 0 \/ file # {} \/ tasks # {Load, Fetch([Blank EXCEPT !.backend = "openrouter", !.endpoint = TRUE])}
Apart ==
  /\ Cardinality({i \in 1..3 : <<Editing, Browsing, Configuring>>[i]}) <= 1
  /\ Len(Text) > MaxText => composer.anchor = NoAnchor

ScreenVars == <<shellVars, terminalVars>>
TerminalRests == main_at = "raw"
ShellRests ==
  /\ ~Editing /\ ~Browsing /\ changes = 0 /\ file = {} /\ current_config = {} /\ Cardinality(tasks) = 2
  /\ focus = "Composer" /\ palette = Closed /\ ~popup.visible /\ suggestions = {}
ScreenInit == Init /\ TerminalInit
ScreenNext ==
  \/ TerminalRests /\ Next /\ UNCHANGED terminalVars
  \/ ShellRests /\ TerminalNext /\ UNCHANGED shellVars
ScreenSpec == ScreenInit /\ [][ScreenNext]_ScreenVars /\ TerminalFairness
=============================================================================

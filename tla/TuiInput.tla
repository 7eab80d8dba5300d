------------------------------ MODULE TuiInput ------------------------------
(* What a key does in the terminal UI while the provider popup is closed
   (argos-tui/src/keymap.rs, app.rs handle_action, state.rs): the focus and the
   panes, the composer with its suggestions, the command palette and the
   selected workflow.  What a submitted command or prompt then does belongs to
   TuiSession, TuiConfig and TuiProviders; the transcript's scroll and the
   activity list's selection, which only drawing reads, are left out. *)
EXTENDS Composer, TuiCommands, FiniteSets

CONSTANTS
  Typed,          \* the words the user types
  MaxText,        \* bound: the length of a text that is typed into further
  MaxWorkflows    \* bound

ASSUME InputAssumption == MaxText \in Nat /\ MaxWorkflows \in Nat

VARIABLES
  focus, hidden,              \* hidden: the panes that are toggled off
  composer, suggestions,      \* suggestions: entries of COMMANDS
  palette,                    \* the entry that is selected; Closed while it is closed
  workflows, selected_workflow  \* how many there are; which is selected, from 0

inputVars == <<focus, hidden, composer, suggestions, palette, workflows, selected_workflow>>

Panes == <<"Workflows", "Transcript", "Composer", "Activity">>
Pane == {"Workflows", "Transcript", "Composer", "Activity"}
Closed == 0   \* what was selected is forgotten: opening starts from the first entry
is_focus_visible(pane) == pane \notin hidden
Text == to_text(composer, NewLine)

InputInit ==
  /\ focus = "Composer" /\ hidden = {} /\ composer = clear /\ suggestions = {}
  /\ palette = Closed /\ workflows = 0 /\ selected_workflow = 0

-----------------------------------------------------------------------------
(* map_key: a key means one thing in the composer and another elsewhere. *)
KeysInComposer ==
  [Tab |-> "ComposerAutocomplete", Home |-> "ComposerMoveHome", End |-> "ComposerMoveEnd", Up |-> "ComposerMoveUp",
   Down |-> "ComposerMoveDown", Left |-> "ComposerMoveLeft", Right |-> "ComposerMoveRight",
   ShiftHome |-> "ComposerSelectHome", ShiftEnd |-> "ComposerSelectEnd", ShiftUp |-> "ComposerSelectUp",
   ShiftDown |-> "ComposerSelectDown", ShiftLeft |-> "ComposerSelectLeft", ShiftRight |-> "ComposerSelectRight",
   Enter |-> "SubmitPrompt", ShiftEnter |-> "ComposerNewline", Backspace |-> "ComposerBackspace"]
KeysElsewhere ==
  [Tab |-> "FocusNext", Up |-> "MoveUp", Down |-> "MoveDown", Left |-> "FocusPrev", Right |-> "FocusNext",
   ShiftUp |-> "MoveUp", ShiftDown |-> "MoveDown", ShiftLeft |-> "FocusPrev", ShiftRight |-> "FocusNext",
   q |-> "Quit", r |-> "Refresh", j |-> "MoveDown", k |-> "MoveUp"]
KeysAnywhere ==
  [BackTab |-> "FocusPrev", Esc |-> "Escape", F2 |-> "ShowProviderPopup", F3 |-> "CodexLogin", F5 |-> "SubmitPrompt",
   F6 |-> "RunSelectedWorkflow", F7 |-> "ToggleActivity", F8 |-> "ToggleSidebar", CtrlP |-> "ShowCommandPalette",
   CtrlShiftC |-> "CopySelection", PageUp |-> "PageUp", PageDown |-> "PageDown", Delete |-> "PopupDelete"]
KeysHere == IF focus = "Composer" THEN KeysInComposer ELSE KeysElsewhere
Keys == DOMAIN KeysInComposer \cup DOMAIN KeysElsewhere \cup DOMAIN KeysAnywhere \cup Typed
map_key(key) ==
  IF key \in DOMAIN KeysAnywhere THEN KeysAnywhere[key]
  ELSE IF key \in DOMAIN KeysHere THEN KeysHere[key]
  ELSE IF focus = "Composer" /\ key \in Typed THEN "ComposerInsert" ELSE "None"

-----------------------------------------------------------------------------
(* The composer. *)
Suggested(b) ==
  LET text == to_text(b, NewLine) IN IF text # <<>> /\ Slash(text[1]) THEN suggest_commands(text) ELSE {}
recompute_suggestions(b) == suggestions' = Suggested(b)

Edit(b) == composer' = b /\ recompute_suggestions(b) /\ UNCHANGED <<focus, hidden, palette, workflows, selected_workflow>>
Turn(b) == composer' = b /\ UNCHANGED <<focus, hidden, suggestions, palette, workflows, selected_workflow>>
Room == Len(Text) < MaxText

Moves == [ComposerMoveUp |-> "Up", ComposerMoveDown |-> "Down", ComposerMoveLeft |-> "Left", ComposerMoveRight |-> "Right",
          ComposerMoveHome |-> "Home", ComposerMoveEnd |-> "End"]
Selects == [ComposerSelectUp |-> "Up", ComposerSelectDown |-> "Down", ComposerSelectLeft |-> "Left", ComposerSelectRight |-> "Right",
            ComposerSelectHome |-> "Home", ComposerSelectEnd |-> "End"]

Compose(action, key) ==
  /\ focus = "Composer"
  /\ \/ action = "ComposerInsert" /\ Room /\ Edit(insert_char(composer, key))
     \/ action = "ComposerNewline" /\ Room /\ Edit(insert_newline(composer))
     \/ action = "ComposerBackspace" /\ Edit(backspace(composer))
     \/ action = "ComposerAutocomplete" /\ \E s \in best_completion(Text) : Edit(filled(s))
     \/ action \in DOMAIN Moves /\ Turn(move(composer, Moves[action]))
     \/ action \in DOMAIN Selects /\ Turn(select(composer, Selects[action]))

(* While a prompt is pending nothing is submitted (TuiSession). *)
SubmitPrompt ==
  /\ ~is_empty(composer) /\ composer' = clear /\ suggestions' = {}
  /\ UNCHANGED <<focus, hidden, palette, workflows, selected_workflow>>

-----------------------------------------------------------------------------
(* Focus, panes and lists. *)
Focus(pane) == focus' = pane /\ UNCHANGED <<hidden, composer, suggestions, palette, workflows, selected_workflow>>
next_visible_focus(direction) ==
  LET here == CHOOSE i \in 1..4 : Panes[i] = focus
      pane(step) == Panes[((here - 1 + direction * step) % 4) + 1]
      nearest == CHOOSE s \in 1..4 : is_focus_visible(pane(s)) /\ \A t \in 1..(s - 1) : ~is_focus_visible(pane(t))
  IN pane(nearest)

(* Defect: a pane that is toggled off keeps the focus. *)
ToggleInPlace(pane) ==
  /\ hidden' = IF pane \in hidden THEN hidden \ {pane} ELSE hidden \cup {pane}
  /\ UNCHANGED <<focus, composer, suggestions, palette, workflows, selected_workflow>>
Toggle(pane) ==
  /\ hidden' = IF pane \in hidden THEN hidden \ {pane} ELSE hidden \cup {pane}
  /\ focus' = IF pane \notin hidden /\ focus = pane THEN "Transcript" ELSE focus
  /\ UNCHANGED <<composer, suggestions, palette, workflows, selected_workflow>>

move_workflow_selection(delta) ==
  /\ selected_workflow' = IF workflows = 0 THEN 0
                          ELSE CHOOSE n \in 0..(workflows - 1) : \A m \in 0..(workflows - 1) :
                                 LET to == selected_workflow + delta
                                     away(x) == IF x < to THEN to - x ELSE x - to IN away(n) <= away(m)
  /\ UNCHANGED <<focus, hidden, composer, suggestions, palette, workflows>>
Lines == [MoveUp |-> 0 - 1, MoveDown |-> 1, PageUp |-> 0 - 8, PageDown |-> 8]
MoveList(lines) ==
  \/ focus = "Workflows" /\ move_workflow_selection(lines)
  \/ focus = "Composer" /\ Turn(move(composer, IF lines < 0 THEN "Up" ELSE "Down"))

(* A snapshot brings the workflows of the moment (app.rs:1718). *)
clamp_selections(n) == selected_workflow' = IF n = 0 THEN 0 ELSE Least(selected_workflow, n - 1)
WorkflowsLoaded(n) ==
  workflows' = n /\ clamp_selections(n) /\ UNCHANGED <<focus, hidden, composer, suggestions, palette>>

-----------------------------------------------------------------------------
(* The command palette. *)
Palette(p) == palette' = p /\ UNCHANGED <<focus, hidden, composer, suggestions, workflows, selected_workflow>>
ShowCommandPalette == Palette(1)
InsertTemplate(text) ==
  /\ composer' = filled(text) /\ recompute_suggestions(filled(text)) /\ focus' = "Composer"
  /\ UNCHANGED <<hidden, workflows, selected_workflow>>

handle_command_palette_action(action) ==
  \/ action \in {"MoveUp", "ComposerMoveUp"} /\ Palette(IF palette > 1 THEN palette - 1 ELSE 1)
  \/ action \in {"MoveDown", "ComposerMoveDown"} /\ Palette(Least(palette + 1, Len(COMMANDS)))
  \/ action \in {"SubmitPrompt", "RunSelectedWorkflow"} /\ InsertTemplate(COMMANDS[palette].insert_text)
     /\ palette' = Closed
  \/ action \in {"Escape", "ShowCommandPalette"} /\ Palette(Closed)

(* handle_action, with neither popup nor palette open.  Escape first cancels a
   pending prompt (TuiSession), and leaves the composer only if there is none. *)
handle_input(action, key) ==
  \/ action = "FocusNext" /\ Focus(next_visible_focus(1))
  \/ action = "FocusPrev" /\ Focus(next_visible_focus(0 - 1))
  \/ action \in DOMAIN Lines /\ MoveList(Lines[action])
  \/ action = "Escape" /\ focus = "Composer" /\ Focus("Transcript")
  \/ action = "ToggleActivity" /\ Toggle("Activity")
  \/ action = "ToggleSidebar" /\ Toggle("Workflows")
  \/ action = "SubmitPrompt" /\ SubmitPrompt
  \/ action = "ShowCommandPalette" /\ ShowCommandPalette
  \/ Compose(action, key)

-----------------------------------------------------------------------------
(* The composer keeps its promise (composer.rs): rows, columns and selections
   are one text with a cursor and a mark. *)
TextCursor == offset(composer, Cursor(composer))
TextMark == IF composer.anchor = NoAnchor THEN 0 - 1 ELSE offset(composer, composer.anchor)
Insertable == {<<>>} \cup UNION {{COMMANDS[i].insert_text, COMMANDS[i].signature} : i \in Entries}
Field == INSTANCE TextField WITH
  Symbols <- Typed \cup {NewLine},
  Templates <- Insertable,
  text <- Text, cursor <- TextCursor, mark <- TextMark
ComposerIsATextField == Field!Spec

(* The suggestions on screen are those of the text under them (state.rs:341):
   none of the handlers that change the composer leaves those of another. *)
SuggestionsFitTheText == suggestions = Suggested(composer)

(* Nothing points nowhere (app.rs:652, state.rs:317): the pane with the focus is
   on screen, and what Enter or F6 would take from a list is in it. *)
SelectionsExist ==
  /\ focus \in Pane \ hidden /\ palette \in Entries \cup {Closed}
  /\ (workflows = 0 /\ selected_workflow = 0) \/ selected_workflow \in 0..(workflows - 1)

(* What is shown for the text and what is chosen in a list is not out of date,
   whichever handler changed them last. *)
NothingIsStale == SuggestionsFitTheText /\ SelectionsExist

(* Parser and table agree (commands.rs:67, 511): what the palette inserts,
   followed by as many words as its signature allows, is the command that is
   meant, and so is the signature a completion inserts. *)
PaletteCommandsParse ==
  palette # Closed =>
  LET d == COMMANDS[palette]
      needed == Cardinality({i \in DOMAIN d.args : d.args[i] \notin Optional})
  IN /\ \A n \in needed..Len(d.args) : parse_slash_command(d.insert_text \o [i \in 1..n |-> "word"]) = {d.cmd}
     /\ parse_slash_command(d.signature) = {d.cmd}
=============================================================================

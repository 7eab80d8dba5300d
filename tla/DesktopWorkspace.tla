-------------------------- MODULE DesktopWorkspace --------------------------
(* The workspace of the desktop application: the documents it shows, the
   editor, workflow runs and the assistant (argos-ui/src/workspace/mod.rs,
   WorkspaceApp::update; view.rs for what the user can press when).

   update handles one message at a time and returns a task; tasks run side by
   side on the runtime and each answers with one message, in any order.  The
   view is redrawn between two presses.  A text is the set of the edits it is
   made of, each belonging to the file it was made in. *)
EXTENDS Integers

CONSTANTS
  Files,           \* the curated files
  FirstFile,       \* the one that is opened at the start
  Workflows,
  Empty,           \* no document; no workflow
  MaxTasks,        \* bound on the tasks under way at once
  MaxEdits         \* bound on what the user types

ASSUME DocumentAssumption ==
  /\ FirstFile \in Files
  /\ Files \cap Workflows = {}
  /\ Empty \notin Files \cup Workflows
ASSUME BoundAssumption == MaxTasks \in Nat \ {0} /\ MaxEdits \in Nat

VARIABLES
  active_document,
  editor,
  workspace_loading, file_loading, file_saving, assistant_loading,
  workflow_running,
  disk,            \* what the files hold
  tasks,           \* the tasks under way
  typed,           \* the number of edits made so far
  acknowledged,    \* history: per file, what was reported as saved
  hasty,           \* history: something was opened or saved during a load,
                   \* or opened during a save
  save_failed      \* history

flags == <<workspace_loading, file_loading, file_saving, assistant_loading,
           workflow_running>>
shown == <<active_document, editor>>
history == <<acknowledged, hasty, save_failed>>
vars == <<shown, flags, disk, tasks, typed, history>>

Documents == Files \cup Workflows
Edits == Files \X (0 .. MaxEdits)
EditsOf(f) == {f} \X (0 .. MaxEdits)
Text == SUBSET Edits

(* A task waits for its turn ("running"), may be between two steps ("opened"),
   and has answered ("ok", "failed") until its answer is handled. *)
Slots == 1 .. MaxTasks
Task == [kind : {"none", "snapshot", "load", "save", "chat", "run"},
         document : Documents \cup {Empty}, text : Text,
         step : {"none", "running", "opened", "ok", "failed"}]
NoTask == [kind |-> "none", document |-> Empty, text |-> {}, step |-> "none"]
NewTask(kind, document, text) ==
  [kind |-> kind, document |-> document, text |-> text, step |-> "running"]

InFlight(kind) == {i \in Slots : tasks[i].kind = kind}

Init ==
  /\ active_document = Empty /\ editor = {}
  /\ workspace_loading = TRUE
  /\ file_loading = FALSE /\ file_saving = FALSE /\ assistant_loading = FALSE
  /\ workflow_running = Empty
  /\ disk = [f \in Files |-> {<<f, 0>>}]
  /\ tasks = [i \in Slots |-> IF i = 1 THEN NewTask("snapshot", Empty, {}) ELSE NoTask]
  /\ typed = 0
  /\ acknowledged = [f \in Files |-> {}]
  /\ hasty = FALSE /\ save_failed = FALSE

-----------------------------------------------------------------------------
(* The user.  Until the workspace is loaded there is nothing to select. *)

Start(task) ==
  \E i \in Slots :
    /\ tasks[i] = NoTask
    /\ \A j \in Slots : tasks[j] = NoTask => i <= j
    /\ tasks' = [tasks EXCEPT ![i] = task]

(* Defect: The file is shown as selected before its text is there. *)
FileSelectedAtOnce(f) ==
  /\ ~workspace_loading
  /\ Start(NewTask("load", f, {}))
  /\ file_loading' = TRUE
  /\ active_document' = f
  /\ hasty' = (hasty \/ InFlight("load") \cup InFlight("save") # {})
  /\ UNCHANGED <<editor, workspace_loading, file_saving, assistant_loading,
                 workflow_running, disk, typed, acknowledged, save_failed>>

FileSelected(f) ==
  /\ ~workspace_loading
  /\ Start(NewTask("load", f, {}))
  /\ file_loading' = TRUE
  /\ hasty' = (hasty \/ InFlight("load") \cup InFlight("save") # {})
  /\ UNCHANGED <<shown, workspace_loading, file_saving, assistant_loading,
                 workflow_running, disk, typed, acknowledged, save_failed>>

WorkflowSelected(w) ==
  /\ ~workspace_loading
  /\ active_document' = w
  /\ UNCHANGED <<editor, flags, disk, tasks, typed, history>>

(* The editor is there while a file is shown and none is loading. *)
EditorAction ==
  /\ active_document \in Files
  /\ ~file_loading
  /\ typed < MaxEdits
  /\ typed' = typed + 1
  /\ editor' = editor \cup {<<active_document, typed'>>}
  /\ UNCHANGED <<active_document, flags, disk, tasks, history>>

(* Defect: Saving is possible while a save is under way. *)
SaveAgain ==
  /\ active_document \in Files
  /\ Start(NewTask("save", active_document, editor))
  /\ file_saving' = TRUE
  /\ hasty' = (hasty \/ InFlight("load") # {})
  /\ UNCHANGED <<shown, workspace_loading, file_loading, assistant_loading,
                 workflow_running, disk, typed, acknowledged, save_failed>>

SaveActiveFile ==
  /\ active_document \in Files
  /\ ~file_saving
  /\ Start(NewTask("save", active_document, editor))
  /\ file_saving' = TRUE
  /\ hasty' = (hasty \/ InFlight("load") # {})
  /\ UNCHANGED <<shown, workspace_loading, file_loading, assistant_loading,
                 workflow_running, disk, typed, acknowledged, save_failed>>

RunWorkflow ==
  /\ active_document \in Workflows
  /\ workflow_running = Empty
  /\ Start(NewTask("run", active_document, {}))
  /\ workflow_running' = active_document
  /\ UNCHANGED <<shown, workspace_loading, file_loading, file_saving,
                 assistant_loading, disk, typed, history>>

(* The prompt takes the shown file along, if there is one. *)
SendChat ==
  /\ ~assistant_loading
  /\ Start(IF active_document \in Files THEN NewTask("chat", active_document, editor)
                                        ELSE NewTask("chat", Empty, {}))
  /\ assistant_loading' = TRUE
  /\ UNCHANGED <<shown, workspace_loading, file_loading, file_saving,
                 workflow_running, disk, typed, history>>

-----------------------------------------------------------------------------
(* The tasks. *)

At(i, kinds, step) == tasks[i].kind \in kinds /\ tasks[i].step = step
Goes(i, step) == tasks' = [tasks EXCEPT ![i].step = step]
Over(i) == tasks' = [tasks EXCEPT ![i] = NoTask]
TaskOnly == UNCHANGED <<shown, flags, typed, history>>

(* The snapshot, the assistant and a run end, well or badly. *)
TaskReturns(i) ==
  /\ At(i, {"snapshot", "chat", "run"}, "running")
  /\ \E result \in {"ok", "failed"} : Goes(i, result)
  /\ TaskOnly /\ UNCHANGED disk

load_file_text(i) ==
  /\ At(i, {"load"}, "running")
  /\ \/ tasks' = [tasks EXCEPT ![i].step = "ok", ![i].text = disk[tasks[i].document]]
     \/ Goes(i, "failed")
  /\ TaskOnly /\ UNCHANGED disk

(* save_file_text: the file is opened and truncated, then written. *)
OpenForSave(i) ==
  /\ At(i, {"save"}, "running")
  /\ Goes(i, "opened")
  /\ disk' = [disk EXCEPT ![tasks[i].document] = {}]
  /\ TaskOnly

WriteSave(i) ==
  /\ At(i, {"save"}, "opened")
  /\ Goes(i, "ok")
  /\ disk' = [disk EXCEPT ![tasks[i].document] = tasks[i].text]
  /\ TaskOnly

FailSave(i) ==
  /\ At(i, {"save"}, "running") \/ At(i, {"save"}, "opened")
  /\ Goes(i, "failed")
  /\ TaskOnly /\ UNCHANGED disk

TaskStep(i) ==
  \/ TaskReturns(i) \/ load_file_text(i)
  \/ OpenForSave(i) \/ WriteSave(i) \/ FailSave(i)

-----------------------------------------------------------------------------
(* The answers. *)

Answered(i, kind) == tasks[i].kind = kind /\ tasks[i].step \in {"ok", "failed"}
Succeeded(i) == tasks[i].step = "ok"

(* The first file is opened as soon as the files are known. *)
WorkspaceLoaded(i) ==
  /\ Answered(i, "snapshot")
  /\ workspace_loading' = FALSE
  /\ file_loading' = Succeeded(i)
  /\ tasks' = [tasks EXCEPT
       ![i] = IF Succeeded(i) THEN NewTask("load", FirstFile, {}) ELSE NoTask]
  /\ UNCHANGED <<shown, file_saving, assistant_loading, workflow_running,
                 disk, typed, history>>

(* Text and document are replaced together, whatever was shown. *)
FileLoaded(i) ==
  /\ Answered(i, "load")
  /\ Over(i)
  /\ file_loading' = FALSE
  /\ IF Succeeded(i)
     THEN active_document' = tasks[i].document /\ editor' = tasks[i].text
     ELSE UNCHANGED shown
  /\ UNCHANGED <<workspace_loading, file_saving, assistant_loading,
                 workflow_running, disk, typed, history>>

ActiveFileSaved(i) ==
  /\ Answered(i, "save")
  /\ Over(i)
  /\ file_saving' = FALSE
  /\ acknowledged' = IF Succeeded(i)
                     THEN [acknowledged EXCEPT ![tasks[i].document] = tasks[i].text]
                     ELSE acknowledged
  /\ save_failed' = (save_failed \/ ~Succeeded(i))
  /\ UNCHANGED <<shown, workspace_loading, file_loading, assistant_loading,
                 workflow_running, disk, typed, hasty>>

WorkflowRunFinished(i) ==
  /\ Answered(i, "run")
  /\ Over(i)
  /\ workflow_running' = Empty
  /\ UNCHANGED <<shown, workspace_loading, file_loading, file_saving,
                 assistant_loading, disk, typed, history>>

ChatCompleted(i) ==
  /\ Answered(i, "chat")
  /\ Over(i)
  /\ assistant_loading' = FALSE
  /\ UNCHANGED <<shown, workspace_loading, file_loading, file_saving,
                 workflow_running, disk, typed, history>>

User ==
  \/ \E f \in Files : FileSelected(f)
  \/ \E w \in Workflows : WorkflowSelected(w)
  \/ EditorAction \/ SaveActiveFile \/ RunWorkflow \/ SendChat

update(i) ==
  \/ WorkspaceLoaded(i) \/ FileLoaded(i) \/ ActiveFileSaved(i)
  \/ WorkflowRunFinished(i) \/ ChatCompleted(i)

Next == User \/ \E i \in Slots : TaskStep(i) \/ update(i)

Spec == Init /\ [][Next]_vars
-----------------------------------------------------------------------------
(* Properties. *)

(* Every file keeps its own text: however loads overtake each other, nothing
   typed in one file is ever written to another, nor sent to the assistant
   under another's name. *)
TextsKeepApart ==
  /\ \A f \in Files : disk[f] \subseteq EditsOf(f)
  /\ \A i \in Slots :
       tasks[i].kind \in {"save", "chat"} /\ tasks[i].document \in Files
         => tasks[i].text \subseteq EditsOf(tasks[i].document)

(* What was reported as saved is kept, for a user who opens nothing during a
   save or a load: it is in the file, and in the editor while the file is
   shown, so that the next save keeps it - whatever is typed during the save,
   and however often loads fail. *)
SavedTextIsKept ==
  ~hasty /\ ~save_failed =>
    \A f \in Files :
      /\ (\A i \in InFlight("save") : tasks[i].document # f)
           => acknowledged[f] \subseteq disk[f]
      /\ active_document = f /\ ~file_loading => acknowledged[f] \subseteq editor
=============================================================================

--------------------------- MODULE Desktop_proofs ---------------------------
(* What the desktop application promises of the texts and of the provider
   settings of its user, for any number of files, tasks, edits and presets.
   The workspace, the provider form, the agent and the stream of an answer share
   no state and are proved apart. *)
EXTENDS DesktopWorkspace, DesktopProvider, AgentLoop, AisdkProvider,
        FiniteSetTheorems, SequenceTheorems, WellFoundedInduction, TLAPS

(* The workspace. *)

WorkspaceTypeOK ==
  /\ active_document \in Documents \cup {Empty} /\ editor \in Text
  /\ workspace_loading \in BOOLEAN /\ file_loading \in BOOLEAN /\ file_saving \in BOOLEAN /\ assistant_loading \in BOOLEAN
  /\ workflow_running \in Workflows \cup {Empty}
  /\ disk \in [Files -> Text] /\ tasks \in [Slots -> Task] /\ typed \in 0 .. MaxEdits
  /\ acknowledged \in [Files -> Text] /\ hasty \in BOOLEAN /\ save_failed \in BOOLEAN

(* Slot i becomes this task, and the others stay. *)
Becomes(i, kind, document, words, stage) ==
  /\ tasks'[i].kind = kind /\ tasks'[i].document = document /\ tasks'[i].text = words /\ tasks'[i].step = stage
  /\ \A j \in Slots \ {i} : tasks'[j] = tasks[j]
  /\ tasks' \in [Slots -> Task]

LEMMA TaskUpdate ==
  ASSUME tasks \in [Slots -> Task], NEW i \in Slots, NEW o \in Task, tasks' = [tasks EXCEPT ![i] = o]
  PROVE  Becomes(i, o.kind, o.document, o.text, o.step)
BY DEF Becomes

LEMMA NoTaskType ==
  /\ NoTask \in Task
  /\ NoTask.kind = "none" /\ NoTask.document = Empty /\ NoTask.text = {} /\ NoTask.step = "none"
BY DEF NoTask, Task, Text

LEMMA NewTaskType ==
  ASSUME NEW kind \in {"snapshot", "load", "save", "chat", "run"}, NEW document \in Documents \cup {Empty}, NEW words \in Text
  PROVE  /\ NewTask(kind, document, words) \in Task
         /\ NewTask(kind, document, words).kind = kind /\ NewTask(kind, document, words).document = document
         /\ NewTask(kind, document, words).text = words /\ NewTask(kind, document, words).step = "running"
BY DEF NewTask, Task

LEMMA StartFacts ==
  ASSUME tasks \in [Slots -> Task],
         NEW kind \in {"snapshot", "load", "save", "chat", "run"}, NEW document \in Documents \cup {Empty}, NEW words \in Text,
         Start(NewTask(kind, document, words))
  PROVE  \E i \in Slots : tasks[i].kind = "none" /\ Becomes(i, kind, document, words, "running")
<1> DEFINE o == NewTask(kind, document, words)
<1>1. o \in Task /\ o.kind = kind /\ o.document = document /\ o.text = words /\ o.step = "running"
  BY NewTaskType
<1>2. PICK i \in Slots : tasks[i] = NoTask /\ tasks' = [tasks EXCEPT ![i] = o]
  BY DEF Start
<1> HIDE DEF o
<1> QED BY <1>1, <1>2, TaskUpdate, NoTaskType

LEMMA GoesFacts ==
  ASSUME tasks \in [Slots -> Task], NEW i \in Slots, NEW stage \in {"opened", "ok", "failed"}, Goes(i, stage)
  PROVE  Becomes(i, tasks[i].kind, tasks[i].document, tasks[i].text, stage)
<1> DEFINE o == [tasks[i] EXCEPT !.step = stage]
<1>1. /\ o \in Task /\ o.kind = tasks[i].kind /\ o.document = tasks[i].document
      /\ o.text = tasks[i].text /\ o.step = stage
  BY DEF Task
<1>2. tasks' = [tasks EXCEPT ![i] = o]
  BY DEF Goes
<1> HIDE DEF o
<1> QED BY <1>1, <1>2, TaskUpdate DEF Becomes

LEMMA OverFacts ==
  ASSUME tasks \in [Slots -> Task], NEW i \in Slots, Over(i)
  PROVE  Becomes(i, "none", Empty, {}, "none")
BY NoTaskType, TaskUpdate DEF Over, Becomes
-----------------------------------------------------------------------------
(* A text is of one file wherever it goes: in the editor while the file is
   shown, in a task on its way, on the disk.  Until the workspace is loaded
   nothing is shown and no file task is under way. *)

TextInv ==
  /\ TextsKeepApart
  /\ active_document \in Files => editor \subseteq EditsOf(active_document)
  /\ \A i \in Slots :
       /\ tasks[i].kind \in {"load", "save"} => tasks[i].document \in Files
       /\ tasks[i].kind = "load" => tasks[i].text \subseteq EditsOf(tasks[i].document)

FlagInv ==
  /\ \A i, j \in Slots : tasks[i].kind = "save" /\ tasks[j].kind = "save" => i = j
  /\ \A i, j \in Slots : tasks[i].kind = "snapshot" /\ tasks[j].kind = "snapshot" => i = j
  /\ \A i \in Slots : tasks[i].kind = "save" => file_saving
  /\ \A i \in Slots : tasks[i].kind = "snapshot" => workspace_loading
  /\ workspace_loading => active_document = Empty /\ \A i \in Slots : tasks[i].kind \notin {"load", "save"}

(* A user who opens nothing during a save or a load has one file task under
   way at a time.  What was acknowledged is in the text that is being saved, in
   the text that was loaded, in the editor of the file that is shown, and in
   the file unless it is being written. *)
Kept ==
  /\ \A i, j \in Slots : tasks[i].kind \in {"load", "save"} /\ tasks[j].kind \in {"load", "save"} => i = j
  /\ \A i \in Slots : tasks[i].kind = "save" =>
       /\ acknowledged[tasks[i].document] \subseteq tasks[i].text
       /\ tasks[i].step = "ok" => disk[tasks[i].document] = tasks[i].text
       /\ active_document = tasks[i].document => tasks[i].text \subseteq editor
  /\ \A i \in Slots : tasks[i].kind = "load" /\ tasks[i].step = "ok" => acknowledged[tasks[i].document] \subseteq tasks[i].text
  /\ \A f \in Files : (\A i \in Slots : tasks[i].kind = "save" => tasks[i].document # f) => acknowledged[f] \subseteq disk[f]
  /\ \A f \in Files : active_document = f => acknowledged[f] \subseteq editor

KeptInv == ~hasty /\ ~save_failed => Kept

WorkspaceInv == WorkspaceTypeOK /\ TextInv /\ FlagInv /\ KeptInv

(* What each step does to the tasks. *)
LEMMA SelectFacts ==
  ASSUME WorkspaceTypeOK, NEW f \in Files, FileSelected(f)
  PROVE  \E i \in Slots : tasks[i].kind = "none" /\ Becomes(i, "load", f, {}, "running")
<1>1. {} \in Text /\ f \in Documents \cup {Empty} /\ "load" \in {"snapshot", "load", "save", "chat", "run"}
  BY DEF Text, Documents
<1>2. Start(NewTask("load", f, {})) /\ tasks \in [Slots -> Task]
  BY DEF FileSelected, WorkspaceTypeOK
<1> QED BY <1>1, <1>2, StartFacts

LEMMA SaveFacts ==
  ASSUME WorkspaceTypeOK, SaveActiveFile
  PROVE  \E i \in Slots : tasks[i].kind = "none" /\ Becomes(i, "save", active_document, editor, "running")
<1>1. "save" \in {"snapshot", "load", "save", "chat", "run"}
  OBVIOUS
<1> QED BY <1>1, StartFacts DEF SaveActiveFile, WorkspaceTypeOK

LEMMA OtherStarts ==
  ASSUME WorkspaceTypeOK, RunWorkflow \/ SendChat
  PROVE  /\ \E i \in Slots, kind \in {"run", "chat"}, document \in Documents \cup {Empty}, words \in Text :
              /\ tasks[i].kind = "none" /\ Becomes(i, kind, document, words, "running")
              /\ kind = "chat" /\ document \in Files => document = active_document /\ words = editor
         /\ UNCHANGED <<shown, workspace_loading, file_loading, file_saving, disk, typed, history>>
<1>1. {} \in Text /\ Empty \notin Files /\ {"run", "chat"} \subseteq {"snapshot", "load", "save", "chat", "run"}
      /\ active_document \in Documents \cup {Empty} /\ editor \in Text /\ tasks \in [Slots -> Task]
  BY DocumentAssumption DEF Text, WorkspaceTypeOK
<1>2. CASE RunWorkflow
  <2>1. Start(NewTask("run", active_document, {}))
    BY <1>2 DEF RunWorkflow
  <2>2. \E i \in Slots : tasks[i].kind = "none" /\ Becomes(i, "run", active_document, {}, "running")
    BY <1>1, <2>1, StartFacts
  <2> QED BY <1>1, <1>2, <2>2 DEF RunWorkflow
<1>3. CASE SendChat
  <2>1. CASE active_document \in Files
    <3>1. Start(NewTask("chat", active_document, editor))
      BY <1>3, <2>1 DEF SendChat
    <3>2. \E i \in Slots : tasks[i].kind = "none" /\ Becomes(i, "chat", active_document, editor, "running")
      BY <1>1, <3>1, StartFacts
    <3> QED BY <1>1, <1>3, <3>2 DEF SendChat
  <2>2. CASE active_document \notin Files
    <3>1. Start(NewTask("chat", Empty, {}))
      BY <1>3, <2>2 DEF SendChat
    <3>2. \E i \in Slots : tasks[i].kind = "none" /\ Becomes(i, "chat", Empty, {}, "running")
      BY <1>1, <3>1, StartFacts
    <3> QED BY <1>1, <1>3, <3>2 DEF SendChat
  <2> QED BY <2>1, <2>2
<1> QED BY <1>2, <1>3

LEMMA LoadFacts ==
  ASSUME WorkspaceTypeOK, NEW i \in Slots, load_file_text(i), tasks[i].document \in Files
  PROVE  \/ Becomes(i, tasks[i].kind, tasks[i].document, disk[tasks[i].document], "ok")
         \/ Becomes(i, tasks[i].kind, tasks[i].document, tasks[i].text, "failed")
<1>1. tasks \in [Slots -> Task] /\ disk[tasks[i].document] \in Text /\ "failed" \in {"opened", "ok", "failed"}
  BY DEF WorkspaceTypeOK
<1>2. CASE Goes(i, "failed")
  BY <1>1, <1>2, GoesFacts
<1>3. CASE tasks' = [tasks EXCEPT ![i].step = "ok", ![i].text = disk[tasks[i].document]]
  <2> DEFINE o == [tasks[i] EXCEPT !.step = "ok", !.text = disk[tasks[i].document]]
  <2>1. /\ o \in Task /\ o.kind = tasks[i].kind /\ o.document = tasks[i].document
        /\ o.text = disk[tasks[i].document] /\ o.step = "ok"
    BY <1>1 DEF Task
  <2>2. tasks' = [tasks EXCEPT ![i] = o]
    BY <1>1, <1>3 DEF Task
  <2> HIDE DEF o
  <2> QED BY <1>1, <2>1, <2>2, TaskUpdate DEF Becomes
<1> QED BY <1>2, <1>3 DEF load_file_text

LEMMA LoadedFacts ==
  ASSUME WorkspaceTypeOK, NEW i \in Slots, WorkspaceLoaded(i)
  PROVE  \/ Becomes(i, "load", FirstFile, {}, "running")
         \/ Becomes(i, "none", Empty, {}, "none")
<1>1. tasks \in [Slots -> Task] /\ {} \in Text /\ FirstFile \in Documents \cup {Empty}
      /\ "load" \in {"snapshot", "load", "save", "chat", "run"}
  BY DocumentAssumption DEF WorkspaceTypeOK, Text, Documents
<1>2. CASE tasks' = [tasks EXCEPT ![i] = NewTask("load", FirstFile, {})]
  <2> DEFINE o == NewTask("load", FirstFile, {})
  <2>1. o \in Task /\ o.kind = "load" /\ o.document = FirstFile /\ o.text = {} /\ o.step = "running"
    BY <1>1, NewTaskType
  <2> HIDE DEF o
  <2>2. tasks' = [tasks EXCEPT ![i] = o]
    BY <1>2 DEF o
  <2> QED BY <1>1, <2>1, <2>2, TaskUpdate DEF Becomes
<1>3. CASE Over(i)
  BY <1>1, <1>3, OverFacts
<1> QED BY <1>2, <1>3 DEF WorkspaceLoaded, Over

(* A task's step: it goes on, and only a load's text and the disk change. *)
LEMMA TaskStepFacts ==
  ASSUME WorkspaceTypeOK, NEW i \in Slots, TaskStep(i), tasks[i].kind \in {"load", "save"} => tasks[i].document \in Files
  PROVE  /\ UNCHANGED <<shown, flags, typed, history>>
         /\ \/ /\ tasks[i].kind \in {"snapshot", "chat", "run"} /\ UNCHANGED disk
               /\ \E stage \in {"ok", "failed"} : Becomes(i, tasks[i].kind, tasks[i].document, tasks[i].text, stage)
            \/ /\ tasks[i].kind = "load" /\ UNCHANGED disk
               /\ \/ Becomes(i, "load", tasks[i].document, disk[tasks[i].document], "ok")
                  \/ Becomes(i, "load", tasks[i].document, tasks[i].text, "failed")
            \/ /\ tasks[i].kind = "save" /\ disk' = [disk EXCEPT ![tasks[i].document] = {}]
               /\ Becomes(i, "save", tasks[i].document, tasks[i].text, "opened")
            \/ /\ tasks[i].kind = "save" /\ disk' = [disk EXCEPT ![tasks[i].document] = tasks[i].text]
               /\ Becomes(i, "save", tasks[i].document, tasks[i].text, "ok")
            \/ /\ tasks[i].kind = "save" /\ tasks[i].step # "ok" /\ UNCHANGED disk
               /\ Becomes(i, "save", tasks[i].document, tasks[i].text, "failed")
<1> USE DEF TaskOnly, At
<1>1. tasks \in [Slots -> Task] /\ \A stage \in {"opened", "ok", "failed"} : Goes(i, stage) =>
        Becomes(i, tasks[i].kind, tasks[i].document, tasks[i].text, stage)
  BY GoesFacts DEF WorkspaceTypeOK
<1>2. CASE TaskReturns(i)
  BY <1>1, <1>2 DEF TaskReturns
<1>3. CASE load_file_text(i)
  <2>1. tasks[i].kind = "load" /\ UNCHANGED <<shown, flags, typed, history, disk>>
    BY <1>3 DEF load_file_text
  <2> QED BY <1>3, <2>1, LoadFacts
<1>4. CASE OpenForSave(i)
  BY <1>1, <1>4 DEF OpenForSave
<1>5. CASE WriteSave(i)
  BY <1>1, <1>5 DEF WriteSave
<1>6. CASE FailSave(i)
  BY <1>1, <1>6 DEF FailSave
<1> QED BY <1>2, <1>3, <1>4, <1>5, <1>6 DEF TaskStep

(* What a step leaves of the files' texts is typed as it was. *)
LEMMA WorkspaceTypeKeeps ==
  ASSUME WorkspaceTypeOK, TextInv, Next
  PROVE  WorkspaceTypeOK'
<1> USE DEF shown, flags, history
<1>1. /\ tasks \in [Slots -> Task] /\ disk \in [Files -> Text] /\ acknowledged \in [Files -> Text]
      /\ active_document \in Documents \cup {Empty} /\ editor \in Text
      /\ \A f \in Files : f \in Documents
  BY DEF WorkspaceTypeOK, Documents
<1>2. ASSUME NEW f \in Files, FileSelected(f)
      PROVE  WorkspaceTypeOK'
  <2>1. tasks' \in [Slots -> Task]
    BY <1>2, SelectFacts DEF Becomes
  <2> QED BY <1>2, <2>1 DEF FileSelected, WorkspaceTypeOK
<1>3. ASSUME NEW w \in Workflows, WorkflowSelected(w)
      PROVE  WorkspaceTypeOK'
  BY <1>3 DEF WorkflowSelected, WorkspaceTypeOK, Documents
<1>4. CASE EditorAction
  <2>1. typed' \in 0 .. MaxEdits
    BY <1>4, BoundAssumption DEF EditorAction, WorkspaceTypeOK
  <2>2. editor' \in Text
    BY <1>1, <1>4, <2>1 DEF EditorAction, Text, Edits
  <2> QED BY <1>4, <2>1, <2>2 DEF EditorAction, WorkspaceTypeOK
<1>5. CASE SaveActiveFile
  <2>1. tasks' \in [Slots -> Task]
    BY <1>5, SaveFacts DEF Becomes
  <2> QED BY <1>5, <2>1 DEF SaveActiveFile, WorkspaceTypeOK
<1>6. CASE RunWorkflow \/ SendChat
  <2>1. tasks' \in [Slots -> Task] /\ UNCHANGED <<shown, workspace_loading, file_loading, file_saving, disk, typed, history>>
    BY <1>6, OtherStarts DEF Becomes
  <2>2. assistant_loading' \in BOOLEAN /\ workflow_running' \in Workflows \cup {Empty}
    BY <1>6 DEF RunWorkflow, SendChat, WorkspaceTypeOK
  <2> QED BY <2>1, <2>2 DEF WorkspaceTypeOK
<1>7. ASSUME NEW i \in Slots, TaskStep(i)
      PROVE  WorkspaceTypeOK'
  <2>1. tasks[i].text \in Text /\ {} \in Text
    BY <1>1 DEF Task, Text
  <2>2. /\ UNCHANGED <<shown, flags, typed, history>> /\ tasks' \in [Slots -> Task]
        /\ UNCHANGED disk \/ \E x \in {{}, tasks[i].text} : disk' = [disk EXCEPT ![tasks[i].document] = x]
    BY <1>7, TaskStepFacts DEF Becomes, TextInv
  <2>3. disk' \in [Files -> Text]
    BY <1>1, <2>1, <2>2
  <2> QED BY <2>2, <2>3 DEF WorkspaceTypeOK
<1>8. ASSUME NEW i \in Slots, update(i)
      PROVE  WorkspaceTypeOK'
  <2>1. tasks[i].text \in Text /\ tasks[i].document \in Documents \cup {Empty}
    BY <1>1 DEF Task
  <2>2. tasks' \in [Slots -> Task]
    BY <1>1, <1>8, LoadedFacts, OverFacts DEF update, FileLoaded, ActiveFileSaved, WorkflowRunFinished, ChatCompleted, Becomes
  <2>3. CASE WorkspaceLoaded(i)
    BY <2>2, <2>3 DEF WorkspaceLoaded, WorkspaceTypeOK, Succeeded
  <2>4. CASE FileLoaded(i)
    BY <2>1, <2>2, <2>4 DEF FileLoaded, WorkspaceTypeOK
  <2>5. CASE ActiveFileSaved(i)
    <3>1. acknowledged' \in [Files -> Text]
      BY <1>1, <2>1, <2>5 DEF ActiveFileSaved
    <3> QED BY <2>2, <2>5, <3>1 DEF ActiveFileSaved, WorkspaceTypeOK, Succeeded
  <2>6. CASE WorkflowRunFinished(i)
    BY <2>2, <2>6 DEF WorkflowRunFinished, WorkspaceTypeOK
  <2>7. CASE ChatCompleted(i)
    BY <2>2, <2>7 DEF ChatCompleted, WorkspaceTypeOK
  <2> QED BY <1>8, <2>3, <2>4, <2>5, <2>6, <2>7 DEF update
<1> QED BY <1>2, <1>3, <1>4, <1>5, <1>6, <1>7, <1>8 DEF Next, User
-----------------------------------------------------------------------------
(* The texts. *)

TaskTexts ==
  \A i \in Slots :
    /\ tasks[i].kind \in {"load", "save"} => tasks[i].document \in Files
    /\ tasks[i].kind \in {"load", "save", "chat"} /\ tasks[i].document \in Files => tasks[i].text \subseteq EditsOf(tasks[i].document)

LEMMA TextParts ==
  TextInv <=> /\ \A f \in Files : disk[f] \subseteq EditsOf(f)
              /\ active_document \in Files => editor \subseteq EditsOf(active_document)
              /\ TaskTexts
BY DEF TextInv, TextsKeepApart, TaskTexts

LEMMA TextBecomes ==
  ASSUME TaskTexts, NEW i \in Slots, NEW kind, NEW document, NEW words, NEW stage, Becomes(i, kind, document, words, stage),
         kind \in {"load", "save"} => document \in Files,
         kind \in {"load", "save", "chat"} /\ document \in Files => words \subseteq EditsOf(document)
  PROVE  TaskTexts'
BY DEF Becomes, TaskTexts, EditsOf

LEMMA TextKeeps ==
  ASSUME WorkspaceTypeOK, TextInv, Next
  PROVE  TextInv'
<1> USE DEF shown, flags, history
<1> DEFINE Disk == \A f \in Files : disk[f] \subseteq EditsOf(f)
           Editor == active_document \in Files => editor \subseteq EditsOf(active_document)
<1> SUFFICES Disk' /\ Editor' /\ TaskTexts'
  BY DEF TextInv, TextsKeepApart, TaskTexts, EditsOf
<1>1. Disk /\ Editor /\ TaskTexts /\ tasks \in [Slots -> Task] /\ disk \in [Files -> Text]
  BY TextParts DEF WorkspaceTypeOK
<1>2. ASSUME NEW f \in Files, FileSelected(f)
      PROVE  Disk' /\ Editor' /\ TaskTexts'
  <2>1. TaskTexts'
    BY <1>1, <1>2, SelectFacts, TextBecomes
  <2> QED BY <1>1, <1>2, <2>1 DEF FileSelected, EditsOf
<1>3. ASSUME NEW w \in Workflows, WorkflowSelected(w)
      PROVE  Disk' /\ Editor' /\ TaskTexts'
  BY <1>1, <1>3, DocumentAssumption DEF WorkflowSelected, TaskTexts, EditsOf
<1>4. CASE EditorAction
  <2>1. typed' \in 0 .. MaxEdits
    BY <1>4, BoundAssumption DEF EditorAction, WorkspaceTypeOK
  <2>2. Editor'
    BY <1>1, <1>4, <2>1 DEF EditorAction, EditsOf
  <2> QED BY <1>1, <1>4, <2>2 DEF EditorAction, TaskTexts, EditsOf
<1>5. CASE SaveActiveFile
  <2>1. active_document \in Files
    BY <1>5 DEF SaveActiveFile
  <2>2. TaskTexts'
    BY <1>1, <1>5, <2>1, SaveFacts, TextBecomes
  <2> QED BY <1>1, <1>5, <2>2 DEF SaveActiveFile, EditsOf
<1>6. CASE RunWorkflow \/ SendChat
  <2>1. TaskTexts'
    <3>1. PICK i \in Slots, kind \in {"run", "chat"}, document \in Documents \cup {Empty}, words \in Text :
            /\ Becomes(i, kind, document, words, "running")
            /\ kind = "chat" /\ document \in Files => document = active_document /\ words = editor
      BY <1>6, OtherStarts
    <3> QED BY <1>1, <3>1, TextBecomes
  <2> QED BY <1>1, <1>6, <2>1, OtherStarts DEF EditsOf
<1>7. ASSUME NEW i \in Slots, TaskStep(i)
      PROVE  Disk' /\ Editor' /\ TaskTexts'
  <2> DEFINE d == tasks[i].document
             Goes2(stage) == Becomes(i, tasks[i].kind, d, tasks[i].text, stage)
  <2>1. /\ tasks[i].kind \in {"load", "save"} => d \in Files
        /\ tasks[i].kind \in {"load", "save", "chat"} /\ d \in Files => tasks[i].text \subseteq EditsOf(d)
    BY <1>1 DEF TaskTexts
  <2>2. (\E stage : Goes2(stage)) => TaskTexts'
    BY <1>1, <2>1, TextBecomes
  <2>3. Becomes(i, "load", d, disk[d], "ok") /\ tasks[i].kind = "load" => TaskTexts'
    BY <1>1, <2>1, TextBecomes
  <2>4. TaskTexts' /\ UNCHANGED shown
    BY <1>7, <2>1, <2>2, <2>3, TaskStepFacts
  <2>5. UNCHANGED disk \/ (tasks[i].kind = "save" /\ \E x \in {{}, tasks[i].text} : disk' = [disk EXCEPT ![d] = x])
    BY <1>7, <2>1, TaskStepFacts
  <2>6. Disk'
    BY <1>1, <2>1, <2>5 DEF EditsOf
  <2> QED BY <1>1, <2>4, <2>6 DEF EditsOf
<1>8. ASSUME NEW i \in Slots, update(i)
      PROVE  Disk' /\ Editor' /\ TaskTexts'
  <2>1. FirstFile \in Files /\ {} \subseteq EditsOf(FirstFile)
    BY DocumentAssumption
  <2>2. TaskTexts'
    <3>1. CASE WorkspaceLoaded(i)
      BY <1>1, <2>1, <3>1, LoadedFacts, TextBecomes
    <3>2. CASE Over(i)
      BY <1>1, <3>2, OverFacts, TextBecomes
    <3> QED BY <1>8, <3>1, <3>2 DEF update, FileLoaded, ActiveFileSaved, WorkflowRunFinished, ChatCompleted
  <2>3. CASE FileLoaded(i)
    <3>1. tasks[i].kind = "load"
      BY <2>3 DEF FileLoaded, Answered
    <3> QED BY <1>1, <2>2, <2>3, <3>1 DEF FileLoaded, TaskTexts, EditsOf
  <2>4. CASE WorkspaceLoaded(i) \/ ActiveFileSaved(i) \/ WorkflowRunFinished(i) \/ ChatCompleted(i)
    BY <1>1, <2>2, <2>4 DEF WorkspaceLoaded, ActiveFileSaved, WorkflowRunFinished, ChatCompleted, EditsOf
  <2> QED BY <1>8, <2>3, <2>4 DEF update
<1> QED BY <1>2, <1>3, <1>4, <1>5, <1>6, <1>7, <1>8 DEF Next, User
-----------------------------------------------------------------------------
(* The flags. *)

LEMMA FlagKeeps ==
  ASSUME WorkspaceTypeOK, TextInv, FlagInv, Next
  PROVE  FlagInv'
<1> USE DEF shown, flags, history, FlagInv
<1>1. tasks \in [Slots -> Task] /\ workspace_loading \in BOOLEAN /\ Empty \notin Documents /\ Files \cap Workflows = {}
  BY DocumentAssumption DEF WorkspaceTypeOK, Documents
<1>2. ASSUME NEW f \in Files, FileSelected(f)
      PROVE  FlagInv'
  <2>1. ~workspace_loading /\ UNCHANGED <<workspace_loading, file_saving, active_document>>
    BY <1>2 DEF FileSelected
  <2> QED BY <1>2, <2>1, SelectFacts DEF Becomes
<1>3. ASSUME NEW w \in Workflows, WorkflowSelected(w)
      PROVE  FlagInv'
  BY <1>3 DEF WorkflowSelected
<1>4. CASE EditorAction
  BY <1>4 DEF EditorAction
<1>5. CASE SaveActiveFile
  <2>1. /\ ~file_saving /\ file_saving' = TRUE /\ active_document \in Files
        /\ UNCHANGED <<workspace_loading, active_document>>
    BY <1>5 DEF SaveActiveFile
  <2>2. ~workspace_loading
    BY <1>1, <2>1 DEF Documents
  <2> QED BY <1>5, <2>1, <2>2, SaveFacts DEF Becomes
<1>6. CASE RunWorkflow \/ SendChat
  BY <1>6, OtherStarts DEF Becomes
<1>7. ASSUME NEW i \in Slots, TaskStep(i)
      PROVE  FlagInv'
  <2>1. UNCHANGED <<workspace_loading, file_saving, active_document>> /\ tasks'[i].kind = tasks[i].kind
        /\ \A j \in Slots \ {i} : tasks'[j] = tasks[j]
    BY <1>7, TaskStepFacts DEF Becomes, TextInv
  <2> QED BY <2>1
<1>8. ASSUME NEW i \in Slots, update(i)
      PROVE  FlagInv'
  <2>1. CASE WorkspaceLoaded(i)
    <3>1. tasks[i].kind = "snapshot" /\ workspace_loading' = FALSE /\ UNCHANGED <<active_document, file_saving>>
      BY <2>1 DEF WorkspaceLoaded, Answered
    <3>2. tasks'[i].kind \in {"load", "none"} /\ \A j \in Slots \ {i} : tasks'[j] = tasks[j]
      BY <2>1, LoadedFacts DEF Becomes
    <3> QED BY <3>1, <3>2
  <2>2. CASE ~WorkspaceLoaded(i)
    <3>1. tasks'[i].kind = "none" /\ (\A j \in Slots \ {i} : tasks'[j] = tasks[j]) /\ UNCHANGED workspace_loading
      BY <1>1, <1>8, <2>2, OverFacts DEF update, FileLoaded, ActiveFileSaved, WorkflowRunFinished, ChatCompleted, Becomes
    <3>2. CASE FileLoaded(i)
      <4>1. tasks[i].kind = "load" /\ UNCHANGED file_saving
        BY <3>2 DEF FileLoaded, Answered
      <4> QED BY <3>1, <4>1
    <3>3. CASE ActiveFileSaved(i)
      <4>1. tasks[i].kind = "save" /\ UNCHANGED active_document
        BY <3>3 DEF ActiveFileSaved, Answered
      <4> QED BY <3>1, <4>1
    <3>4. CASE WorkflowRunFinished(i) \/ ChatCompleted(i)
      BY <3>1, <3>4 DEF WorkflowRunFinished, ChatCompleted
    <3> QED BY <1>8, <2>2, <3>2, <3>3, <3>4 DEF update
  <2> QED BY <2>1, <2>2
<1> QED BY <1>2, <1>3, <1>4, <1>5, <1>6, <1>7, <1>8 DEF Next, User
-----------------------------------------------------------------------------
(* What was saved. *)

NoFileTask == \A i \in Slots : tasks[i].kind \notin {"load", "save"}

(* A step that starts a file task where none is under way. *)
LEMMA KeptStart ==
  ASSUME WorkspaceTypeOK, Kept, NoFileTask, NEW i \in Slots, NEW kind \in {"load", "save"}, NEW document, NEW words,
         Becomes(i, kind, document, words, "running"), kind = "save" => document = active_document /\ document \in Files /\ words = editor,
         UNCHANGED <<shown, disk, acknowledged>>
  PROVE  Kept'
<1>1. /\ tasks'[i].kind = kind /\ tasks'[i].document = document /\ tasks'[i].text = words /\ tasks'[i].step = "running"
      /\ \A j \in Slots \ {i} : tasks'[j].kind \notin {"load", "save"}
  BY DEF Becomes, NoFileTask
<1>2. (\A f \in Files : acknowledged[f] \subseteq disk[f]) /\ \A f \in Files : active_document = f => acknowledged[f] \subseteq editor
  BY DEF Kept, NoFileTask
<1> QED BY <1>1, <1>2 DEF Kept, shown

LEMMA KeptKeeps ==
  ASSUME WorkspaceTypeOK, TextInv, FlagInv, KeptInv, Next
  PROVE  KeptInv'
<1> USE DEF shown, flags, history
<1> SUFFICES ASSUME ~hasty', ~save_failed'
             PROVE  Kept'
  BY DEF KeptInv
<1>1. ASSUME NEW f \in Files, FileSelected(f)
      PROVE  Kept'
  <2>1. ~hasty /\ ~save_failed /\ NoFileTask /\ UNCHANGED <<shown, disk, acknowledged>>
    BY <1>1 DEF FileSelected, InFlight, NoFileTask
  <2> QED BY <1>1, <2>1, SelectFacts, KeptStart DEF KeptInv
<1>2. ASSUME NEW w \in Workflows, WorkflowSelected(w)
      PROVE  Kept'
  <2>1. w \notin Files /\ Kept
    BY <1>2, DocumentAssumption DEF WorkflowSelected, KeptInv
  <2> QED BY <1>2, <2>1 DEF WorkflowSelected, Kept, TextInv
<1>3. CASE EditorAction
  <2>1. Kept
    BY <1>3 DEF EditorAction, KeptInv
  <2>2. editor \subseteq editor' /\ UNCHANGED <<active_document, disk, tasks, acknowledged>>
    BY <1>3 DEF EditorAction
  <2> QED BY <2>1, <2>2 DEF Kept
<1>4. CASE SaveActiveFile
  <2>1. ~hasty /\ ~save_failed /\ active_document \in Files /\ UNCHANGED <<shown, disk, acknowledged>>
    BY <1>4 DEF SaveActiveFile
  <2>2. NoFileTask
    BY <1>4 DEF SaveActiveFile, InFlight, FlagInv, NoFileTask
  <2> QED BY <1>4, <2>1, <2>2, SaveFacts, KeptStart DEF KeptInv
<1>5. CASE RunWorkflow \/ SendChat
  <2>1. Kept /\ UNCHANGED <<shown, disk, acknowledged>>
    BY <1>5, OtherStarts DEF KeptInv
  <2>2. PICK i \in Slots : tasks[i].kind = "none" /\ tasks'[i].kind \in {"run", "chat"} /\ \A j \in Slots \ {i} : tasks'[j] = tasks[j]
    BY <1>5, OtherStarts DEF Becomes
  <2> QED BY <2>1, <2>2 DEF Kept
<1>6. ASSUME NEW i \in Slots, TaskStep(i)
      PROVE  Kept'
  <2> DEFINE d == tasks[i].document
             x == tasks[i].text
  <2>1. /\ tasks[i].kind \in {"load", "save"} => d \in Files
        /\ \A j \in Slots : tasks[j].kind \in {"load", "save"} => tasks[j].document \in Files
    BY DEF TextInv
  <2>2. UNCHANGED <<shown, acknowledged, hasty, save_failed>>
    BY <1>6, <2>1, TaskStepFacts
  <2>3. Kept /\ disk \in [Files -> Text]
    BY <2>2 DEF KeptInv, WorkspaceTypeOK
  <2>4. CASE tasks[i].kind \in {"snapshot", "chat", "run"} /\ UNCHANGED disk /\ \E stage : Becomes(i, tasks[i].kind, d, x, stage)
    BY <2>2, <2>3, <2>4 DEF Kept, Becomes
  <2>5. CASE tasks[i].kind = "load" /\ UNCHANGED disk /\ Becomes(i, "load", d, disk[d], "ok")
    <3>1. \A j \in Slots : tasks[j].kind # "save"
      BY <2>3, <2>5 DEF Kept
    <3>2. acknowledged[d] \subseteq disk[d]
      BY <2>1, <2>3, <2>5, <3>1 DEF Kept
    <3> QED BY <2>2, <2>3, <2>5, <3>2 DEF Kept, Becomes
  <2>6. CASE tasks[i].kind = "load" /\ UNCHANGED disk /\ Becomes(i, "load", d, x, "failed")
    BY <2>2, <2>3, <2>6 DEF Kept, Becomes
  <2>7. ASSUME tasks[i].kind = "save", NEW y, disk' = [disk EXCEPT ![d] = y], NEW stage, Becomes(i, "save", d, x, stage),
               stage = "ok" => y = x
        PROVE  Kept'
    <3>1. \A j \in Slots \ {i} : tasks'[j] = tasks[j] /\ tasks[j].kind \notin {"load", "save"}
      BY <2>3, <2>7 DEF Kept, Becomes
    <3>2. tasks'[i].kind = "save" /\ tasks'[i].document = d /\ tasks'[i].text = x /\ tasks'[i].step = stage
      BY <2>7 DEF Becomes
    <3>3. disk'[d] = y /\ \A f \in Files : f # d => disk'[f] = disk[f] /\ acknowledged[f] \subseteq disk[f]
      BY <2>1, <2>3, <2>7, <3>1 DEF Kept
    <3> QED BY <2>2, <2>3, <2>7, <3>1, <3>2, <3>3 DEF Kept
  <2>8. CASE tasks[i].kind = "save" /\ UNCHANGED disk /\ Becomes(i, "save", d, x, "failed")
    BY <2>2, <2>3, <2>8 DEF Kept, Becomes
  <2> QED BY <1>6, <2>1, <2>4, <2>5, <2>6, <2>7, <2>8, TaskStepFacts
<1>7. ASSUME NEW i \in Slots, WorkspaceLoaded(i)
      PROVE  Kept'
  <2>1. UNCHANGED <<shown, disk, acknowledged, hasty, save_failed>> /\ tasks[i].kind = "snapshot"
    BY <1>7 DEF WorkspaceLoaded, Answered
  <2>2. NoFileTask /\ Kept
    BY <2>1 DEF FlagInv, NoFileTask, KeptInv
  <2>3. CASE Becomes(i, "load", FirstFile, {}, "running")
    BY <2>1, <2>2, <2>3, KeptStart
  <2>4. CASE Becomes(i, "none", Empty, {}, "none")
    BY <2>1, <2>2, <2>4 DEF Kept, Becomes
  <2> QED BY <1>7, <2>3, <2>4, LoadedFacts
<1>8. ASSUME NEW i \in Slots, Over(i), FileLoaded(i) \/ ActiveFileSaved(i) \/ WorkflowRunFinished(i) \/ ChatCompleted(i)
      PROVE  Kept'
  <2>1. tasks'[i].kind = "none" /\ \A j \in Slots \ {i} : tasks'[j] = tasks[j]
    BY <1>8, OverFacts DEF WorkspaceTypeOK, Becomes
  <2>2. ~hasty /\ ~save_failed /\ UNCHANGED disk
    <3>1. CASE FileLoaded(i)
      BY <3>1 DEF FileLoaded
    <3>2. CASE ActiveFileSaved(i)
      BY <3>2 DEF ActiveFileSaved
    <3>3. CASE WorkflowRunFinished(i) \/ ChatCompleted(i)
      BY <3>3 DEF WorkflowRunFinished, ChatCompleted
    <3> QED BY <1>8, <3>1, <3>2, <3>3
  <2>3. Kept
    BY <2>2 DEF KeptInv
  <2>4. CASE FileLoaded(i)
    <3>1. /\ tasks[i].kind = "load" /\ UNCHANGED acknowledged
          /\ \/ active_document' = tasks[i].document /\ editor' = tasks[i].text /\ tasks[i].step = "ok"
             \/ UNCHANGED shown
      BY <2>4 DEF FileLoaded, Answered, Succeeded
    <3>2. \A j \in Slots : tasks'[j].kind \notin {"load", "save"}
      BY <2>1, <2>3, <3>1 DEF Kept
    <3>3. \A f \in Files : acknowledged[f] \subseteq disk[f]
      BY <2>1, <2>3, <3>1, <3>2 DEF Kept
    <3>4. \A f \in Files : active_document' = f => acknowledged[f] \subseteq editor'
      BY <2>3, <3>1 DEF Kept
    <3> QED BY <2>2, <3>1, <3>2, <3>3, <3>4 DEF Kept
  <2>5. CASE ActiveFileSaved(i)
    <3>1. /\ tasks[i].kind = "save" /\ UNCHANGED shown /\ tasks[i].step = "ok"
          /\ acknowledged' = [acknowledged EXCEPT ![tasks[i].document] = tasks[i].text]
      BY <2>5 DEF ActiveFileSaved, Answered, Succeeded
    <3>2. \A j \in Slots : tasks'[j].kind \notin {"load", "save"} /\ (tasks[j].kind = "save" => j = i)
      BY <2>1, <2>3, <3>1 DEF Kept
    <3>3. tasks[i].document \in Files /\ acknowledged \in [Files -> Text]
      BY <3>1 DEF TextInv, WorkspaceTypeOK
    <3>4. \A f \in Files : acknowledged'[f] \subseteq disk[f]
      BY <2>3, <3>1, <3>2, <3>3 DEF Kept
    <3>5. \A f \in Files : active_document = f => acknowledged'[f] \subseteq editor
      BY <2>3, <3>1, <3>3 DEF Kept
    <3> QED BY <2>2, <3>1, <3>2, <3>4, <3>5 DEF Kept
  <2>6. CASE WorkflowRunFinished(i) \/ ChatCompleted(i)
    <3>1. tasks[i].kind \notin {"load", "save"} /\ UNCHANGED <<shown, acknowledged>>
      BY <2>6 DEF WorkflowRunFinished, ChatCompleted, Answered
    <3> QED BY <2>1, <2>2, <2>3, <3>1 DEF Kept
  <2> QED BY <1>8, <2>4, <2>5, <2>6
<1>9. ASSUME NEW i \in Slots, update(i)
      PROVE  Kept'
  BY <1>7, <1>8, <1>9 DEF update, FileLoaded, ActiveFileSaved, WorkflowRunFinished, ChatCompleted
<1> QED BY <1>1, <1>2, <1>3, <1>4, <1>5, <1>6, <1>9 DEF Next, User
-----------------------------------------------------------------------------
LEMMA InitWorkspaceInv == Init => WorkspaceInv
<1> SUFFICES ASSUME Init PROVE WorkspaceInv
  OBVIOUS
<1>1. /\ active_document = Empty /\ editor = {} /\ workspace_loading = TRUE /\ file_loading = FALSE /\ file_saving = FALSE
      /\ assistant_loading = FALSE /\ workflow_running = Empty /\ typed = 0 /\ hasty = FALSE /\ save_failed = FALSE
      /\ acknowledged = [f \in Files |-> {}] /\ disk = [f \in Files |-> {<<f, 0>>}]
      /\ Empty \notin Files /\ 0 \in 0 .. MaxEdits
  BY DocumentAssumption, BoundAssumption DEF Init
<1>2. ASSUME NEW f \in Files
      PROVE  {<<f, 0>>} \in Text /\ {<<f, 0>>} \subseteq EditsOf(f)
  <2>1. <<f, 0>> \in Files \X (0 .. MaxEdits) /\ <<f, 0>> \in {f} \X (0 .. MaxEdits)
    BY <1>1
  <2> QED BY <2>1 DEF Text, Edits, EditsOf
<1>3. /\ tasks \in [Slots -> Task]
      /\ \A i \in Slots : tasks[i].kind \in {"snapshot", "none"} /\ (tasks[i].kind = "snapshot" => i = 1)
  <2> DEFINE o == NewTask("snapshot", Empty, {})
  <2>1. o \in Task /\ o.kind = "snapshot"
    BY NewTaskType DEF Text
  <2>2. tasks = [i \in Slots |-> IF i = 1 THEN o ELSE NoTask]
    BY DEF Init
  <2> HIDE DEF o
  <2> QED BY <2>1, <2>2, NoTaskType
<1>4. WorkspaceTypeOK
  <2>1. {} \in Text
    BY DEF Text
  <2> QED BY <1>1, <1>2, <1>3, <2>1 DEF WorkspaceTypeOK
<1>5. TextInv
  BY <1>1, <1>2, <1>3 DEF TextInv, TextsKeepApart
<1>6. FlagInv
  BY <1>1, <1>3 DEF FlagInv
<1>7. Kept
  BY <1>1, <1>3 DEF Kept
<1> QED BY <1>4, <1>5, <1>6, <1>7 DEF WorkspaceInv, KeptInv

LEMMA WorkspaceInvHolds == Spec => []WorkspaceInv
<1>1. WorkspaceInv /\ [Next]_vars => WorkspaceInv'
  <2>1. CASE Next
    BY <2>1, WorkspaceTypeKeeps, TextKeeps, FlagKeeps, KeptKeeps DEF WorkspaceInv
  <2>2. CASE UNCHANGED vars
    BY <2>2 DEF vars, shown, flags, history, WorkspaceInv, WorkspaceTypeOK, TextInv, TextsKeepApart, FlagInv, KeptInv, Kept
  <2> QED BY <2>1, <2>2
<1> QED BY InitWorkspaceInv, <1>1, PTL DEF Spec

(* Documents, flags, texts and tasks keep their types, however the answers of
   tasks overtake each other. *)
THEOREM WorkspaceTypeCorrect == Spec => []WorkspaceTypeOK
<1>1. WorkspaceInv => WorkspaceTypeOK
  BY DEF WorkspaceInv
<1> QED BY <1>1, WorkspaceInvHolds, PTL

(* Nothing typed in one file reaches another, or the assistant under another's
   name (workspace/mod.rs, update), for any number of files and tasks. *)
THEOREM TextsApart == Spec => []TextsKeepApart
<1>1. WorkspaceInv => TextsKeepApart
  BY DEF WorkspaceInv, TextInv
<1> QED BY <1>1, WorkspaceInvHolds, PTL

(* What was reported as saved is kept, for a user who opens nothing during a
   save or a load, however long he works. *)
THEOREM SavedKept == Spec => []SavedTextIsKept
<1>1. WorkspaceInv => SavedTextIsKept
  <2> SUFFICES ASSUME WorkspaceInv, ~hasty, ~save_failed, NEW f \in Files
               PROVE  /\ (\A i \in InFlight("save") : tasks[i].document # f) => acknowledged[f] \subseteq disk[f]
                      /\ active_document = f => acknowledged[f] \subseteq editor
    BY DEF SavedTextIsKept
  <2> QED BY DEF WorkspaceInv, KeptInv, Kept, InFlight
<1> QED BY <1>1, WorkspaceInvHolds, PTL
-----------------------------------------------------------------------------
(* The provider form. *)

Entries == [version : Nat, auth_method : {"ApiKey", "OpenAiOAuth"}]
Configured == UNION {[provider : S, providers : [S -> Entries]] : S \in SUBSET Presets}
Inputs == [preset_id : Presets \cup {""}, version : Nat]
SaveSteps == {"idle", "store", "read", "write", "ok", "failed"}
Saves == [step : SaveSteps, input : Inputs, config : {NoFile} \cup Configured]
Tests == [step : {"idle", "asked"}, input : Inputs, config : {NoFile}]
Chats == [step : {"idle", "config", "key", "sent"}, preset : Presets \cup {""}, entry : Entries,
          key : Nat \cup {NoKey}, crossed : BOOLEAN]

ProviderTypeOK ==
  /\ presets_shown \in BOOLEAN /\ modal_open \in BOOLEAN
  /\ current_provider \in Inputs /\ form \in Inputs /\ form_test_result \in Presets \cup {""}
  /\ save \in Saves /\ test \in Tests /\ chat \in Chats
  /\ config \in {NoFile, Torn} \cup Configured /\ vault \in [Presets -> Nat \cup {NoKey}]
  /\ versions \in Nat /\ crashes \in Nat /\ unsure \subseteq Presets

(* A configuration names a provider that it has an entry of. *)
LEMMA ConfiguredFacts ==
  ASSUME NEW c \in Configured
  PROVE  /\ c = Config(c.provider, c.providers) /\ DOMAIN c.providers \subseteq Presets /\ c.provider \in DOMAIN c.providers
         /\ \A p \in DOMAIN c.providers : c.providers[p] \in Entries
         /\ c \notin {NoFile, Torn}
<1>1. PICK S \in SUBSET Presets : c \in [provider : S, providers : [S -> Entries]]
  BY DEF Configured
<1>2. c = [provider |-> c.provider, providers |-> c.providers] /\ c.provider \in S /\ c.providers \in [S -> Entries]
  BY <1>1
<1>3. c.providers # [p \in {} |-> 0]
  BY <1>2
<1>4. c # NoFile /\ c # Torn
  <2>1. NoFile.providers = [p \in {} |-> 0] /\ Torn.providers = [p \in {} |-> 0]
    BY DEF NoFile, Torn, Config
  <2> QED BY <1>3, <2>1
<1> QED BY <1>2, <1>4 DEF Config

LEMMA ConfigType ==
  ASSUME NEW S \in SUBSET Presets, NEW p \in S, NEW providers \in [S -> Entries]
  PROVE  /\ Config(p, providers) \in Configured
         /\ Config(p, providers).provider = p /\ Config(p, providers).providers = providers
BY DEF Configured, Config

LEMMA InputType ==
  ASSUME NEW p \in Presets \cup {""}, NEW v \in Nat
  PROVE  Input(p, v) \in Inputs /\ Input(p, v).preset_id = p /\ Input(p, v).version = v
BY DEF Input, Inputs

LEMMA AtRestTypes ==
  /\ NoInput \in Inputs /\ NoInput.preset_id = "" /\ NoInput.version = 0
  /\ Idle \in Saves /\ Idle \in Tests /\ Idle.step = "idle" /\ Idle.input = NoInput /\ Idle.config = NoFile
  /\ NoChat \in Chats /\ NoChat.step = "idle" /\ NoChat.crossed = FALSE
BY DEF NoInput, Inputs, Idle, Saves, SaveSteps, Tests, NoChat, Chats, Entry, Entries

(* What the step of a save tells of the two places it writes to: the key is
   there first, the file is torn while it is written, and what ended badly is
   in unsure. *)
SaveInv ==
  /\ save.step = "idle" => save = Idle
  /\ save.step # "idle" => save.input.preset_id \in Presets
  /\ save.step \in {"read", "write", "ok"} => vault[save.input.preset_id] = save.input.version
  /\ save.step = "write" => config = Torn /\ save.config \in Configured
  /\ save.step = "ok" => config \in Configured
  /\ \A c \in {config, save.config} :
       (save.step = "write" /\ c = save.config) \/ (save.step = "ok" /\ c = config) =>
         /\ c.provider = save.input.preset_id
         /\ c.providers[c.provider] = Entry(save.input.version, "ApiKey")
  /\ save.step = "failed" => save.input.preset_id \in unsure

Fits(c) ==
  \A p \in DOMAIN c.providers : c.providers[p].auth_method = "ApiKey" =>
    /\ vault[p] # NoKey
    /\ p \notin unsure /\ save.input.preset_id # p => vault[p] = c.providers[p].version

FitInv == (config \in Configured => Fits(config)) /\ (save.step = "write" => Fits(save.config))

FormInv ==
  /\ modal_open => presets_shown /\ form.preset_id \in Presets
  /\ chat.step \in {"key", "sent"} => chat.preset \in Presets

(* A chat that no save has crossed has the entry and the key of one save. *)
ChatInv ==
  chat.step # "idle" /\ ~chat.crossed =>
    /\ save = Idle
    /\ chat.step = "key" /\ chat.entry.auth_method = "ApiKey" /\ chat.preset \notin unsure => vault[chat.preset] = chat.entry.version

ProviderInv == ProviderTypeOK /\ SaveInv /\ FitInv /\ FormInv /\ ShownProviderIsSaved /\ ChatInv /\ RequestsUseOneSave

LEMMA ReadableFacts ==
  ASSUME ProviderTypeOK
  PROVE  Readable <=> config \in Configured
BY ConfiguredFacts DEF ProviderTypeOK, Readable

LEMMA SaveGoesFacts ==
  ASSUME ProviderTypeOK, NEW stage \in SaveSteps, SaveGoes(stage)
  PROVE  /\ save' \in Saves /\ save'.step = stage /\ save'.input = save.input /\ save'.config = save.config
         /\ UNCHANGED <<form_vars, test, chat, versions, crashes>>
<1>1. save \in Saves
  BY DEF ProviderTypeOK
<1> QED BY <1>1 DEF SaveGoes, Saves

LEMMA OpenConfigFacts ==
  ASSUME ProviderTypeOK, SaveInv, OpenConfig
  PROVE  /\ save' \in Saves /\ save'.step = "write" /\ save'.input = save.input /\ save'.config = Updated
         /\ Updated \in Configured /\ Updated.provider = save.input.preset_id
         /\ Updated.providers[save.input.preset_id] = Entry(save.input.version, "ApiKey")
         /\ save.input.preset_id \in Presets
         /\ \A p \in DOMAIN Updated.providers : p # save.input.preset_id =>
              config \in Configured /\ p \in DOMAIN config.providers /\ Updated.providers[p] = config.providers[p]
<1> DEFINE id == save.input.preset_id
           new == provider_config_from_input
           S == Others \cup {id}
           e == [p \in S |-> IF p = id THEN new ELSE config.providers[p]]
<1>1. save \in Saves /\ save.input \in Inputs /\ id \in Presets /\ save' = [save EXCEPT !.step = "write", !.config = Updated]
  BY DEF ProviderTypeOK, SaveInv, OpenConfig, Saves
<1>2. Others \subseteq Presets /\ \A p \in Others : config \in Configured /\ p \in DOMAIN config.providers /\ config.providers[p] \in Entries
  BY ReadableFacts, ConfiguredFacts DEF Others
<1>3. new \in Entries /\ new = Entry(save.input.version, "ApiKey")
  BY <1>1 DEF provider_config_from_input, Entry, Entries, Inputs
<1> HIDE DEF new
<1>4. S \in SUBSET Presets /\ id \in S /\ e \in [S -> Entries]
  BY <1>1, <1>2, <1>3
<1>5. Updated = Config(id, e)
  BY DEF Updated, new
<1>6. Updated \in Configured /\ Updated.provider = id /\ Updated.providers = e
  BY <1>4, <1>5, ConfigType
<1>7. /\ DOMAIN e = S /\ e[id] = new
      /\ \A p \in S : p # id => p \in Others /\ e[p] = config.providers[p]
  BY <1>4
<1> HIDE DEF e, S
<1>8. save' \in Saves /\ save'.step = "write" /\ save'.input = save.input /\ save'.config = Updated
  BY <1>1, <1>6 DEF Saves, SaveSteps
<1> QED BY <1>1, <1>2, <1>3, <1>6, <1>7, <1>8

LEMMA ProviderTypeKeeps ==
  ASSUME ProviderTypeOK, SaveInv, FormInv, ProviderNext
  PROVE  ProviderTypeOK'
<1> USE DEF form_vars, stored
<1>1. /\ save \in Saves /\ form \in Inputs /\ current_provider \in Inputs /\ vault \in [Presets -> Nat \cup {NoKey}]
      /\ unsure \subseteq Presets /\ config \in {NoFile, Torn} \cup Configured /\ versions \in Nat /\ crashes \in Nat
      /\ chat \in Chats /\ test \in Tests
  BY DEF ProviderTypeOK
<1>2. /\ save.input \in Inputs /\ save.input.preset_id \in Presets \cup {""} /\ save.input.version \in Nat
      /\ save.config \in {NoFile} \cup Configured /\ test.input.preset_id \in Presets \cup {""}
  BY <1>1 DEF Saves, Inputs, Tests
<1>3. CASE ProviderLoaded
  <2>1. current_provider' \in Inputs
    <3>1. CASE config \in Configured
      <4>1. config.provider \in Presets /\ ActiveEntry.version \in Nat
        BY <3>1, ConfiguredFacts DEF ActiveEntry, Entries
      <4> QED BY <1>3, <4>1, InputType, AtRestTypes DEF ProviderLoaded
    <3>2. CASE config \notin Configured
      BY <1>3, <3>2, ReadableFacts, AtRestTypes DEF ProviderLoaded
    <3> QED BY <3>1, <3>2
  <2>2. form' \in Inputs
    <3>1. current_provider'.preset_id \in Presets \cup {""}
      BY <2>1 DEF Inputs
    <3>2. form' = [form EXCEPT !.preset_id = current_provider'.preset_id]
      BY <1>3 DEF ProviderLoaded
    <3> QED BY <1>1, <3>1, <3>2 DEF Inputs
  <2> QED BY <1>1, <1>3, <2>1, <2>2 DEF ProviderLoaded, ProviderTypeOK
<1>4. ASSUME NEW p \in Presets, OpenPresetForm(p)
      PROVE  ProviderTypeOK'
  <2>1. form' \in Inputs
    BY <1>1, <1>4, InputType DEF OpenPresetForm, Inputs
  <2> QED BY <1>1, <1>4, <2>1 DEF OpenPresetForm, ProviderTypeOK
<1>5. CASE CloseModal
  BY <1>5 DEF CloseModal, ProviderTypeOK
<1>6. CASE InputChanged
  <2>1. versions' \in Nat /\ form' = [form EXCEPT !.version = versions']
    BY <1>1, <1>6 DEF InputChanged
  <2>2. form' \in Inputs
    BY <1>1, <2>1 DEF Inputs
  <2> QED BY <1>6, <2>1, <2>2 DEF InputChanged, ProviderTypeOK
<1>7. CASE TestConnection
  <2>1. test' \in Tests
    BY <1>1, <1>7, AtRestTypes DEF TestConnection, Tests
  <2> QED BY <1>7, <2>1 DEF TestConnection, ProviderTypeOK
<1>8. CASE SaveProvider
  <2>1. save' \in Saves
    BY <1>1, <1>8, AtRestTypes DEF SaveProvider, Saves, SaveSteps
  <2>2. chat' \in Chats
    BY <1>1, <1>8 DEF SaveProvider, Chats
  <2> QED BY <1>8, <2>1, <2>2 DEF SaveProvider, ProviderTypeOK
<1>9. CASE ConnectionTested
  <2>1. test' \in Tests
    BY <1>9, AtRestTypes DEF ConnectionTested
  <2> QED BY <1>2, <1>9, <2>1 DEF ConnectionTested, ProviderTypeOK
<1>10. CASE StoreKey \/ WriteConfig \/ SaveFails
  <2>1. save' \in Saves /\ UNCHANGED <<form_vars, test, chat, versions, crashes>>
    BY <1>10, SaveGoesFacts DEF StoreKey, WriteConfig, SaveFails, SaveSteps
  <2>2. vault' \in [Presets -> Nat \cup {NoKey}]
    BY <1>1, <1>2, <1>10 DEF StoreKey, WriteConfig, SaveFails
  <2>3. config' \in {NoFile, Torn} \cup Configured
    BY <1>1, <1>2, <1>10 DEF StoreKey, WriteConfig, SaveFails
  <2>4. unsure' \subseteq Presets
    BY <1>1, <1>10 DEF StoreKey, WriteConfig, SaveFails, SaveInv
  <2> QED BY <2>1, <2>2, <2>3, <2>4 DEF ProviderTypeOK
<1>11. CASE OpenConfig
  <2>1. save' \in Saves /\ config' = Torn /\ UNCHANGED <<form_vars, test, chat, vault, versions, crashes, unsure>>
    BY <1>11, OpenConfigFacts DEF OpenConfig
  <2> QED BY <2>1 DEF ProviderTypeOK
<1>12. CASE ProviderSaved
  <2>1. save' \in Saves
    BY <1>12, AtRestTypes DEF ProviderSaved
  <2> QED BY <1>2, <1>12, <2>1 DEF ProviderSaved, ProviderTypeOK
<1>13. CASE run_assistant
  <2>1. UNCHANGED <<form_vars, save, test, stored, versions, crashes, unsure>>
    BY <1>13 DEF run_assistant, AskAssistant, LoadForChat, provider_from_config, ChatAnswered
  <2>2. chat' \in Chats
    <3>1. CASE chat' = NoChat
      BY <3>1, AtRestTypes
    <3>2. CASE AskAssistant
      BY <3>2, AtRestTypes DEF AskAssistant, Chats
    <3>3. CASE LoadForChat /\ chat' # NoChat
      <4>1. config.provider \in Presets /\ ActiveEntry \in Entries
        BY <3>3, ReadableFacts, ConfiguredFacts DEF LoadForChat, ActiveEntry
      <4> QED BY <1>1, <3>3, <4>1 DEF LoadForChat, Chats
    <3>4. CASE provider_from_config /\ chat' # NoChat
      <4>1. PICK k \in Nat \cup {NoKey} : chat' = [chat EXCEPT !.step = "sent", !.key = k]
        <5>1. chat.preset \in Presets /\ chat.entry.version \in Nat
          BY <1>1, <3>4 DEF FormInv, provider_from_config, Chats, Entries
        <5>2. vault[chat.preset] \in Nat \cup {NoKey}
          BY <1>1, <5>1
        <5> QED BY <3>4, <5>1, <5>2 DEF provider_from_config, api_key_ref
      <4> QED BY <1>1, <4>1 DEF Chats
    <3> QED BY <1>13, <3>1, <3>2, <3>3, <3>4 DEF run_assistant, ChatAnswered
  <2> QED BY <2>1, <2>2 DEF ProviderTypeOK
<1>14. CASE Restart
  <2>1. unsure' \subseteq Presets
    BY <1>1, <1>14 DEF Restart, SaveInv
  <2>2. crashes' \in Nat /\ UNCHANGED <<stored, versions>>
    <3>1. crashes' = crashes + 1 /\ UNCHANGED stored /\ UNCHANGED versions
      BY <1>14 DEF Restart
    <3>2. crashes' \in Nat
      BY <1>1, <3>1
    <3> QED BY <3>1, <3>2
  <2>3. /\ presets_shown' = FALSE /\ current_provider' = NoInput /\ form' = NoInput /\ modal_open' = FALSE /\ form_test_result' = ""
        /\ save' = Idle /\ test' = Idle /\ chat' = NoChat
    BY <1>14 DEF Restart
  <2> QED BY <1>1, <2>1, <2>2, <2>3, AtRestTypes DEF ProviderTypeOK
<1> QED BY <1>3, <1>4, <1>5, <1>6, <1>7, <1>8, <1>9, <1>10, <1>11, <1>12, <1>13, <1>14 DEF ProviderNext, Form, save_provider
-----------------------------------------------------------------------------
(* What the steps keep, one group of them after the other. *)

LEMMA ProviderFields ==
  ASSUME ProviderTypeOK
  PROVE  /\ save.step \in SaveSteps /\ save.input.preset_id \in Presets \cup {""} /\ save.input.version \in Nat
         /\ save.input.version # NoKey /\ save.input = Input(save.input.preset_id, save.input.version)
         /\ vault \in [Presets -> Nat \cup {NoKey}] /\ "" \notin Presets
         /\ Idle.input.preset_id = "" /\ Idle.step = "idle" /\ Idle \in Saves
<1>1. save \in Saves /\ save.input \in Inputs /\ vault \in [Presets -> Nat \cup {NoKey}]
  BY DEF ProviderTypeOK, Saves
<1>2. save.input.version \in Nat /\ save.input = Input(save.input.preset_id, save.input.version)
      /\ save.input.preset_id \in Presets \cup {""}
  BY <1>1 DEF Inputs, Input
<1>3. save.input.version # NoKey
  <2>1. \A n \in Nat : n # 0 - 1
    OBVIOUS
  <2> QED BY <1>2, <2>1 DEF NoKey
<1> QED BY <1>1, <1>2, <1>3, AtRestTypes, PresetsAssumption DEF Saves

(* The form: what is stored, a save and a chat are left alone. *)
LEMMA FormKeeps ==
  ASSUME ProviderInv,
         ProviderLoaded \/ (\E p \in Presets : OpenPresetForm(p)) \/ CloseModal \/ InputChanged \/ TestConnection \/ ConnectionTested
  PROVE  SaveInv' /\ FitInv' /\ FormInv' /\ ShownProviderIsSaved' /\ ChatInv' /\ RequestsUseOneSave'
<1> USE DEF form_vars, stored, ProviderInv
<1>1. UNCHANGED <<save, stored, unsure, chat>>
  BY DEF ProviderLoaded, OpenPresetForm, CloseModal, InputChanged, TestConnection, ConnectionTested
<1>2. SaveInv' /\ FitInv' /\ ChatInv' /\ RequestsUseOneSave'
  BY <1>1 DEF SaveInv, FitInv, Fits, ChatInv, RequestsUseOneSave
<1>3. FormInv'
  <2>1. CASE ProviderLoaded
    BY <1>1, <2>1 DEF ProviderLoaded, FormInv
  <2>2. ASSUME NEW p \in Presets, OpenPresetForm(p)
        PROVE  FormInv'
    <3>1. form'.preset_id = p
      <4>1. form' = Input(p, IF current_provider.preset_id = p THEN current_provider.version ELSE 0)
        BY <2>2 DEF OpenPresetForm
      <4> QED BY <4>1 DEF Input
    <3> QED BY <1>1, <2>2, <3>1 DEF OpenPresetForm, FormInv
  <2>3. CASE CloseModal
    BY <1>1, <2>3 DEF CloseModal, FormInv
  <2>4. CASE InputChanged
    <3>1. form'.preset_id = form.preset_id /\ UNCHANGED <<presets_shown, modal_open>>
      <4>1. form \in Inputs /\ form' = [form EXCEPT !.version = versions'] /\ UNCHANGED <<presets_shown, modal_open>>
        BY <2>4 DEF InputChanged, ProviderTypeOK
      <4> QED BY <4>1 DEF Inputs
    <3> QED BY <1>1, <3>1 DEF FormInv
  <2>5. CASE TestConnection \/ ConnectionTested
    <3>1. UNCHANGED <<presets_shown, form, modal_open>>
      BY <2>5 DEF TestConnection, ConnectionTested
    <3> QED BY <1>1, <3>1 DEF FormInv
  <2> QED BY <2>1, <2>2, <2>3, <2>4, <2>5
<1>4. ShownProviderIsSaved'
  <2>1. CASE ProviderLoaded
    BY <1>1, <2>1 DEF ProviderLoaded, ShownProviderIsSaved, ActiveEntry
  <2>2. CASE UNCHANGED <<presets_shown, current_provider>>
    BY <1>1, <2>2 DEF ShownProviderIsSaved, ActiveEntry
  <2> QED BY <2>1, <2>2 DEF OpenPresetForm, CloseModal, InputChanged, TestConnection, ConnectionTested
<1> QED BY <1>2, <1>3, <1>4

LEMMA SaveStarts ==
  ASSUME ProviderInv, SaveProvider
  PROVE  SaveInv' /\ FitInv' /\ FormInv' /\ ShownProviderIsSaved' /\ ChatInv' /\ RequestsUseOneSave'
<1> USE DEF form_vars, stored, ProviderInv
<1>1. /\ save = Idle /\ modal_open /\ save' = [Idle EXCEPT !.step = "store", !.input = form]
      /\ chat' = [chat EXCEPT !.crossed = chat # NoChat] /\ UNCHANGED <<form_vars, stored, unsure>>
  BY DEF SaveProvider
<1>2. save'.step = "store" /\ save'.input = form /\ form.preset_id \in Presets
  BY <1>1 DEF Idle, FormInv
<1>3. chat'.step = chat.step /\ chat'.preset = chat.preset /\ (chat.step # "idle" => chat'.crossed)
  <2>1. chat \in Chats
    BY DEF ProviderTypeOK
  <2> QED BY <1>1, <2>1, AtRestTypes DEF Chats
<1>4. SaveInv'
  BY <1>2 DEF SaveInv
<1>5. FitInv'
  <2>1. \A p \in Presets : p # save.input.preset_id
    BY <1>1, ProviderFields
  <2>2. config \in Configured => DOMAIN config.providers \subseteq Presets
    BY ConfiguredFacts
  <2> QED BY <1>1, <1>2, <2>1, <2>2 DEF FitInv, Fits
<1>6. FormInv' /\ ShownProviderIsSaved'
  BY <1>1, <1>2, <1>3, ProviderFields DEF FormInv, ShownProviderIsSaved, ActiveEntry
<1>7. ChatInv' /\ RequestsUseOneSave'
  BY <1>3 DEF ChatInv, RequestsUseOneSave
<1> QED BY <1>4, <1>5, <1>6, <1>7

(* While a save is under way no chat that it has not crossed is. *)
LEMMA Crossed ==
  ASSUME ChatInv, save # Idle, UNCHANGED chat
  PROVE  ChatInv' /\ RequestsUseOneSave'
BY DEF ChatInv, RequestsUseOneSave

LEMMA SaveKeeps ==
  ASSUME ProviderInv, save_provider
  PROVE  SaveInv' /\ FitInv' /\ FormInv' /\ ShownProviderIsSaved' /\ ChatInv' /\ RequestsUseOneSave'
<1> USE DEF form_vars, stored, ProviderInv
<1> DEFINE id == save.input.preset_id
<1>1. save.step \in {"store", "read", "write"} /\ id \in Presets /\ save # Idle
  BY AtRestTypes DEF save_provider, StoreKey, OpenConfig, WriteConfig, SaveFails, SaveInv
<1>2. UNCHANGED <<form_vars, chat>>
  BY SaveGoesFacts DEF save_provider, StoreKey, OpenConfig, WriteConfig, SaveFails, SaveSteps
<1>3. FormInv' /\ ChatInv' /\ RequestsUseOneSave'
  BY <1>1, <1>2, Crossed DEF FormInv
<1>4. CASE StoreKey
  <2>1. /\ save.step = "store" /\ save'.step = "read" /\ save'.input = save.input
        /\ vault' = [vault EXCEPT ![id] = save.input.version] /\ UNCHANGED <<config, unsure>>
    BY <1>4, SaveGoesFacts DEF StoreKey, SaveSteps, api_key_ref
  <2>2. vault'[id] = save.input.version /\ vault'[id] # NoKey /\ \A p \in Presets \ {id} : vault'[p] = vault[p]
    BY <1>1, <2>1, ProviderFields
  <2>3. SaveInv'
    BY <1>1, <2>1, <2>2 DEF SaveInv
  <2>4. FitInv'
    <3>1. config \in Configured => DOMAIN config.providers \subseteq Presets
      BY ConfiguredFacts
    <3> QED BY <2>1, <2>2, <3>1 DEF FitInv, Fits
  <2>5. ShownProviderIsSaved'
    BY <1>2, <2>1 DEF ShownProviderIsSaved, ActiveEntry
  <2> QED BY <1>3, <2>3, <2>4, <2>5
<1>5. CASE OpenConfig
  <2>1. /\ save.step = "read" /\ save'.step = "write" /\ save'.input = save.input /\ save'.config = Updated
        /\ config' = Torn /\ UNCHANGED <<vault, unsure>>
    BY <1>5, OpenConfigFacts DEF OpenConfig
  <2>2. vault[id] = save.input.version /\ vault[id] # NoKey
    BY <2>1, ProviderFields DEF SaveInv
  <2>3. SaveInv'
    BY <1>1, <1>5, <2>1, <2>2, OpenConfigFacts DEF SaveInv
  <2>4. FitInv'
    <3>1. Torn \notin Configured
      BY ConfiguredFacts
    <3>2. \A p \in DOMAIN Updated.providers : p # id =>
            config \in Configured /\ p \in DOMAIN config.providers /\ Updated.providers[p] = config.providers[p]
      BY <1>5, OpenConfigFacts
    <3>3. \A p \in DOMAIN Updated.providers : Updated.providers[p].auth_method = "ApiKey" =>
            vault[p] # NoKey /\ (p \notin unsure /\ id # p => vault[p] = Updated.providers[p].version)
      BY <2>2, <3>2 DEF FitInv, Fits
    <3> QED BY <2>1, <3>1, <3>3 DEF FitInv, Fits
  <2>5. ShownProviderIsSaved'
    BY <2>1 DEF ShownProviderIsSaved
  <2> QED BY <1>3, <2>3, <2>4, <2>5
<1>6. CASE WriteConfig
  <2>1. /\ save.step = "write" /\ save'.step = "ok" /\ save'.input = save.input /\ save'.config = save.config
        /\ config' = save.config /\ unsure' = unsure \ {id} /\ UNCHANGED vault
    BY <1>6, SaveGoesFacts DEF WriteConfig, SaveSteps
  <2>2. SaveInv'
    BY <1>1, <2>1 DEF SaveInv
  <2>3. FitInv'
    BY <2>1 DEF FitInv, Fits
  <2>4. ShownProviderIsSaved'
    BY <2>1 DEF ShownProviderIsSaved
  <2> QED BY <1>3, <2>2, <2>3, <2>4
<1>7. CASE SaveFails
  <2>1. /\ save'.step = "failed" /\ save'.input = save.input /\ unsure' = unsure \cup {id} /\ UNCHANGED <<config, vault>>
    BY <1>7, SaveGoesFacts DEF SaveFails, SaveSteps
  <2>2. SaveInv'
    BY <1>1, <2>1 DEF SaveInv
  <2>3. FitInv'
    BY <2>1 DEF FitInv, Fits
  <2>4. ShownProviderIsSaved'
    BY <1>1, <1>2, <2>1 DEF ShownProviderIsSaved, ActiveEntry, SaveInv
  <2> QED BY <1>3, <2>2, <2>3, <2>4
<1> QED BY <1>4, <1>5, <1>6, <1>7 DEF save_provider

(* A save that is over: its key is the one of the entry, unless it failed. *)
LEMMA SaveOver ==
  ASSUME ProviderInv, save.step # "write", save' = Idle, UNCHANGED stored, unsure \subseteq unsure',
         save.step \in {"store", "read"} => save.input.preset_id \in unsure'
  PROVE  SaveInv' /\ FitInv'
<1> USE DEF stored, ProviderInv
<1>1. SaveInv'
  BY ProviderFields DEF SaveInv
<1>2. FitInv'
  <2> SUFFICES ASSUME config \in Configured, NEW p \in DOMAIN config.providers, config.providers[p].auth_method = "ApiKey"
               PROVE  vault[p] # NoKey /\ (p \notin unsure' => vault[p] = config.providers[p].version)
    BY ProviderFields DEF FitInv, Fits
  <2>1. p \in Presets /\ vault[p] # NoKey /\ (p \notin unsure /\ save.input.preset_id # p => vault[p] = config.providers[p].version)
    BY ConfiguredFacts DEF FitInv, Fits
  <2>2. CASE save.input.preset_id = p /\ p \notin unsure'
    <3>1. save.step = "ok"
      BY <2>1, <2>2, ProviderFields DEF SaveInv, SaveSteps
    <3>2. vault[p] = save.input.version /\ config.providers[p] = Entry(save.input.version, "ApiKey")
      BY <2>2, <3>1 DEF SaveInv
    <3> QED BY <2>1, <3>2 DEF Entry
  <2> QED BY <2>1, <2>2
<1> QED BY <1>1, <1>2

LEMMA SavedKeeps ==
  ASSUME ProviderInv, ProviderSaved
  PROVE  SaveInv' /\ FitInv' /\ FormInv' /\ ShownProviderIsSaved' /\ ChatInv' /\ RequestsUseOneSave'
<1> USE DEF form_vars, stored, ProviderInv
<1>1. save.step \in {"ok", "failed"} /\ save' = Idle /\ UNCHANGED <<chat, stored, unsure>>
  BY DEF ProviderSaved
<1>2. SaveInv' /\ FitInv'
  BY <1>1, SaveOver
<1>3. ChatInv' /\ RequestsUseOneSave'
  BY <1>1, AtRestTypes, Crossed
<1>4. FormInv'
  BY <1>1 DEF ProviderSaved, FormInv
<1>5. ShownProviderIsSaved'
  <2>1. CASE save.step = "failed"
    BY <1>1, <2>1 DEF ProviderSaved, ShownProviderIsSaved, ActiveEntry
  <2>2. CASE save.step = "ok"
    <3>1. current_provider' = save.input
      BY <2>2 DEF ProviderSaved
    <3>2. config.provider = save.input.preset_id /\ ActiveEntry = Entry(save.input.version, "ApiKey")
      BY <2>2 DEF SaveInv, ActiveEntry
    <3>3. ActiveEntry.version = save.input.version
      BY <3>2 DEF Entry
    <3> QED BY <1>1, <3>1, <3>2, <3>3, ProviderFields DEF ShownProviderIsSaved, ActiveEntry
  <2> QED BY <1>1, <2>1, <2>2
<1> QED BY <1>2, <1>3, <1>4, <1>5

LEMMA ChatKeeps ==
  ASSUME ProviderInv, run_assistant
  PROVE  SaveInv' /\ FitInv' /\ FormInv' /\ ShownProviderIsSaved' /\ ChatInv' /\ RequestsUseOneSave'
<1> USE DEF form_vars, stored, ProviderInv
<1>1. UNCHANGED <<form_vars, save, stored, unsure>> /\ chat \in Chats
  BY DEF run_assistant, AskAssistant, LoadForChat, provider_from_config, ChatAnswered, ProviderTypeOK
<1>2. SaveInv' /\ FitInv' /\ ShownProviderIsSaved'
  BY <1>1 DEF SaveInv, FitInv, Fits, ShownProviderIsSaved, ActiveEntry
<1>3. CASE chat' = NoChat
  <2>1. FormInv' /\ ChatInv' /\ RequestsUseOneSave'
    BY <1>1, <1>3, AtRestTypes DEF FormInv, ChatInv, RequestsUseOneSave
  <2> QED BY <1>2, <2>1
<1>4. CASE AskAssistant
  <2>1. chat'.step = "config" /\ chat'.crossed = (save # Idle)
    BY <1>4, AtRestTypes DEF AskAssistant, Chats
  <2> QED BY <1>1, <1>2, <2>1 DEF FormInv, ChatInv, RequestsUseOneSave
<1>5. CASE LoadForChat /\ chat' # NoChat
  <2>1. /\ chat.step = "config" /\ config \in Configured
        /\ chat' = [chat EXCEPT !.step = "key", !.preset = config.provider, !.entry = ActiveEntry]
    BY <1>5, ReadableFacts DEF LoadForChat
  <2>2. chat'.step = "key" /\ chat'.preset = config.provider /\ chat'.entry = ActiveEntry /\ chat'.crossed = chat.crossed
    BY <1>1, <2>1 DEF Chats
  <2>3. config.provider \in DOMAIN config.providers /\ config.provider \in Presets
    BY <2>1, ConfiguredFacts
  <2>4. ASSUME ~chat.crossed, ActiveEntry.auth_method = "ApiKey", config.provider \notin unsure
        PROVE  vault[config.provider] = ActiveEntry.version
    <3>1. save.input.preset_id # config.provider
      BY <2>1, <2>3, <2>4, ProviderFields DEF ChatInv
    <3> QED BY <2>1, <2>3, <2>4, <3>1 DEF FitInv, Fits, ActiveEntry
  <2> QED BY <1>1, <1>2, <2>1, <2>2, <2>3, <2>4 DEF FormInv, ChatInv, RequestsUseOneSave
<1>6. CASE provider_from_config /\ chat' # NoChat
  <2>1. /\ chat.step = "key"
        /\ \/ chat' = [chat EXCEPT !.step = "sent", !.key = chat.entry.version]
           \/ chat.entry.auth_method = "ApiKey" /\ chat' = [chat EXCEPT !.step = "sent", !.key = vault[chat.preset]]
    BY <1>6 DEF provider_from_config, api_key_ref
  <2>2. /\ chat'.step = "sent" /\ chat'.preset = chat.preset /\ chat'.entry = chat.entry /\ chat'.crossed = chat.crossed
        /\ \/ chat'.key = chat.entry.version
           \/ chat.entry.auth_method = "ApiKey" /\ chat'.key = vault[chat.preset]
    BY <1>1, <2>1 DEF Chats
  <2> QED BY <1>1, <1>2, <2>1, <2>2 DEF FormInv, ChatInv, RequestsUseOneSave
<1> QED BY <1>3, <1>4, <1>5, <1>6 DEF run_assistant, ChatAnswered

LEMMA RestartKeeps ==
  ASSUME ProviderInv, Restart
  PROVE  SaveInv' /\ FitInv' /\ FormInv' /\ ShownProviderIsSaved' /\ ChatInv' /\ RequestsUseOneSave'
<1>1. /\ save' = Idle /\ presets_shown' = FALSE /\ modal_open' = FALSE /\ chat' = NoChat /\ UNCHANGED stored
      /\ unsure' = unsure \cup (IF save.step \in {"store", "read", "write"} THEN {save.input.preset_id} ELSE {})
  BY DEF Restart
<1>2. FormInv' /\ ShownProviderIsSaved' /\ ChatInv' /\ RequestsUseOneSave'
  BY <1>1, AtRestTypes DEF FormInv, ShownProviderIsSaved, ChatInv, RequestsUseOneSave
<1>3. CASE save.step # "write"
  BY <1>1, <1>2, <1>3, SaveOver
<1>4. CASE save.step = "write"
  <2>1. config \notin Configured
    BY <1>4, ConfiguredFacts DEF ProviderInv, SaveInv
  <2> QED BY <1>1, <1>2, <2>1, AtRestTypes DEF SaveInv, FitInv, stored
<1> QED BY <1>3, <1>4

LEMMA InitProviderInv == ProviderInit => ProviderInv
<1> SUFFICES ASSUME ProviderInit PROVE ProviderInv
  OBVIOUS
<1>1. /\ presets_shown = FALSE /\ current_provider = NoInput /\ form = NoInput /\ modal_open = FALSE /\ form_test_result = ""
      /\ save = Idle /\ test = Idle /\ chat = NoChat /\ versions = 0 /\ crashes = 0 /\ unsure = {}
      /\ vault = [p \in Presets |-> NoKey]
  BY DEF ProviderInit
<1>2. config = NoFile \/ (config \in Configured /\ \A p \in DOMAIN config.providers : config.providers[p].auth_method = "OpenAiOAuth")
  <2> SUFFICES ASSUME NEW p \in Presets, config = Config(p, [q \in {p} |-> Entry(0, "OpenAiOAuth")])
               PROVE  config \in Configured /\ \A q \in DOMAIN config.providers : config.providers[q].auth_method = "OpenAiOAuth"
    BY DEF ProviderInit
  <2> DEFINE e == [q \in {p} |-> Entry(0, "OpenAiOAuth")]
  <2>1. Entry(0, "OpenAiOAuth") \in Entries /\ Entry(0, "OpenAiOAuth").auth_method = "OpenAiOAuth"
    BY DEF Entry, Entries
  <2>2. e \in [{p} -> Entries] /\ {p} \in SUBSET Presets /\ p \in {p} /\ \A q \in DOMAIN e : e[q].auth_method = "OpenAiOAuth"
    BY <2>1
  <2> HIDE DEF e
  <2> QED BY <2>2, ConfigType DEF e
<1>3. ProviderTypeOK
  BY <1>1, <1>2, AtRestTypes DEF ProviderTypeOK
<1>4. SaveInv /\ FormInv /\ ShownProviderIsSaved /\ ChatInv /\ RequestsUseOneSave
  BY <1>1, AtRestTypes DEF SaveInv, FormInv, ShownProviderIsSaved, ChatInv, RequestsUseOneSave
<1>5. FitInv
  <2>1. save.step # "write" /\ NoFile \notin Configured
    BY <1>1, AtRestTypes, ConfiguredFacts
  <2> QED BY <1>2, <2>1 DEF FitInv, Fits
<1> QED BY <1>3, <1>4, <1>5 DEF ProviderInv

LEMMA ProviderInvHolds == ProviderSpec => []ProviderInv
<1>1. ProviderInv /\ [ProviderNext]_provider_vars => ProviderInv'
  <2> SUFFICES ASSUME ProviderInv, [ProviderNext]_provider_vars
               PROVE  ProviderInv'
    OBVIOUS
  <2>1. CASE ProviderNext
    <3>1. ProviderTypeOK'
      BY <2>1, ProviderTypeKeeps DEF ProviderInv
    <3>2. SaveInv' /\ FitInv' /\ FormInv' /\ ShownProviderIsSaved' /\ ChatInv' /\ RequestsUseOneSave'
      BY <2>1, FormKeeps, SaveStarts, SaveKeeps, SavedKeeps, ChatKeeps, RestartKeeps DEF ProviderNext, Form
    <3> QED BY <3>1, <3>2 DEF ProviderInv
  <2>2. CASE UNCHANGED provider_vars
    <3>1. UNCHANGED <<presets_shown, current_provider, form, modal_open, form_test_result>>
          /\ UNCHANGED <<save, test, chat, config, vault, versions, crashes, unsure>>
      BY <2>2 DEF provider_vars, form_vars, stored
    <3>2. ProviderTypeOK'
      BY <3>1 DEF ProviderInv, ProviderTypeOK
    <3>3. SaveInv' /\ FitInv'
      BY <3>1 DEF ProviderInv, SaveInv, FitInv, Fits
    <3>4. FormInv' /\ ChatInv'
      BY <3>1 DEF ProviderInv, FormInv, ChatInv
    <3>5. ShownProviderIsSaved' /\ RequestsUseOneSave'
      BY <3>1 DEF ProviderInv, ShownProviderIsSaved, ActiveEntry, RequestsUseOneSave
    <3> QED BY <3>2, <3>3, <3>4, <3>5 DEF ProviderInv
  <2> QED BY <2>1, <2>2
<1> QED BY InitProviderInv, <1>1, PTL DEF ProviderSpec

(* The form, the save, the chat, the file and the keyring keep their types. *)
THEOREM ProviderTypeCorrect == ProviderSpec => []ProviderTypeOK
<1>1. ProviderInv => ProviderTypeOK
  BY DEF ProviderInv
<1> QED BY <1>1, ProviderInvHolds, PTL

(* The configuration names no provider whose key is not stored, and key,
   endpoint and model of a save that ended well are of one form
   (backend.rs:305), whatever fails or ends between the two writes. *)
THEOREM KeysFit == ProviderSpec => []KeysFitTheConfig
<1>1. ProviderInv => KeysFitTheConfig
  BY ReadableFacts DEF ProviderInv, FitInv, Fits, KeysFitTheConfig, api_key_ref
<1> QED BY <1>1, ProviderInvHolds, PTL

(* The provider shown is the one of the file (workspace/mod.rs:432). *)
THEOREM ShownIsSaved == ProviderSpec => []ShownProviderIsSaved
<1>1. ProviderInv => ShownProviderIsSaved
  BY DEF ProviderInv
<1> QED BY <1>1, ProviderInvHolds, PTL

(* A request that no save has crossed carries the key that was saved with its
   endpoint (backend.rs:384). *)
THEOREM OneSave == ProviderSpec => []RequestsUseOneSave
<1>1. ProviderInv => RequestsUseOneSave
  BY DEF ProviderInv
<1> QED BY <1>1, ProviderInvHolds, PTL

-----------------------------------------------------------------------------
(* The agent behind the assistant.  A run stops at its limit and reports the
   tools it has called itself, whatever the limit, the tools and the answers of
   the model.  The counters are tied to the place where run is (Counted): the
   n-th iteration has asked the model n times, and called n tools once it is
   acting.  The trail grows with the calls (TrailInv), provided that it starts
   empty. *)
Counted ==
  /\ at = "started" => iteration = 0 /\ completions = 0 /\ called = <<>>
  /\ at = "completing" => /\ iteration < max_iterations
                          /\ completions = iteration + 1
                          /\ Len(called) = iteration
  /\ at = "acting" => /\ iteration < max_iterations
                      /\ completions = iteration + 1
                      /\ Len(called) = iteration + 1
                      /\ tool \in Names

IInv == TypeOK /\ Counted /\ StopsAtTheLimit

LEMMA EmptyTrail == <<>> \in Seq(Invocation) /\ <<>> \in Seq(Names) /\ Len(<<>>) = 0
OBVIOUS

LEMMA InitInv == LoopInit => IInv
BY IterationAssumption, RunAssumption, EmptyTrail
   DEF LoopInit, IInv, TypeOK, Counted, StopsAtTheLimit, AgentState, Output

LEMMA RunKeeps == IInv /\ Run => IInv'
<1> SUFFICES ASSUME IInv, Run PROVE IInv'
  OBVIOUS
<1>1. TypeOK'
  BY RunAssumption, EmptyTrail DEF IInv, TypeOK, Run, AgentState
<1>2. Counted' /\ StopsAtTheLimit'
  BY IterationAssumption, EmptyTrail DEF IInv, TypeOK, Run, Counted, StopsAtTheLimit
<1> QED BY <1>1, <1>2 DEF IInv

(* A run that ends with a value of its own kind, its counters within bounds. *)
LEMMA ReturnKeeps ==
  ASSUME IInv, NEW final \in AgentState, NEW kind \in {"answer", "limit", "error"},
         NEW invocations \in Seq(Invocation), Return(final, kind, invocations),
         tool_invocations' \in Seq(Invocation), tool' \in Names \cup {"none"},
         UNCHANGED <<max_iterations, iteration, called, completions, runs>>,
         kind = "limit" => Len(called) = max_iterations /\ completions = max_iterations
  PROVE  IInv'
<1>1. TypeOK'
  <2>1. output' \in Output
    BY DEF Return, Output
  <2> QED BY <2>1 DEF IInv, TypeOK, Return
<1>2. Counted' /\ StopsAtTheLimit'
  BY DEF IInv, Counted, StopsAtTheLimit, Return
<1> QED BY <1>1, <1>2 DEF IInv

LEMMA LoopKeeps == IInv /\ Loop => IInv'
<1> SUFFICES ASSUME IInv, Loop PROVE IInv'
  OBVIOUS
<1> USE DEF IInv
<1>1. CASE Think
  <2>1. TypeOK'
    BY <1>1 DEF TypeOK, Think, AgentState
  <2>2. Counted' /\ StopsAtTheLimit'
    BY <1>1, EmptyTrail DEF TypeOK, Think, Counted, StopsAtTheLimit
  <2> QED BY <2>1, <2>2
<1>2. CASE NoIterations
  BY <1>2, ReturnKeeps, EmptyTrail DEF NoIterations, TypeOK, AgentState
<1>3. CASE ProviderFails
  BY <1>3, ReturnKeeps, EmptyTrail DEF ProviderFails, TypeOK
<1>4. CASE Answer
  BY <1>4, ReturnKeeps DEF Answer, TypeOK, AgentState
<1>5. ASSUME NEW t \in Names, CallTool(t)
      PROVE  IInv'
  <2>1. called \in Seq(Names) /\ called' = Append(called, t)
    BY <1>5 DEF TypeOK, CallTool
  <2>2. called' \in Seq(Names) /\ Len(called') = Len(called) + 1
    BY <2>1
  <2>3. TypeOK'
    BY <1>5, <2>2 DEF TypeOK, CallTool, AgentState
  <2>4. Counted' /\ StopsAtTheLimit'
    BY <1>5, <2>2 DEF TypeOK, CallTool, Counted, StopsAtTheLimit
  <2> QED BY <2>3, <2>4
<1>6. ASSUME NEW ok \in BOOLEAN, ToolReturns(ok)
      PROVE  IInv'
  <2>1. /\ at = "acting" /\ tool \in Names /\ iteration < max_iterations
        /\ completions = iteration + 1 /\ Len(called) = iteration + 1
        /\ iteration \in Nat /\ max_iterations \in Nat
    BY <1>6, IterationAssumption DEF ToolReturns, Counted, TypeOK
  <2>2. tool_invocations' \in Seq(Invocation)
    <3>1. tool_invocations \in Seq(Invocation)
      BY DEF TypeOK
    <3>2. tool \in Tools => [tool |-> tool, ok |-> ok] \in Invocation
      BY DEF Invocation
    <3> QED BY <1>6, <3>1, <3>2 DEF ToolReturns, Recorded
  <2>3. CASE iteration + 1 >= max_iterations
    <3>1. Return("Failed", "limit", tool_invocations')
          /\ UNCHANGED <<max_iterations, iteration, called, completions, runs>>
          /\ tool' = "none"
      BY <1>6, <2>3 DEF ToolReturns
    <3>2. Len(called) = max_iterations /\ completions = max_iterations
      BY <2>1, <2>3
    <3>3. "Failed" \in AgentState
      BY DEF AgentState
    <3> QED BY <3>1, <3>2, <3>3, <2>2, ReturnKeeps
  <2>4. CASE ~ (iteration + 1 >= max_iterations)
    <3>1. /\ at' = "completing" /\ state' = "Thinking" /\ tool' = "none"
          /\ iteration' = iteration + 1 /\ completions' = completions + 1
          /\ UNCHANGED <<max_iterations, output, called, runs>>
      BY <1>6, <2>4 DEF ToolReturns
    <3>2. TypeOK'
      BY <3>1, <2>1, <2>2 DEF TypeOK, AgentState
    <3>3. Counted' /\ StopsAtTheLimit'
      BY <3>1, <2>1, <2>4 DEF Counted, StopsAtTheLimit
    <3> QED BY <3>2, <3>3
  <2> QED BY <2>3, <2>4
<1> QED BY <1>1, <1>2, <1>3, <1>4, <1>5, <1>6 DEF Loop

LEMMA NextInv == IInv /\ [LoopNext]_loopVars => IInv'
<1>1. ASSUME IInv, Reset PROVE IInv'
  BY <1>1, EmptyTrail DEF Reset, IInv, TypeOK, Counted, StopsAtTheLimit, AgentState
<1>2. ASSUME IInv, UNCHANGED loopVars PROVE IInv'
  BY <1>2 DEF loopVars, IInv, TypeOK, Counted, StopsAtTheLimit
<1> QED BY <1>1, <1>2, RunKeeps, LoopKeeps DEF LoopNext

(* The inductive invariant. *)
THEOREM LoopInvariant == LoopSpec => []IInv
BY InitInv, NextInv, PTL DEF LoopSpec

(* Neither the model nor the tools are asked more often than the limit allows,
   and a run gives up only after it has used the limit up. *)
THEOREM LimitHolds == LoopSpec => []StopsAtTheLimit
<1>1. IInv => StopsAtTheLimit
  BY DEF IInv
<1> QED BY LoopInvariant, <1>1, PTL

-----------------------------------------------------------------------------
(* The trail.  It has the registered ones of the tools called in this run, up
   to the one being called, provided the agent was reset before the run. *)
TrailInv ==
  /\ state = "Idle" \/ at = "started" => tool_invocations = <<>>
  /\ at = "completing" => Selects(tool_invocations, called)
  /\ at = "acting" => \E earlier \in Seq(Names) : called = Append(earlier, tool) /\ Selects(tool_invocations, earlier)
  /\ TrailIsOfThisRun

LEMMA NothingSelected == Selects(<<>>, <<>>)
<1>1. DOMAIN <<>> = {}
  OBVIOUS
<1> DEFINE f == [i \in {} |-> i]
<1>2. f \in [DOMAIN <<>> -> DOMAIN <<>>]
  BY <1>1
<1> QED BY <1>1, <1>2 DEF Selects

(* A registered tool enters the trail, and another does not. *)
LEMMA SelectsOneMore ==
  ASSUME NEW trail \in Seq(Invocation), NEW names \in Seq(Names), NEW t \in Names, NEW ok \in BOOLEAN, Selects(trail, names)
  PROVE  Selects(IF t \in Tools THEN Append(trail, [tool |-> t, ok |-> ok]) ELSE trail, Append(names, t))
<1>1. PICK f \in [DOMAIN trail -> DOMAIN names] :
        /\ \A i, j \in DOMAIN trail : i < j => f[i] < f[j]
        /\ \A k \in DOMAIN names : names[k] \in Tools <=> \E i \in DOMAIN trail : f[i] = k
        /\ \A i \in DOMAIN trail : trail[i].tool = names[f[i]]
  BY DEF Selects
<1> DEFINE more == Append(names, t)
<1>2. /\ DOMAIN names = 1 .. Len(names) /\ Len(names) \in Nat
      /\ DOMAIN more = 1 .. Len(names) + 1
      /\ DOMAIN trail = 1 .. Len(trail) /\ Len(trail) \in Nat
  OBVIOUS
<1>3. more[Len(names) + 1] = t /\ \A k \in 1 .. Len(names) : more[k] = names[k]
  OBVIOUS
<1> HIDE DEF more
<1>4. CASE t \notin Tools
  <2>1. f \in [DOMAIN trail -> DOMAIN more]
    BY <1>2
  <2>2. \A k \in DOMAIN more : more[k] \in Tools <=> \E i \in DOMAIN trail : f[i] = k
    <3> SUFFICES ASSUME NEW k \in DOMAIN more
                 PROVE  more[k] \in Tools <=> \E i \in DOMAIN trail : f[i] = k
      OBVIOUS
    <3>1. CASE k = Len(names) + 1
      BY <3>1, <1>2, <1>3, <1>4
    <3>2. CASE k # Len(names) + 1
      <4>1. k \in DOMAIN names
        BY <3>2, <1>2
      <4> QED BY <4>1, <1>1, <1>2, <1>3
    <3> QED BY <3>1, <3>2
  <2>3. \A i \in DOMAIN trail : trail[i].tool = more[f[i]]
    BY <1>1, <1>2, <1>3
  <2>4. Selects(trail, more)
    BY <2>1, <2>2, <2>3, <1>1 DEF Selects
  <2> QED BY <2>4, <1>4 DEF more
<1>5. CASE t \in Tools
  <2> DEFINE e == [tool |-> t, ok |-> ok]
             longer == Append(trail, e)
             g == [i \in 1 .. Len(trail) + 1 |-> IF i = Len(trail) + 1 THEN Len(names) + 1 ELSE f[i]]
  <2>1. e \in Invocation /\ e.tool = t
    BY <1>5 DEF Invocation
  <2>2. /\ DOMAIN longer = 1 .. Len(trail) + 1
        /\ longer[Len(trail) + 1] = e /\ \A i \in 1 .. Len(trail) : longer[i] = trail[i]
    BY <2>1
  <2>3. /\ g[Len(trail) + 1] = Len(names) + 1
        /\ \A i \in 1 .. Len(trail) : g[i] = f[i] /\ f[i] \in 1 .. Len(names)
    BY <1>2
  <2>4. \A i \in 1 .. Len(trail) + 1 : i = Len(trail) + 1 \/ i \in 1 .. Len(trail)
    BY <1>2
  <2>5. g \in [1 .. Len(trail) + 1 -> DOMAIN more]
    BY <1>2
  <2> HIDE DEF e, longer, g
  <2>6. \A i, j \in DOMAIN longer : i < j => g[i] < g[j]
    <3> SUFFICES ASSUME NEW i \in DOMAIN longer, NEW j \in DOMAIN longer, i < j PROVE g[i] < g[j]
      OBVIOUS
    <3>1. i \in 1 .. Len(trail) /\ i \in DOMAIN trail
      BY <1>2, <2>2
    <3>2. CASE j = Len(trail) + 1
      BY <3>1, <3>2, <2>3, <1>2
    <3>3. CASE j # Len(trail) + 1
      BY <3>1, <3>3, <2>2, <2>3, <2>4, <1>1, <1>2
    <3> QED BY <3>2, <3>3
  <2>7. \A k \in DOMAIN more : more[k] \in Tools <=> \E i \in DOMAIN longer : g[i] = k
    <3> SUFFICES ASSUME NEW k \in DOMAIN more
                 PROVE  more[k] \in Tools <=> \E i \in DOMAIN longer : g[i] = k
      OBVIOUS
    <3>1. CASE k = Len(names) + 1
      <4>1. Len(trail) + 1 \in DOMAIN longer
        BY <2>2, <1>2
      <4> QED BY <3>1, <4>1, <2>3, <1>3, <1>5
    <3>2. CASE k # Len(names) + 1
      <4>1. k \in DOMAIN names /\ more[k] = names[k]
        BY <3>2, <1>2, <1>3
      <4>2. (\E i \in DOMAIN longer : g[i] = k) <=> \E i \in DOMAIN trail : f[i] = k
        <5>1. ASSUME NEW i \in DOMAIN longer, g[i] = k PROVE i \in DOMAIN trail /\ f[i] = k
          BY <5>1, <3>2, <2>2, <2>3, <2>4, <1>2
        <5>2. ASSUME NEW i \in DOMAIN trail, f[i] = k PROVE i \in DOMAIN longer /\ g[i] = k
          BY <5>2, <2>2, <2>3, <1>2
        <5> QED BY <5>1, <5>2
      <4> QED BY <4>1, <4>2, <1>1
    <3> QED BY <3>1, <3>2
  <2>8. \A i \in DOMAIN longer : longer[i].tool = more[g[i]]
    <3> SUFFICES ASSUME NEW i \in DOMAIN longer PROVE longer[i].tool = more[g[i]]
      OBVIOUS
    <3>1. CASE i = Len(trail) + 1
      BY <3>1, <2>1, <2>2, <2>3, <1>3
    <3>2. CASE i # Len(trail) + 1
      <4>1. i \in DOMAIN trail /\ longer[i] = trail[i] /\ g[i] = f[i] /\ f[i] \in 1 .. Len(names)
        BY <3>2, <2>2, <2>3, <2>4, <1>2
      <4> QED BY <4>1, <1>1, <1>3
    <3> QED BY <3>1, <3>2
  <2>9. Selects(longer, more)
    <3>1. g \in [DOMAIN longer -> DOMAIN more]
      BY <2>2, <2>5
    <3> QED BY <3>1, <2>6, <2>7, <2>8 DEF Selects
  <2> QED BY <2>9, <1>5 DEF longer, more, e
<1> QED BY <1>4, <1>5

LEMMA TrailInitially == LoopInit => TrailInv
BY DEF LoopInit, TrailInv, TrailIsOfThisRun

LEMMA TrailStep == IInv /\ TrailInv /\ [LoopNext]_loopVars /\ Resets => TrailInv'
<1> SUFFICES ASSUME IInv, TrailInv, [LoopNext]_loopVars, Resets PROVE TrailInv'
  OBVIOUS
<1>1. TypeOK /\ Counted
  BY DEF IInv
<1>2. CASE Run
  <2>1. /\ at' = "started" /\ state' = "Observing" /\ tool_invocations' = tool_invocations
        /\ state = "Idle"
    BY <1>2 DEF Run
  <2> QED BY <2>1 DEF TrailInv, TrailIsOfThisRun
<1>3. CASE Reset
  <2>1. /\ at = "rest" /\ at' = "rest" /\ tool_invocations' = <<>> /\ output' = output /\ called' = called
    BY <1>3 DEF Reset
  <2> QED BY <2>1 DEF TrailInv, TrailIsOfThisRun
<1>4. CASE Think
  <2>1. /\ at = "started" /\ at' = "completing" /\ state' = "Thinking"
        /\ tool_invocations' = tool_invocations /\ called' = called
    BY <1>4 DEF Think
  <2>2. called = <<>> /\ tool_invocations = <<>>
    BY <2>1, <1>1 DEF Counted, TrailInv
  <2> QED BY <2>1, <2>2, NothingSelected DEF TrailInv, TrailIsOfThisRun
<1>5. CASE NoIterations
  BY <1>5 DEF NoIterations, Return, TrailInv, TrailIsOfThisRun
<1>6. CASE ProviderFails
  BY <1>6 DEF ProviderFails, Return, TrailInv, TrailIsOfThisRun
<1>7. CASE Answer
  <2>1. /\ at = "completing" /\ at' = "rest" /\ state' = "Done" /\ called' = called
        /\ output'.tool_invocations = tool_invocations
    BY <1>7 DEF Answer, Return
  <2> QED BY <2>1 DEF TrailInv, TrailIsOfThisRun
<1>8. ASSUME NEW t \in Names, CallTool(t)
      PROVE  TrailInv'
  <2>1. /\ at = "completing" /\ at' = "acting" /\ state' = "Acting" /\ tool' = t
        /\ called' = Append(called, t) /\ tool_invocations' = tool_invocations /\ called \in Seq(Names)
    BY <1>8, <1>1 DEF CallTool, TypeOK
  <2>2. Selects(tool_invocations, called)
    BY <2>1 DEF TrailInv
  <2> QED BY <2>1, <2>2 DEF TrailInv, TrailIsOfThisRun
<1>9. ASSUME NEW ok \in BOOLEAN, ToolReturns(ok)
      PROVE  TrailInv'
  <2>1. /\ at = "acting" /\ tool_invocations' = Recorded(ok) /\ called' = called /\ tool \in Names
        /\ tool_invocations \in Seq(Invocation)
    BY <1>9, <1>1 DEF ToolReturns, Counted, TypeOK
  <2>2. PICK earlier \in Seq(Names) : called = Append(earlier, tool) /\ Selects(tool_invocations, earlier)
    BY <2>1 DEF TrailInv
  <2>3. Selects(tool_invocations', called)
    BY <2>1, <2>2, SelectsOneMore DEF Recorded
  <2>4. \/ /\ at' = "rest" /\ state' = "Failed" /\ output'.tool_invocations = tool_invocations'
        \/ /\ at' = "completing" /\ state' = "Thinking"
    BY <1>9 DEF ToolReturns, Return
  <2> QED BY <2>1, <2>3, <2>4 DEF TrailInv, TrailIsOfThisRun
<1>10. CASE UNCHANGED loopVars
  <2>1. UNCHANGED <<state, at, tool_invocations, tool, output, called>>
    BY <1>10 DEF loopVars
  <2> QED BY <2>1 DEF TrailInv, TrailIsOfThisRun
<1> QED BY <1>2, <1>3, <1>4, <1>5, <1>6, <1>7, <1>8, <1>9, <1>10 DEF LoopNext, Loop

(* A run that answers or gives up reports the registered tools it called, in
   order and each as often as it was called, and nothing of an earlier run,
   provided its caller resets the agent between runs (generic_agent.rs clears
   the trail in reset and nowhere else). *)
THEOREM TrailHolds == Resets /\ LoopSpec => []TrailIsOfThisRun
<1>1. TrailInv => TrailIsOfThisRun
  BY DEF TrailInv
<1>2. Resets \/ ~Resets
  OBVIOUS
<1>3. CASE Resets
  <2>1. IInv /\ TrailInv /\ [LoopNext]_loopVars => TrailInv'
    BY <1>3, TrailStep
  <2> QED BY <1>1, <2>1, TrailInitially, LoopInvariant, PTL DEF LoopSpec
<1>4. CASE ~Resets
  BY <1>4
<1> QED BY <1>2, <1>3, <1>4

-----------------------------------------------------------------------------
(* The stream of an answer: how a piece is read is a recursion along its marks,
   so the lemmas begin with what a recursion along numbers needs.  A set of
   numbers has a least one. *)
LEMMA Smallest ==
  ASSUME NEW S \in SUBSET Nat, S # {}
  PROVE  \E i \in S : \A j \in S : i <= j
<1>1. IsWellFoundedOn(OpToRel(<, Nat), Nat)
  BY NatLessThanWellFounded
<1>2. PICK i \in S : \A j \in S : <<j, i>> \notin OpToRel(<, Nat)
  BY <1>1, WFMin
<1>3. ASSUME NEW j \in S PROVE i <= j
  <2>1. <<j, i>> \notin OpToRel(<, Nat)
    BY <1>2
  <2>2. <<j, i>> \in Nat \X Nat /\ <<j, i>>[1] = j /\ <<j, i>>[2] = i
    OBVIOUS
  <2>3. ~ (j < i)
    BY <2>1, <2>2 DEF OpToRel
  <2> QED BY <2>3
<1> QED BY <1>3

(* A set that has m, and with each number below n the next, has all to n. *)
LEMMA UpTo ==
  ASSUME NEW m \in Nat, NEW n \in Nat, NEW S, m \in S,
         \A i \in m..n : (i # n /\ i \in S) => i + 1 \in S
  PROVE  m..n \subseteq S
<1> DEFINE missing == {i \in m..n : i \notin S}
<1>1. missing \in SUBSET Nat
  OBVIOUS
<1>2. ASSUME missing # {} PROVE FALSE
  <2>1. PICK k \in missing : \A j \in missing : k <= j
    BY <1>1, <1>2, Smallest
  <2>2. k \in m..n /\ k # m /\ k \notin S
    BY <2>1
  <2>3. k - 1 \in m..n /\ k - 1 # n /\ k - 1 \notin missing
    BY <2>1, <2>2
  <2>4. (k - 1) + 1 \in S
    BY <2>3
  <2> QED BY <2>2, <2>4
<1> QED BY <1>2

(* A function on m..n whose values are each computed from the one before. *)
Computed(f, m, n, first, adds) == \A i \in m..n : f[i] = IF i = m THEN first ELSE adds[i][f[i - 1]]

LEMMA Recursion ==
  ASSUME NEW T, NEW m \in Nat, NEW n \in Nat, m <= n, NEW first \in T, NEW adds \in [m..n -> [T -> T]]
  PROVE  \E f \in [m..n -> T] : Computed(f, m, n, first, adds)
<1> DEFINE S == {k \in m..n : \E f \in [m..k -> T] : Computed(f, m, k, first, adds)}
<1>1. m \in S
  <2> DEFINE f == [i \in m..m |-> first]
  <2>1. f \in [m..m -> T] /\ Computed(f, m, m, first, adds)
    BY DEF Computed
  <2> HIDE DEF f
  <2>2. \E h \in [m..m -> T] : Computed(h, m, m, first, adds)
    BY <2>1
  <2> QED BY <2>2
<1>2. ASSUME NEW k \in m..n, k # n, k \in S PROVE k + 1 \in S
  <2>1. PICK f \in [m..k -> T] : Computed(f, m, k, first, adds)
    BY <1>2
  <2> DEFINE g == [i \in m..(k + 1) |-> IF i = k + 1 THEN adds[k + 1][f[k]] ELSE f[i]]
  <2>2. k + 1 \in m..n /\ k \in m..k /\ k \in Int
    BY <1>2
  <2>3. f[k] \in T /\ adds[k + 1][f[k]] \in T
    BY <2>2
  <2>4. g \in [m..(k + 1) -> T]
    <3>1. ASSUME NEW i \in m..(k + 1), i # k + 1 PROVE i \in m..k
      BY <3>1, <2>2
    <3> QED BY <2>3, <3>1
  <2>5. ASSUME NEW i \in m..(k + 1) PROVE g[i] = IF i = m THEN first ELSE adds[i][g[i - 1]]
    <3>1. CASE i = k + 1
      <4>1. k \in m..(k + 1) /\ k # k + 1 /\ i - 1 = k /\ i # m
        BY <3>1, <2>2
      <4>2. g[k] = f[k] /\ g[i] = adds[k + 1][f[k]]
        BY <4>1, <3>1
      <4> QED BY <4>1, <4>2, <3>1
    <3>2. CASE i # k + 1
      <4>1. i \in m..k /\ g[i] = f[i]
        BY <3>2, <2>2
      <4>2. i # m => (i - 1 \in m..(k + 1) /\ i - 1 # k + 1 /\ g[i - 1] = f[i - 1])
        BY <4>1, <2>2
      <4> QED BY <4>1, <4>2, <2>1 DEF Computed
    <3> QED BY <3>1, <3>2
  <2>6. Computed(g, m, k + 1, first, adds)
    BY <2>5 DEF Computed
  <2> QED BY <2>2, <2>4, <2>6
<1> HIDE DEF S
<1>3. m..n \subseteq S
  BY <1>1, <1>2, UpTo
<1>4. n \in S
  BY <1>3
<1> QED BY <1>4 DEF S


-----------------------------------------------------------------------------
(* What is to be read of a stream up to a mark, whether it has ended by then,
   and a text that has just that. *)
Good(s, m) == {i \in 1..m : OnDataLine(s, i) /\ \A j \in 1..(i - 1) : ~IsDone(s, j)}
DoneBy(s, m) == \E d \in 1..m : IsDone(s, d)
Picks(t, s, C) ==
  /\ IsFiniteSet(C) /\ Len(t) = Cardinality(C)
  /\ \A i \in C : t[Cardinality({j \in C : j <= i})] = s[i]
Told(texts, done, s, m) ==
  /\ texts \in Seq(Texts) /\ done \in BOOLEAN
  /\ Picks(texts, s, Good(s, m)) /\ (done <=> DoneBy(s, m))
LineEnds(s, m) == m \in 0..Len(s) /\ (m = 0 \/ s[m] = "nl")
Breaks(s, m) == m \in 0..Len(s) /\ (m = 0 \/ (m >= 2 /\ s[m] = "nl" /\ s[m - 1] = "nl"))
(* The marks behind one, up to another. *)
Part(l, s, L, M) == l \in Seq(Marks) /\ Len(l) = M - L /\ \A k \in 1..(M - L) : l[k] = s[L + k]

LEMMA MarkKinds ==
  /\ "nl" \in Marks /\ "data" \in Marks /\ "done" \in Marks /\ Texts \subseteq Marks
  /\ \A x \in Texts : x # "nl" /\ x # "data" /\ x # "done"
  /\ "nl" # "data" /\ "nl" # "done" /\ "data" # "done"
BY MarkAssumption DEF Marks

LEMMA JustDone == Len(<<"done">>) = 1 /\ <<"done">>[1] = "done"
OBVIOUS

(* Marks that follow one another are taken behind those there were. *)
LEMMA PicksMore ==
  ASSUME NEW s, NEW t \in Seq(Texts), NEW C, NEW L \in Nat, NEW p \in Nat, NEW q \in Nat,
         C \in SUBSET (1..L), L <= p, Picks(t, s, C), NEW u \in Seq(Texts), Len(u) = q, \A k \in 1..q : u[k] = s[p + k]
  PROVE  Picks(t \o u, s, C \cup ((p + 1)..(p + q)))
<1>1. PICK D : D = (p + 1)..(p + q)
  OBVIOUS
<1>2. IsFiniteSet(D) /\ Cardinality(D) = q
  <2>1. p + 1 \in Int /\ p + q \in Int
    OBVIOUS
  <2>2. PICK a \in Int, b \in Int : a = p + 1 /\ b = p + q
    BY <2>1
  <2>3. IsFiniteSet(a..b) /\ Cardinality(a..b) = IF a > b THEN 0 ELSE b - a + 1
    BY FS_Interval
  <2> QED BY <1>1, <2>2, <2>3
<1>3. PICK n \in Nat : n = Cardinality(C) /\ n = Len(t)
  BY FS_CardinalityType DEF Picks
<1>4. C \cap D = {} /\ IsFiniteSet(C)
  BY <1>1 DEF Picks
<1>5. IsFiniteSet(C \cup D) /\ Cardinality(C \cup D) = n + q
  <2>1. IsFiniteSet(C \cup D) /\ Cardinality(C \cup D) = Cardinality(C) + Cardinality(D) - Cardinality(C \cap D)
    BY <1>2, <1>4, FS_Union
  <2>2. Cardinality(C \cap D) = 0
    BY <1>4, FS_EmptySet
  <2> QED BY <1>2, <1>3, <2>1, <2>2
<1>6. PICK w : w = t \o u
  OBVIOUS
<1>7. Len(w) = n + q /\ (\A k \in 1..n : w[k] = t[k]) /\ \A k \in 1..q : w[n + k] = u[k]
  <2>1. Len(w) = Len(t) + Len(u) /\ \A k \in 1..(Len(t) + Len(u)) : w[k] = IF k <= Len(t) THEN t[k] ELSE u[k - Len(t)]
    BY <1>6, ConcatProperties
  <2>2. Len(w) = n + q /\ \A k \in 1..(n + q) : w[k] = IF k <= n THEN t[k] ELSE u[k - n]
    BY <2>1, <1>3
  <2>3. ASSUME NEW k \in 1..n PROVE w[k] = t[k]
    <3>1. k \in 1..(n + q) /\ k <= n
      OBVIOUS
    <3> QED BY <3>1, <2>2
  <2>4. ASSUME NEW k \in 1..q PROVE w[n + k] = u[k]
    <3>1. n + k \in 1..(n + q) /\ ~(n + k <= n) /\ (n + k) - n = k
      OBVIOUS
    <3> QED BY <3>1, <2>2
  <2> QED BY <2>2, <2>3, <2>4
<1>8. ASSUME NEW i \in C PROVE w[Cardinality({j \in C \cup D : j <= i})] = s[i]
  <2>1. {j \in C \cup D : j <= i} = {j \in C : j <= i}
    BY <1>1
  <2>2. {j \in C : j <= i} \in SUBSET C /\ {j \in C : j <= i} # {}
    <3>1. i \in 1..L /\ i <= i
      OBVIOUS
    <3> QED BY <3>1
  <2>3. PICK k : k = Cardinality({j \in C : j <= i})
    OBVIOUS
  <2>4. k \in 1..n
    <3>1. PICK F \in SUBSET C : F = {j \in C : j <= i} /\ F # {}
      BY <2>2
    <3>2. IsFiniteSet(F) /\ Cardinality(F) <= n
      BY <1>3, <1>4, FS_Subset
    <3>3. Cardinality(F) \in Nat /\ Cardinality(F) # 0
      BY <3>1, <3>2, FS_CardinalityType, FS_EmptySet
    <3> QED BY <2>3, <3>1, <3>2, <3>3
  <2>5. t[k] = s[i]
    BY <2>3 DEF Picks
  <2> QED BY <1>7, <2>1, <2>3, <2>4, <2>5
<1>9. ASSUME NEW i \in D PROVE w[Cardinality({j \in C \cup D : j <= i})] = s[i]
  <2>1. PICK k \in 1..q : i = p + k
    <3>1. i - p \in 1..q /\ i = p + (i - p)
      BY <1>1
    <3> QED BY <3>1
  <2>2. {j \in C \cup D : j <= i} = C \cup ((p + 1)..(p + k))
    <3>1. \A j \in C : j <= i
      BY <2>1
    <3>2. \A j \in D : j <= i <=> j \in (p + 1)..(p + k)
      BY <1>1, <2>1
    <3>3. (p + 1)..(p + k) \subseteq D
      BY <1>1
    <3> QED BY <3>1, <3>2, <3>3
  <2>3. IsFiniteSet((p + 1)..(p + k)) /\ Cardinality((p + 1)..(p + k)) = k
    <3>1. PICK a \in Int, b \in Int : a = p + 1 /\ b = p + k
      <4>1. p + 1 \in Int /\ p + k \in Int
        OBVIOUS
      <4> QED BY <4>1
    <3>2. IsFiniteSet(a..b) /\ Cardinality(a..b) = IF a > b THEN 0 ELSE b - a + 1
      BY FS_Interval
    <3> QED BY <3>1, <3>2
  <2>4. C \cap ((p + 1)..(p + k)) = {}
    OBVIOUS
  <2>5. Cardinality(C \cup ((p + 1)..(p + k))) = n + k
    <3>1. PICK F : F = (p + 1)..(p + k)
      OBVIOUS
    <3>2. Cardinality(C \cup F) = Cardinality(C) + Cardinality(F) - Cardinality(C \cap F)
      BY <1>4, <2>3, <3>1, FS_Union
    <3>3. Cardinality(C \cap F) = 0
      BY <2>4, <3>1, FS_EmptySet
    <3> QED BY <1>3, <2>3, <3>1, <3>2, <3>3
  <2>6. w[n + k] = s[i]
    BY <1>7, <2>1
  <2> QED BY <2>2, <2>5, <2>6
<1> QED BY <1>1, <1>3, <1>5, <1>6, <1>7, <1>8, <1>9 DEF Picks

(* A new line is neither a text nor an end. *)
LEMMA NothingInNewLine ==
  ASSUME NEW s \in Seq(Marks), NEW m \in Nat, m + 1 <= Len(s), s[m + 1] = "nl"
  PROVE  /\ ~OnDataLine(s, m + 1) /\ ~IsDone(s, m + 1)
         /\ Good(s, m + 1) = Good(s, m) /\ (DoneBy(s, m + 1) <=> DoneBy(s, m))
<1>1. ~OnDataLine(s, m + 1)
  BY DEF OnDataLine, IsLine
<1>2. ~IsDone(s, m + 1)
  BY DEF IsDone
<1>3. \A i \in 1..(m + 1) : i \in 1..m \/ i = m + 1
  OBVIOUS
<1>4. 1..m \subseteq 1..(m + 1)
  OBVIOUS
<1>5. Good(s, m + 1) = Good(s, m)
  BY <1>1, <1>3, <1>4 DEF Good
<1>6. DoneBy(s, m + 1) <=> DoneBy(s, m)
  BY <1>2, <1>3, <1>4 DEF DoneBy
<1> QED BY <1>1, <1>2, <1>5, <1>6

(* Two new lines enclose one line. *)
LEMMA OneLine ==
  ASSUME NEW s \in Seq(Marks), NEW L \in Nat, NEW M \in Nat, L <= M, M + 1 <= Len(s), LineEnds(s, L), s[M + 1] = "nl",
         \A i \in (L + 1)..M : s[i] # "nl"
  PROVE  /\ IsLine(s, L + 1, M)
         /\ \A i \in (L + 1)..M : \A a \in 1..i : \A b \in i..Len(s) : IsLine(s, a, b) => a = L + 1 /\ b = M
<1>1. Len(s) \in Nat
  OBVIOUS
<1>2. IsLine(s, L + 1, M)
  BY <1>1 DEF IsLine, LineEnds
<1>3. ASSUME NEW i \in (L + 1)..M, NEW a \in 1..i, NEW b \in i..Len(s), IsLine(s, a, b) PROVE a = L + 1 /\ b = M
  <2>1. a > L
    <3>1. CASE a <= L
      <4>1. L \in a..b /\ s[L] = "nl"
        BY <3>1 DEF LineEnds
      <4> QED BY <4>1, <1>3 DEF IsLine
    <3> QED BY <3>1
  <2>2. b <= M
    <3>1. CASE b > M
      <4>1. M + 1 \in a..b
        BY <3>1
      <4> QED BY <4>1, <1>3 DEF IsLine
    <3> QED BY <3>1
  <2>3. a = L + 1
    <3>1. CASE a # L + 1
      <4>1. a - 1 \in (L + 1)..M /\ a # 1
        BY <2>1, <3>1
      <4> QED BY <4>1, <1>3 DEF IsLine
    <3> QED BY <3>1
  <2>4. b = M
    <3>1. CASE b # M
      <4>1. b + 1 \in (L + 1)..M /\ b # Len(s)
        BY <2>2, <3>1
      <4> QED BY <4>1, <1>3 DEF IsLine
    <3> QED BY <3>1
  <2> QED BY <2>3, <2>4
<1> QED BY <1>2, <1>3

(* What one line adds is what there is to be read in it. *)
LEMMA PayloadIs ==
  ASSUME NEW s \in Seq(Marks), NEW L \in Nat, NEW M \in Nat, L < M, NEW l, Part(l, s, L, M)
  PROVE  /\ l # <<>> /\ Head(l) = s[L + 1]
         /\ Tail(l) \in Seq(Marks) /\ Len(Tail(l)) = M - L - 1 /\ \A k \in 1..(M - L - 1) : Tail(l)[k] = s[L + 1 + k]
<1>1. PICK n \in Nat : n = M - L - 1 /\ M - L = n + 1
  <2>1. M - L - 1 \in Nat /\ M - L = (M - L - 1) + 1
    OBVIOUS
  <2> QED BY <2>1
<1>2. l \in Seq(Marks) /\ Len(l) = n + 1 /\ \A k \in 1..(n + 1) : l[k] = s[L + k]
  BY <1>1 DEF Part
<1>3. l # <<>> /\ Head(l) = l[1]
  BY <1>2
<1>4. Tail(l) \in Seq(Marks) /\ Len(Tail(l)) = n /\ \A k \in 1..n : Tail(l)[k] = l[k + 1]
  BY <1>2, <1>3
<1>5. \A k \in 1..n : k + 1 \in 1..(n + 1) /\ L + (k + 1) = L + 1 + k
  OBVIOUS
<1>6. l[1] = s[L + 1]
  <2>1. 1 \in 1..(n + 1)
    OBVIOUS
  <2> QED BY <1>2, <2>1
<1>7. \A k \in 1..n : Tail(l)[k] = s[L + 1 + k]
  BY <1>2, <1>4, <1>5
<1> QED BY <1>1, <1>3, <1>4, <1>6, <1>7

LEMMA HoldsIs ==
  ASSUME NEW payload \in Seq(Marks)
  PROVE  /\ Holds(payload) \in Seq(Texts)
         /\ (\A k \in 1..Len(payload) : payload[k] \in Texts) => Holds(payload) = payload
         /\ ~(\A k \in 1..Len(payload) : payload[k] \in Texts) => Holds(payload) = <<>>
<1>1. DOMAIN payload = 1..Len(payload)
  OBVIOUS
<1>2. CASE \A k \in 1..Len(payload) : payload[k] \in Texts
  <2>1. Holds(payload) = payload
    BY <1>1, <1>2 DEF Holds
  <2>2. payload \in Seq(Texts)
    BY <1>2
  <2> QED BY <1>2, <2>1, <2>2
<1>3. CASE ~(\A k \in 1..Len(payload) : payload[k] \in Texts)
  <2>1. Holds(payload) = <<>>
    BY <1>1, <1>3 DEF Holds
  <2>2. <<>> \in Seq(Texts)
    OBVIOUS
  <2> QED BY <1>3, <2>1, <2>2
<1> QED BY <1>2, <1>3

(* A line in which nothing is to be read, and one that is all texts. *)
LEMMA NothingMore ==
  ASSUME NEW s \in Seq(Marks), NEW L \in Nat, NEW M \in Nat, L <= M, M + 1 <= Len(s), s[M + 1] = "nl",
         \A i \in (L + 1)..M : ~(OnDataLine(s, i) /\ \A j \in 1..(i - 1) : ~IsDone(s, j))
  PROVE  Good(s, M + 1) = Good(s, L)
<1>1. Good(s, M + 1) = Good(s, M)
  BY NothingInNewLine
<1>2. 1..L \subseteq 1..M /\ \A i \in 1..M : i \in 1..L \/ i \in (L + 1)..M
  OBVIOUS
<1>3. Good(s, M) = Good(s, L)
  BY <1>2 DEF Good
<1> QED BY <1>1, <1>3

LEMMA LineTold ==
  ASSUME NEW s \in Seq(Marks), NEW L \in Nat, NEW M \in Nat, L <= M, M + 1 <= Len(s), LineEnds(s, L), s[M + 1] = "nl",
         \A i \in (L + 1)..M : s[i] # "nl", NEW l, Part(l, s, L, M),
         NEW got, Told(got.texts, got.done, s, L), NEW next
  PROVE  Told(Line(l, got, next).texts, Line(l, got, next).done, s, M + 1) /\ Line(l, got, next).from = next
<1> DEFINE data == ~got.done /\ l # <<>> /\ Head(l) = "data"
<1>0. PICK texts, done, line : texts = got.texts /\ done = got.done /\ line = Line(l, got, next)
  OBVIOUS
<1>1. /\ line.texts = (IF data THEN texts \o Holds(Tail(l)) ELSE texts)
      /\ line.done = (done \/ (data /\ Tail(l) = <<"done">>)) /\ line.from = next
  BY <1>0 DEF Line
<1>2. texts \in Seq(Texts) /\ done \in BOOLEAN /\ Picks(texts, s, Good(s, L)) /\ (done <=> DoneBy(s, L))
  BY <1>0 DEF Told
<1>3. /\ IsLine(s, L + 1, M)
      /\ \A i \in (L + 1)..M : \A a \in 1..i : \A b \in i..Len(s) : IsLine(s, a, b) => a = L + 1 /\ b = M
  BY OneLine
<1>4. ASSUME NEW i \in (L + 1)..M, OnDataLine(s, i)
      PROVE  s[L + 1] = "data" /\ i > L + 1 /\ \A j \in (L + 2)..M : s[j] \in Texts
  <2>1. PICK a \in 1..(i - 1), b \in i..Len(s) : IsLine(s, a, b) /\ s[a] = "data" /\ \A j \in (a + 1)..b : s[j] \in Texts
    BY <1>4 DEF OnDataLine
  <2>2. a = L + 1 /\ b = M
    <3>1. a \in 1..i
      OBVIOUS
    <3> QED BY <1>3, <2>1, <3>1
  <2> QED BY <2>1, <2>2
<1>5. ASSUME NEW d \in (L + 1)..M, IsDone(s, d)
      PROVE  s[L + 1] = "data" /\ d = L + 2 /\ M = L + 2 /\ s[L + 2] = "done"
  <2>1. d > 1 /\ s[d - 1] = "data" /\ s[d] = "done" /\ IsLine(s, d - 1, d)
    BY <1>5 DEF IsDone
  <2>2. d - 1 \in 1..d /\ d \in d..Len(s)
    BY <2>1
  <2>3. d - 1 = L + 1 /\ d = M
    BY <1>3, <2>1, <2>2
  <2>4. d = L + 2
    BY <2>3
  <2> QED BY <2>1, <2>3, <2>4
<1>6. DoneBy(s, M + 1) <=> DoneBy(s, L) \/ \E d \in (L + 1)..M : IsDone(s, d)
  <2>1. DoneBy(s, M + 1) <=> DoneBy(s, M)
    BY NothingInNewLine
  <2>2. \A d : d \in 1..M <=> (d \in 1..L \/ d \in (L + 1)..M)
    OBVIOUS
  <2> QED BY <2>1, <2>2 DEF DoneBy
<1>7. CASE ~data
  <2>1. line.texts = texts /\ line.done = done
    BY <1>1, <1>2, <1>7
  <2>2. CASE done
    <3>1. PICK d \in 1..L : IsDone(s, d)
      BY <1>2, <2>2 DEF DoneBy
    <3>2. \A i \in (L + 1)..M : d \in 1..(i - 1)
      OBVIOUS
    <3>3. Good(s, M + 1) = Good(s, L)
      BY <3>1, <3>2, NothingMore
    <3> QED BY <1>0, <1>1, <1>2, <1>6, <2>1, <2>2, <3>3 DEF Told
  <2>3. CASE ~done
    <3>1. L < M => s[L + 1] # "data"
      BY <1>0, <1>7, <2>3, PayloadIs
    <3>2. ASSUME NEW i \in (L + 1)..M PROVE ~OnDataLine(s, i) /\ ~IsDone(s, i)
      <4>1. L < M
        OBVIOUS
      <4> QED BY <1>4, <1>5, <3>1, <4>1
    <3>3. Good(s, M + 1) = Good(s, L)
      BY <3>2, NothingMore
    <3> QED BY <1>0, <1>1, <1>2, <1>6, <2>1, <3>2, <3>3 DEF Told
  <2> QED BY <2>2, <2>3, <1>2
<1>8. CASE data
  <2>1. L < M
    <3>1. L = M => l = <<>>
      <4>1. L = M => l \in Seq(Marks) /\ Len(l) = 0
        BY DEF Part
      <4> QED BY <4>1
    <3> QED BY <3>1, <1>8
  <2>2. PICK q \in Nat : q = M - L - 1 /\ (L + 1) + q = M
    <3>1. M - L - 1 \in Nat /\ (L + 1) + (M - L - 1) = M
      BY <2>1
    <3> QED BY <3>1
  <2>3. PICK payload \in Seq(Marks) : payload = Tail(l) /\ Len(payload) = q /\ \A k \in 1..q : payload[k] = s[L + 1 + k]
    <3>1. /\ Tail(l) \in Seq(Marks) /\ Len(Tail(l)) = M - L - 1
          /\ \A k \in 1..(M - L - 1) : Tail(l)[k] = s[L + 1 + k]
      BY <2>1, PayloadIs
    <3> QED BY <3>1, <2>2
  <2>4. s[L + 1] = "data" /\ ~DoneBy(s, L) /\ done = FALSE
    BY <1>0, <1>2, <1>8, <2>1, PayloadIs
  <2>5. line.texts = texts \o Holds(payload) /\ (line.done <=> payload = <<"done">>) /\ line.done \in BOOLEAN
    BY <1>1, <1>8, <2>3, <2>4
  <2>6. (\A k \in 1..q : payload[k] \in Texts) <=> \A j \in (L + 2)..M : s[j] \in Texts
    <3>1. \A k \in 1..q : L + 1 + k \in (L + 2)..M
      BY <2>2
    <3>2. \A j \in (L + 2)..M : j - (L + 1) \in 1..q /\ L + 1 + (j - (L + 1)) = j
      BY <2>2
    <3> QED BY <2>3, <3>1, <3>2
  <2>7. CASE \A j \in (L + 2)..M : s[j] \in Texts
    <3>1. Holds(payload) = payload /\ payload \in Seq(Texts)
      BY <2>3, <2>6, <2>7, HoldsIs
    <3>2. ASSUME NEW d \in (L + 1)..M PROVE ~IsDone(s, d)
      <4>1. L + 2 \in (L + 2)..M \/ M = L + 1
        BY <2>1
      <4> QED BY <1>5, <2>7, <4>1, MarkKinds
    <3>3. Good(s, M + 1) = Good(s, L) \cup ((L + 2)..M)
      <4>1. Good(s, M + 1) = Good(s, M)
        BY NothingInNewLine
      <4>2. ASSUME NEW i \in Good(s, M) PROVE i \in Good(s, L) \cup ((L + 2)..M)
        <5>1. i \in 1..M /\ OnDataLine(s, i) /\ \A j \in 1..(i - 1) : ~IsDone(s, j)
          BY DEF Good
        <5>2. CASE i \in 1..L
          BY <5>1, <5>2 DEF Good
        <5>3. CASE i \in (L + 1)..M
          <6>1. i > L + 1
            BY <1>4, <5>1, <5>3
          <6> QED BY <5>3, <6>1
        <5> QED BY <5>1, <5>2, <5>3
      <4>3. ASSUME NEW i \in Good(s, L) PROVE i \in Good(s, M)
        BY DEF Good
      <4>4. ASSUME NEW i \in (L + 2)..M PROVE i \in Good(s, M)
        <5>1. L + 1 \in 1..(i - 1) /\ M \in i..Len(s) /\ (L + 1) + 1 = L + 2
          OBVIOUS
        <5>2. OnDataLine(s, i)
          BY <1>3, <2>4, <2>7, <5>1 DEF OnDataLine
        <5>3. ASSUME NEW j \in 1..(i - 1) PROVE ~IsDone(s, j)
          <6>1. j \in 1..L \/ j \in (L + 1)..M
            OBVIOUS
          <6> QED BY <2>4, <3>2, <6>1 DEF DoneBy
        <5>4. i \in 1..M
          OBVIOUS
        <5> QED BY <5>2, <5>3, <5>4 DEF Good
      <4> QED BY <4>1, <4>2, <4>3, <4>4
    <3>4. payload # <<"done">>
      <4>1. CASE q = 0
        <5>1. Len(payload) = 0
          BY <2>3, <4>1
        <5> QED BY <5>1, JustDone
      <4>2. CASE q # 0
        <5>1. 1 \in 1..Len(payload)
          BY <2>3, <4>2
        <5>2. payload[1] \in Texts
          BY <3>1, <5>1, ElementOfSeq
        <5> QED BY <5>2, MarkKinds
      <4> QED BY <4>1, <4>2
    <3>5. Picks(texts \o payload, s, Good(s, L) \cup ((L + 2)..M))
      <4>1. Good(s, L) \in SUBSET (1..L)
        BY DEF Good
      <4>2. PICK p \in Nat : p = L + 1
        OBVIOUS
      <4>3. L <= p /\ \A k \in 1..q : payload[k] = s[p + k]
        BY <2>3, <4>2
      <4>4. Picks(texts \o payload, s, Good(s, L) \cup ((p + 1)..(p + q)))
        BY <1>2, <2>3, <3>1, <4>1, <4>3, PicksMore
      <4>5. p + 1 = L + 2 /\ p + q = M
        BY <2>2, <4>2
      <4> QED BY <4>4, <4>5
    <3>6. texts \o payload \in Seq(Texts)
      BY <1>2, <3>1, ConcatProperties
    <3>7. ~DoneBy(s, M + 1) /\ line.done = FALSE
      BY <1>6, <2>4, <2>5, <3>2, <3>4
    <3> QED BY <1>0, <1>1, <2>5, <3>1, <3>3, <3>5, <3>6, <3>7 DEF Told
  <2>8. CASE ~(\A j \in (L + 2)..M : s[j] \in Texts)
    <3>1. Holds(payload) = <<>>
      BY <2>3, <2>6, <2>8, HoldsIs
    <3>2. texts \o Holds(payload) = texts
      BY <1>2, <3>1
    <3>3. Good(s, M + 1) = Good(s, L)
      <4>1. \A i \in (L + 1)..M : ~OnDataLine(s, i)
        BY <1>4, <2>8
      <4> QED BY <4>1, NothingMore
    <3>4. DoneBy(s, M + 1) <=> payload = <<"done">>
      <4>1. ASSUME payload = <<"done">> PROVE \E d \in (L + 1)..M : IsDone(s, d)
        <5>1. q = 1 /\ payload[1] = "done"
          BY <2>3, <4>1, JustDone
        <5>2. M = L + 2 /\ s[L + 2] = "done"
          <6>1. 1 \in 1..q /\ L + 1 + 1 = L + 2
            BY <5>1
          <6> QED BY <2>2, <2>3, <5>1, <6>1
        <5>3. M > 1 /\ M - 1 = L + 1 /\ M \in (L + 1)..M
          BY <5>2
        <5>4. IsDone(s, M)
          BY <1>3, <2>4, <5>2, <5>3 DEF IsDone
        <5> QED BY <5>3, <5>4
      <4>2. ASSUME NEW d \in (L + 1)..M, IsDone(s, d) PROVE payload = <<"done">>
        <5>1. M = L + 2 /\ s[L + 2] = "done"
          BY <1>5, <4>2
        <5>2. q = 1 /\ 1 \in 1..q /\ L + 1 + 1 = L + 2
          BY <2>2, <5>1
        <5>3. payload[1] = "done" /\ Len(payload) = 1
          BY <2>3, <5>1, <5>2
        <5> QED BY <5>3
      <4> QED BY <1>6, <2>4, <4>1, <4>2
    <3> QED BY <1>0, <1>1, <1>2, <2>5, <3>2, <3>3, <3>4 DEF Told
  <2> QED BY <2>7, <2>8
<1> QED BY <1>7, <1>8

-----------------------------------------------------------------------------
(* An event, mark by mark. *)
Reading == [texts : Seq(Texts), done : BOOLEAN, from : Nat]
InEvent(event, got, f) ==
  \A n \in 0..(Len(event) + 1) :
    f[n] = IF n = 0 THEN [texts |-> got.texts, done |-> got.done, from |-> 1]
           ELSE IF n <= Len(event) /\ event[n] # "nl" THEN f[n - 1]
           ELSE Line(SubSeq(event, f[n - 1].from, n - 1), f[n - 1], n + 1)

LEMMA ReadingIs ==
  ASSUME NEW texts \in Seq(Texts), NEW done \in BOOLEAN, NEW from \in Nat
  PROVE  [texts |-> texts, done |-> done, from |-> from] \in Reading
BY DEF Reading

LEMMA LineReads ==
  ASSUME NEW l \in Seq(Marks), NEW got \in Reading, NEW next \in Nat
  PROVE  Line(l, got, next) \in Reading
<1>1. got.texts \in Seq(Texts) /\ got.done \in BOOLEAN
  BY DEF Reading
<1>2. PICK data \in BOOLEAN : data = (~got.done /\ l # <<>> /\ Head(l) = "data")
  BY <1>1
<1>3. PICK texts : texts = IF data THEN got.texts \o Holds(Tail(l)) ELSE got.texts
  OBVIOUS
<1>4. texts \in Seq(Texts)
  <2>1. CASE data
    <3>1. Tail(l) \in Seq(Marks)
      BY <1>2, <2>1, HeadTailProperties
    <3>2. Holds(Tail(l)) \in Seq(Texts)
      BY <3>1, HoldsIs
    <3> QED BY <1>1, <1>3, <2>1, <3>2, ConcatProperties
  <2>2. CASE ~data
    BY <1>1, <1>3, <2>2
  <2> QED BY <2>1, <2>2
<1>5. PICK done \in BOOLEAN : done = (got.done \/ (data /\ Tail(l) = <<"done">>))
  BY <1>1
<1>6. Line(l, got, next) = [texts |-> texts, done |-> done, from |-> next]
  BY <1>2, <1>3, <1>5 DEF Line
<1> QED BY <1>4, <1>6, ReadingIs

LEMMA PieceIs ==
  ASSUME NEW event \in Seq(Marks), NEW from \in Nat, NEW n \in Nat, n <= Len(event), from > 0
  PROVE  /\ SubSeq(event, from, n) \in Seq(Marks)
         /\ Len(SubSeq(event, from, n)) = IF from <= n THEN n - from + 1 ELSE 0
         /\ \A i \in 1..(n - from + 1) : SubSeq(event, from, n)[i] = event[from + i - 1]
<1>1. \A i \in from..n : event[i] \in Marks
  <2>1. \A i \in from..n : i \in 1..Len(event)
    OBVIOUS
  <2> QED BY <2>1, ElementOfSeq
<1>2. from \in Int /\ n \in Int
  OBVIOUS
<1> QED BY <1>1, <1>2, SubSeqProperties

LEMMA ReadEventIs ==
  ASSUME NEW event \in Seq(Marks), NEW got \in Reading
  PROVE  \E f \in [0..(Len(event) + 1) -> Reading] : InEvent(event, got, f) /\ read_event(event, got) = f[Len(event) + 1]
<1>0. PICK last \in Nat : last = Len(event) + 1
  OBVIOUS
<1> DEFINE first == [texts |-> got.texts, done |-> got.done, from |-> 1]
           add(k, n) == IF n <= Len(event) /\ event[n] # "nl" THEN k ELSE Line(SubSeq(event, k.from, n - 1), k, n + 1)
           value(f, n) == IF n = 0 THEN first ELSE add(f[n - 1], n)
           State == {k \in Reading : k.from > 0}
           adds == [n \in 0..last |-> [k \in State |-> IF n = 0 THEN k ELSE add(k, n)]]
           it == CHOOSE f : f = [n \in 0..last |-> value(f, n)]
<1>1. first \in State
  <2>1. got.texts \in Seq(Texts) /\ got.done \in BOOLEAN /\ 1 \in Nat
    BY DEF Reading
  <2> QED BY <2>1, ReadingIs
<1>2. ASSUME NEW n \in 0..last, NEW k \in State, n # 0 PROVE add(k, n) \in State
  <2>1. CASE n <= Len(event) /\ event[n] # "nl"
    BY <2>1
  <2>2. CASE ~(n <= Len(event) /\ event[n] # "nl")
    <3>1. k.from \in Nat /\ k.from > 0 /\ n - 1 \in Nat /\ n - 1 <= Len(event) /\ n + 1 \in Nat /\ n + 1 > 0 /\ k \in Reading
      BY <1>0, <1>2 DEF Reading
    <3>2. PICK l \in Seq(Marks) : l = SubSeq(event, k.from, n - 1)
      BY <3>1, PieceIs
    <3>3. Line(l, k, n + 1) \in Reading
      BY <3>1, LineReads
    <3>4. Line(l, k, n + 1).from = n + 1
      BY DEF Line
    <3> QED BY <2>2, <3>1, <3>2, <3>3, <3>4
  <2> QED BY <2>1, <2>2
<1>3. adds \in [0..last -> [State -> State]]
  <2> HIDE DEF add, State
  <2> QED BY <1>2
<1>4. PICK g \in [0..last -> State] : Computed(g, 0, last, first, adds)
  <2>1. 0 \in Nat /\ 0 <= last
    OBVIOUS
  <2> HIDE DEF adds, first, State
  <2> QED BY <1>1, <1>3, <2>1, Recursion
<1>5. ASSUME NEW n \in 0..last PROVE g[n] = value(g, n)
  <2> HIDE DEF add, first, State
  <2>1. n # 0 => n - 1 \in 0..last
    OBVIOUS
  <2>2. n # 0 => g[n - 1] \in State
    BY <2>1
  <2> QED BY <1>4, <2>2 DEF Computed
<1>6. g = [n \in 0..last |-> value(g, n)]
  <2> HIDE DEF value
  <2> QED BY <1>5
<1>7. it = [n \in 0..last |-> value(it, n)]
  <2> HIDE DEF value
  <2>1. \E f : f = [n \in 0..last |-> value(f, n)]
    BY <1>6
  <2> QED BY <2>1
<1>8. read_event(event, got) = it[last]
  BY <1>0 DEF read_event
<1> HIDE DEF it
<1>9. InEvent(event, got, it)
  BY <1>0, <1>7 DEF InEvent
<1>10. it \in [0..last -> Reading]
  <2> DEFINE S == {n \in 0..last : it[n] \in State}
  <2>1. 0 \in S
    <3>1. 0 \in 0..last
      OBVIOUS
    <3>2. it[0] = first
      BY <1>7, <3>1
    <3> HIDE DEF first, State
    <3> QED BY <1>1, <3>1, <3>2
  <2>2. ASSUME NEW n \in 0..last, n # last, n \in S PROVE n + 1 \in S
    <3>1. n + 1 \in 0..last /\ n + 1 # 0 /\ (n + 1) - 1 = n
      BY <2>2
    <3>2. it[n + 1] = add(it[n], n + 1)
      <4> HIDE DEF add, State
      <4> QED BY <1>7, <3>1
    <3>3. it[n] \in State
      BY <2>2
    <3> HIDE DEF add, State
    <3> QED BY <1>2, <3>1, <3>2, <3>3
  <2> HIDE DEF S
  <2>3. 0..last \subseteq S
    <3>1. 0 \in Nat
      OBVIOUS
    <3> QED BY <2>1, <2>2, <3>1, UpTo
  <2>4. \A n \in 0..last : it[n] \in Reading
    BY <2>3 DEF S
  <2> QED BY <1>7, <2>4
<1> QED BY <1>0, <1>8, <1>9, <1>10

(* A piece of a part is a part. *)
LEMMA PartOfPart ==
  ASSUME NEW s \in Seq(Marks), NEW L \in Nat, NEW M \in Nat, L <= M, NEW l, Part(l, s, L, M),
         NEW from \in Nat, NEW n \in Nat, from > 0, from <= n + 1, n <= M - L
  PROVE  Part(SubSeq(l, from, n), s, L + from - 1, L + n)
<1>1. PICK w \in Nat : w = M - L
  <2>1. M - L \in Nat
    OBVIOUS
  <2> QED BY <2>1
<1>2. l \in Seq(Marks) /\ Len(l) = w /\ \A k \in 1..w : l[k] = s[L + k]
  BY <1>1 DEF Part
<1>3. PICK piece : piece = SubSeq(l, from, n)
  OBVIOUS
<1>4. /\ piece \in Seq(Marks) /\ Len(piece) = IF from <= n THEN n - from + 1 ELSE 0
      /\ \A i \in 1..(n - from + 1) : piece[i] = l[from + i - 1]
  <2>1. n <= Len(l) /\ l \in Seq(Marks)
    BY <1>1, <1>2
  <2>2. /\ SubSeq(l, from, n) \in Seq(Marks)
        /\ Len(SubSeq(l, from, n)) = IF from <= n THEN n - from + 1 ELSE 0
        /\ \A i \in 1..(n - from + 1) : SubSeq(l, from, n)[i] = l[from + i - 1]
    BY <2>1, PieceIs
  <2> QED BY <1>3, <2>2
<1>5. PICK len \in Nat : len = n - from + 1 /\ len = (L + n) - (L + from - 1)
  <2>1. n - from + 1 \in Nat /\ n - from + 1 = (L + n) - (L + from - 1)
    OBVIOUS
  <2> QED BY <2>1
<1>6. Len(piece) = len
  BY <1>4, <1>5
<1>7. ASSUME NEW i \in 1..len PROVE piece[i] = s[(L + from - 1) + i]
  <2>1. from + i - 1 \in 1..w /\ L + (from + i - 1) = (L + from - 1) + i
    BY <1>1, <1>5
  <2>2. piece[i] = l[from + i - 1]
    BY <1>4, <1>5
  <2>3. l[from + i - 1] = s[L + (from + i - 1)]
    BY <1>2, <2>1
  <2> QED BY <2>1, <2>2, <2>3
<1> QED BY <1>3, <1>4, <1>5, <1>6, <1>7 DEF Part

(* What is read of the lines of an event, up to the one under way. *)
LineBegins(got, s, B, g, L) ==
  /\ L \in B..g /\ got.from = L - B + 1 /\ LineEnds(s, L) /\ Told(got.texts, got.done, s, L)
  /\ \A i \in (L + 1)..g : s[i] # "nl"

LEMMA EventTold ==
  ASSUME NEW s \in Seq(Marks), NEW B \in Nat, NEW E \in Nat, B <= E, E + 2 <= Len(s), LineEnds(s, B),
         s[E + 1] = "nl", s[E + 2] = "nl", NEW event, Part(event, s, B, E),
         NEW got \in Reading, Told(got.texts, got.done, s, B)
  PROVE  /\ Told(read_event(event, got).texts, read_event(event, got).done, s, E + 2)
         /\ read_event(event, got) \in Reading
<1>0. PICK w \in Nat : w = E - B /\ B + w = E
  <2>1. E - B \in Nat /\ B + (E - B) = E
    OBVIOUS
  <2> QED BY <2>1
<1>1. event \in Seq(Marks) /\ Len(event) = w /\ \A k \in 1..w : event[k] = s[B + k]
  BY <1>0 DEF Part
<1>2. PICK f \in [0..(w + 1) -> Reading] : InEvent(event, got, f) /\ read_event(event, got) = f[w + 1]
  BY <1>1, ReadEventIs
<1> DEFINE S == {n \in 0..(w + 1) : \E L \in Nat : LineBegins(f[n], s, B, B + n, L)}
<1>3. 0 \in S
  <2>1. 0 \in 0..(w + 1) /\ 0 \in 0..(Len(event) + 1) /\ B + 0 = B /\ B - B + 1 = 1
    BY <1>1
  <2>2. f[0] = [texts |-> got.texts, done |-> got.done, from |-> 1]
    BY <1>2, <2>1 DEF InEvent
  <2>3. f[0].texts = got.texts /\ f[0].done = got.done /\ f[0].from = 1
    BY <2>2
  <2>4. B \in B..B /\ \A i \in (B + 1)..B : FALSE
    OBVIOUS
  <2>5. LineBegins(f[0], s, B, B, B)
    BY <2>1, <2>3, <2>4 DEF LineBegins
  <2> QED BY <2>1, <2>5
<1>4. ASSUME NEW n \in 0..(w + 1), n # w + 1, n \in S PROVE n + 1 \in S
  <2>1. PICK L \in Nat : LineBegins(f[n], s, B, B + n, L)
    BY <1>4
  <2>2. PICK last \in Reading : last = f[n]
    BY <1>2
  <2>3. /\ L \in B..(B + n) /\ last.from = L - B + 1 /\ LineEnds(s, L) /\ Told(last.texts, last.done, s, L)
        /\ \A i \in (L + 1)..(B + n) : s[i] # "nl"
    BY <2>1, <2>2 DEF LineBegins
  <2>4. PICK m \in Nat : m = n + 1 /\ m - 1 = n /\ m # 0 /\ m \in 0..(w + 1) /\ m <= w + 1
    <3>1. n + 1 \in Nat /\ (n + 1) - 1 = n /\ n + 1 # 0 /\ n + 1 \in 0..(w + 1)
      BY <1>4
    <3> QED BY <3>1
  <2>5. f[m] = IF m <= w /\ event[m] # "nl" THEN last ELSE Line(SubSeq(event, last.from, n), last, m + 1)
    <3>1. m \in 0..(Len(event) + 1)
      BY <1>1, <2>4
    <3> QED BY <1>1, <1>2, <2>2, <2>4, <3>1 DEF InEvent
  <2>6. PICK g \in Nat : g = B + m /\ g = (B + n) + 1
    <3>1. B + m \in Nat /\ B + m = (B + n) + 1
      BY <2>4
    <3> QED BY <3>1
  <2>7. CASE m <= w /\ event[m] # "nl"
    <3>1. f[m] = last
      BY <2>5, <2>7
    <3>2. s[g] # "nl"
      <4>1. m \in 1..w
        BY <2>4, <2>7
      <4> QED BY <1>1, <2>6, <2>7, <4>1
    <3>3. \A i \in (L + 1)..g : i = g \/ i \in (L + 1)..(B + n)
      BY <2>6
    <3>4. L \in B..g
      BY <2>3, <2>6
    <3>5. LineBegins(f[m], s, B, g, L)
      BY <2>3, <3>1, <3>2, <3>3, <3>4 DEF LineBegins
    <3> QED BY <2>4, <2>6, <3>5
  <2>8. CASE ~(m <= w /\ event[m] # "nl")
    <3>1. s[g] = "nl" /\ g <= E + 1
      <4>1. CASE m <= w
        <5>1. m \in 1..w
          BY <2>4, <4>1
        <5> QED BY <1>0, <1>1, <2>6, <2>8, <4>1, <5>1
      <4>2. CASE ~(m <= w)
        <5>1. g = E + 1
          BY <1>0, <2>4, <2>6, <4>2
        <5> QED BY <5>1
      <4> QED BY <4>1, <4>2
    <3>2. PICK M \in Nat : M = B + n /\ g = M + 1 /\ L <= M /\ M + 1 <= Len(s)
      <4>1. B + n \in Nat /\ L <= B + n
        BY <2>3
      <4> QED BY <2>6, <3>1, <4>1
    <3>3. PICK l : l = SubSeq(event, last.from, n)
      OBVIOUS
    <3>4. Part(l, s, L, M)
      <4>1. PICK from \in Nat : from = last.from
        BY DEF Reading
      <4>2. from = L - B + 1
        BY <2>3, <4>1
      <4>3. from > 0 /\ from <= n + 1 /\ n <= E - B /\ n \in Nat
        BY <1>0, <2>3, <2>4, <4>2
      <4>4. Part(SubSeq(event, from, n), s, B + from - 1, B + n)
        BY <4>3, PartOfPart
      <4>5. B + from - 1 = L
        BY <4>2
      <4> QED BY <3>2, <3>3, <4>1, <4>4, <4>5
    <3>5. f[m] = Line(l, last, m + 1)
      BY <2>5, <2>8, <3>3
    <3>6. Told(f[m].texts, f[m].done, s, g) /\ f[m].from = m + 1
      <4>1. /\ Told(Line(l, last, m + 1).texts, Line(l, last, m + 1).done, s, M + 1)
            /\ Line(l, last, m + 1).from = m + 1
        <5>1. M + 1 <= Len(s) /\ s[M + 1] = "nl" /\ L <= M /\ LineEnds(s, L) /\ Told(last.texts, last.done, s, L)
          BY <2>3, <3>1, <3>2
        <5>2. \A i \in (L + 1)..M : s[i] # "nl"
          BY <2>3, <3>2
        <5> QED BY <3>4, <5>1, <5>2, LineTold
      <4> QED BY <3>2, <3>5, <4>1
    <3>7. g \in B..g /\ m + 1 = g - B + 1 /\ \A i \in (g + 1)..g : FALSE
      BY <2>6
    <3>8. LineEnds(s, g)
      BY <3>1, <3>2 DEF LineEnds
    <3>9. LineBegins(f[m], s, B, g, g)
      BY <3>6, <3>7, <3>8 DEF LineBegins
    <3> QED BY <2>4, <2>6, <3>9
  <2> QED BY <2>7, <2>8
<1> HIDE DEF S
<1>5. 0..(w + 1) \subseteq S
  <2>1. 0 \in Nat /\ w + 1 \in Nat
    OBVIOUS
  <2> QED BY <1>3, <1>4, <2>1, UpTo
<1>6. PICK L \in Nat : LineBegins(f[w + 1], s, B, B + (w + 1), L)
  <2>1. w + 1 \in S
    BY <1>5
  <2> QED BY <2>1 DEF S
<1>7. L = E + 1 /\ B + (w + 1) = E + 1
  <2>1. B + (w + 1) = E + 1
    BY <1>0
  <2>2. L \in B..(E + 1) /\ (E + 1 \in (L + 1)..(E + 1) => s[E + 1] # "nl")
    BY <1>6, <2>1 DEF LineBegins
  <2> QED BY <2>1, <2>2
<1>8. PICK r \in Reading : r = f[w + 1]
  BY <1>2
<1>9. Told(r.texts, r.done, s, E + 1)
  BY <1>6, <1>7, <1>8 DEF LineBegins
<1>10. Told(r.texts, r.done, s, E + 2)
  <2>1. PICK m \in Nat : m = E + 1 /\ m + 1 = E + 2
    OBVIOUS
  <2>2. Good(s, m + 1) = Good(s, m) /\ (DoneBy(s, m + 1) <=> DoneBy(s, m))
    BY <2>1, NothingInNewLine
  <2> QED BY <1>9, <2>1, <2>2 DEF Told
<1> QED BY <1>2, <1>8, <1>10

-----------------------------------------------------------------------------
(* A buffer, event by event. *)
InStream(b, f) ==
  \A n \in 0..Len(b) :
    f[n] = IF n = 0 THEN [texts |-> text, done |-> FALSE, from |-> 1]
           ELSE IF f[n - 1].done \/ n - 1 < f[n - 1].from \/ n - 1 \notin Blanks(b) THEN f[n - 1]
           ELSE [texts |-> read_event(SubSeq(b, f[n - 1].from, n - 2), f[n - 1]).texts,
                 done |-> read_event(SubSeq(b, f[n - 1].from, n - 2), f[n - 1]).done, from |-> n + 1]

LEMMA EventReads ==
  ASSUME NEW event \in Seq(Marks), NEW got \in Reading
  PROVE  read_event(event, got) \in Reading
<1>1. PICK f \in [0..(Len(event) + 1) -> Reading] : read_event(event, got) = f[Len(event) + 1]
  BY ReadEventIs
<1>2. Len(event) + 1 \in 0..(Len(event) + 1)
  <2>1. PICK w \in Nat : w = Len(event)
    OBVIOUS
  <2> QED BY <2>1
<1> QED BY <1>1, <1>2

LEMMA ReadIs ==
  ASSUME NEW b \in Seq(Marks), text \in Seq(Texts)
  PROVE  \E f \in [0..Len(b) -> Reading] : InStream(b, f) /\ read(b) = f[Len(b)]
<1>0. PICK last \in Nat : last = Len(b)
  OBVIOUS
<1> DEFINE first == [texts |-> text, done |-> FALSE, from |-> 1]
           ended(k, n) == read_event(SubSeq(b, k.from, n - 2), k)
           skips(k, n) == k.done \/ n - 1 < k.from \/ n - 1 \notin Blanks(b)
           add(k, n) == IF skips(k, n) THEN k ELSE [texts |-> ended(k, n).texts, done |-> ended(k, n).done, from |-> n + 1]
           value(f, n) == IF n = 0 THEN first ELSE add(f[n - 1], n)
           State == {k \in Reading : k.from > 0}
           adds == [n \in 0..last |-> [k \in State |-> IF n = 0 THEN k ELSE add(k, n)]]
           it == CHOOSE f : f = [n \in 0..last |-> value(f, n)]
<1>1. first \in State
  <2>1. PICK done \in BOOLEAN : done = FALSE
    OBVIOUS
  <2>2. PICK texts \in Seq(Texts) : texts = text
    OBVIOUS
  <2>3. PICK from \in Nat : from = 1
    OBVIOUS
  <2>4. [texts |-> texts, done |-> done, from |-> from] \in Reading
    BY ReadingIs
  <2>5. first = [texts |-> texts, done |-> done, from |-> from] /\ first.from = 1
    BY <2>1, <2>2, <2>3
  <2> HIDE DEF first
  <2> QED BY <2>4, <2>5
<1>2. ASSUME NEW n \in 0..last, NEW k \in State, n # 0 PROVE add(k, n) \in State
  <2>1. CASE skips(k, n)
    BY <2>1
  <2>2. CASE ~skips(k, n)
    <3>1. k.from \in Nat /\ k.from > 0 /\ k \in Reading
      BY DEF Reading
    <3>2. n - 1 \in Blanks(b)
      BY <2>2
    <3>3. n - 2 \in Nat /\ n - 2 <= Len(b) /\ n + 1 \in Nat /\ n + 1 > 0
      <4>1. n - 1 \in 1..(last - 1)
        BY <1>0, <3>2 DEF Blanks
      <4> QED BY <1>0, <4>1
    <3>4. PICK l \in Seq(Marks) : l = SubSeq(b, k.from, n - 2)
      BY <3>1, <3>3, PieceIs
    <3>5. PICK got \in Reading : got = ended(k, n)
      BY <3>1, <3>4, EventReads
    <3>6. got.texts \in Seq(Texts) /\ got.done \in BOOLEAN
      BY DEF Reading
    <3>7. [texts |-> got.texts, done |-> got.done, from |-> n + 1] \in Reading
      BY <3>3, <3>6, ReadingIs
    <3>8. add(k, n) = [texts |-> got.texts, done |-> got.done, from |-> n + 1]
      BY <2>2, <3>5
    <3>9. [texts |-> got.texts, done |-> got.done, from |-> n + 1].from > 0
      BY <3>3
    <3> HIDE DEF add
    <3> QED BY <3>7, <3>8, <3>9
  <2> HIDE DEF skips
  <2> QED BY <2>1, <2>2
<1>3. adds \in [0..last -> [State -> State]]
  <2> HIDE DEF add, State
  <2> QED BY <1>2
<1>4. PICK g \in [0..last -> State] : Computed(g, 0, last, first, adds)
  <2>1. 0 \in Nat /\ 0 <= last
    OBVIOUS
  <2> HIDE DEF adds, first, State
  <2> QED BY <1>1, <1>3, <2>1, Recursion
<1>5. ASSUME NEW n \in 0..last PROVE g[n] = value(g, n)
  <2> HIDE DEF add, first, State
  <2>1. n # 0 => n - 1 \in 0..last
    OBVIOUS
  <2>2. n # 0 => g[n - 1] \in State
    BY <2>1
  <2> QED BY <1>4, <2>2 DEF Computed
<1>6. g = [n \in 0..last |-> value(g, n)]
  <2> HIDE DEF value
  <2> QED BY <1>5
<1>7. it = [n \in 0..last |-> value(it, n)]
  <2> HIDE DEF value
  <2>1. \E f : f = [n \in 0..last |-> value(f, n)]
    BY <1>6
  <2> QED BY <2>1
<1>8. read(b) = it[last]
  BY <1>0 DEF read
<1> HIDE DEF it
<1>9. InStream(b, it)
  BY <1>0, <1>7 DEF InStream
<1>10. it \in [0..last -> Reading]
  <2> DEFINE S == {n \in 0..last : it[n] \in State}
  <2>1. 0 \in S
    <3>1. 0 \in 0..last
      OBVIOUS
    <3>2. it[0] = first
      BY <1>7, <3>1
    <3> HIDE DEF first, State
    <3> QED BY <1>1, <3>1, <3>2
  <2>2. ASSUME NEW n \in 0..last, n # last, n \in S PROVE n + 1 \in S
    <3>1. n + 1 \in 0..last /\ n + 1 # 0 /\ (n + 1) - 1 = n
      BY <2>2
    <3>2. it[n + 1] = add(it[n], n + 1)
      <4> HIDE DEF add, State
      <4> QED BY <1>7, <3>1
    <3>3. it[n] \in State
      BY <2>2
    <3> HIDE DEF add, State
    <3> QED BY <1>2, <3>1, <3>2, <3>3
  <2> HIDE DEF S
  <2>3. 0..last \subseteq S
    <3>1. 0 \in Nat
      OBVIOUS
    <3> QED BY <2>1, <2>2, <3>1, UpTo
  <2>4. \A n \in 0..last : it[n] \in Reading
    BY <2>3 DEF S
  <2> QED BY <1>7, <2>4
<1> QED BY <1>0, <1>8, <1>9, <1>10

(* What is read of the events of a stream, up to the one under way. *)
NoneEnds(s, B, g) == \A i \in (B + 1)..(g - 1) : ~(s[i] = "nl" /\ s[i + 1] = "nl")
EventBegins(got, s, base, g, B) ==
  /\ B \in base..g /\ got.from = B - base + 1 /\ Breaks(s, B) /\ Told(got.texts, got.done, s, B)
  /\ got.done \/ NoneEnds(s, B, g)

LEMMA ReadTold ==
  ASSUME text \in Seq(Texts), NEW s \in Seq(Marks), NEW base \in Nat, base <= Len(s), NEW b, Part(b, s, base, Len(s)),
         Breaks(s, base), Told(text, FALSE, s, base)
  PROVE  \E got \in Reading, B \in Nat : got = read(b) /\ EventBegins(got, s, base, Len(s), B)
<1>0. PICK w \in Nat : w = Len(s) - base /\ base + w = Len(s)
  <2>1. Len(s) - base \in Nat /\ base + (Len(s) - base) = Len(s)
    OBVIOUS
  <2> QED BY <2>1
<1>1. b \in Seq(Marks) /\ Len(b) = w /\ \A k \in 1..w : b[k] = s[base + k]
  BY <1>0 DEF Part
<1>2. PICK f \in [0..w -> Reading] : InStream(b, f) /\ read(b) = f[w]
  BY <1>1, ReadIs
<1> DEFINE S == {n \in 0..w : \E B \in Nat : EventBegins(f[n], s, base, base + n, B)}
<1>3. 0 \in S
  <2>1. 0 \in 0..w /\ 0 \in 0..Len(b) /\ base + 0 = base /\ base - base + 1 = 1
    BY <1>1
  <2>2. f[0] = [texts |-> text, done |-> FALSE, from |-> 1]
    BY <1>2, <2>1 DEF InStream
  <2>3. f[0].texts = text /\ f[0].done = FALSE /\ f[0].from = 1
    BY <2>2
  <2>4. base \in base..base /\ \A i \in (base + 1)..(base - 1) : FALSE
    OBVIOUS
  <2>5. EventBegins(f[0], s, base, base, base)
    BY <2>1, <2>3, <2>4 DEF EventBegins, NoneEnds
  <2> QED BY <2>1, <2>5
<1>4. ASSUME NEW n \in 0..w, n # w, n \in S PROVE n + 1 \in S
  <2>1. PICK B \in Nat : EventBegins(f[n], s, base, base + n, B)
    BY <1>4
  <2>2. PICK last \in Reading : last = f[n]
    BY <1>2
  <2>3. /\ B \in base..(base + n) /\ last.from = B - base + 1 /\ Breaks(s, B) /\ Told(last.texts, last.done, s, B)
        /\ last.done \/ NoneEnds(s, B, base + n)
    BY <2>1, <2>2 DEF EventBegins
  <2>4. PICK m \in Nat : m = n + 1 /\ m - 1 = n /\ m # 0 /\ m \in 0..w /\ m <= w
    <3>1. n + 1 \in Nat /\ (n + 1) - 1 = n /\ n + 1 # 0 /\ n + 1 \in 0..w
      BY <1>4
    <3> QED BY <3>1
  <2>5. f[m] = IF last.done \/ n < last.from \/ n \notin Blanks(b) THEN last
               ELSE [texts |-> read_event(SubSeq(b, last.from, m - 2), last).texts,
                     done |-> read_event(SubSeq(b, last.from, m - 2), last).done, from |-> m + 1]
    <3>1. m \in 0..Len(b)
      BY <1>1, <2>4
    <3> QED BY <1>2, <2>2, <2>4, <3>1 DEF InStream
  <2>6. PICK g \in Nat : g = base + m /\ g = (base + n) + 1 /\ g <= Len(s)
    <3>1. base + m \in Nat /\ base + m = (base + n) + 1 /\ base + m <= Len(s)
      BY <1>0, <2>4
    <3> QED BY <3>1
  <2>7. CASE last.done \/ n < last.from \/ n \notin Blanks(b)
    <3>1. f[m] = last
      BY <2>5, <2>7
    <3>2. B \in base..g
      BY <2>3, <2>6
    <3>3. CASE last.done
      <4>1. EventBegins(f[m], s, base, g, B)
        BY <2>3, <3>1, <3>2, <3>3 DEF EventBegins
      <4> QED BY <2>4, <2>6, <4>1
    <3>4. CASE ~last.done
      <4>1. ASSUME NEW i \in (B + 1)..(g - 1), s[i] = "nl", s[i + 1] = "nl" PROVE FALSE
        <5>1. CASE i = g - 1
          <6>1. i = base + n /\ i + 1 = base + m /\ n >= B - base + 1 /\ n \in 1..w /\ m \in 1..w /\ n <= w - 1
            BY <2>3, <2>4, <2>6, <4>1, <5>1
          <6>2. b[n] = "nl" /\ b[m] = "nl" /\ n \in 1..(Len(b) - 1) /\ m = n + 1
            BY <1>1, <2>4, <4>1, <6>1
          <6>3. n \in Blanks(b)
            BY <6>2 DEF Blanks
          <6> QED BY <2>3, <2>7, <3>4, <6>1, <6>3
        <5>2. CASE i # g - 1
          <6>1. i \in (B + 1)..((base + n) - 1)
            BY <2>6, <4>1, <5>2
          <6> QED BY <2>3, <3>4, <4>1, <6>1 DEF NoneEnds
        <5> QED BY <5>1, <5>2
      <4>2. NoneEnds(s, B, g)
        BY <4>1 DEF NoneEnds
      <4>3. EventBegins(f[m], s, base, g, B)
        BY <2>3, <3>1, <3>2, <4>2 DEF EventBegins
      <4> QED BY <2>4, <2>6, <4>3
    <3> QED BY <3>3, <3>4
  <2>8. CASE ~(last.done \/ n < last.from \/ n \notin Blanks(b))
    <3>1. n \in 1..(w - 1) /\ b[n] = "nl" /\ b[n + 1] = "nl" /\ last.done = FALSE
      <4>1. last.done \in BOOLEAN
        BY DEF Reading
      <4> QED BY <1>1, <2>8, <4>1 DEF Blanks
    <3>2. PICK E \in Nat : E = base + (m - 2) /\ E + 1 = base + n /\ E + 2 = g /\ B <= E
      <4>1. base + (m - 2) \in Nat /\ base + (m - 2) + 1 = base + n /\ base + (m - 2) + 2 = g /\ B <= base + (m - 2)
        BY <2>3, <2>4, <2>6, <2>8, <3>1
      <4> QED BY <4>1
    <3>3. s[E + 1] = "nl" /\ s[E + 2] = "nl" /\ E + 2 <= Len(s)
      <4>1. n \in 1..w /\ m \in 1..w
        BY <2>4, <3>1
      <4> QED BY <1>1, <2>4, <2>6, <3>1, <3>2, <4>1
    <3>4. PICK event : event = SubSeq(b, last.from, m - 2)
      OBVIOUS
    <3>5. Part(event, s, B, E)
      <4>1. PICK from \in Nat : from = last.from
        BY DEF Reading
      <4>2. from = B - base + 1
        BY <2>3, <4>1
      <4>3. PICK k \in Nat : k = m - 2
        <5>1. m - 2 \in Nat
          BY <2>4, <3>1
        <5> QED BY <5>1
      <4>4. from > 0 /\ from <= k + 1 /\ k <= Len(s) - base
        BY <1>0, <2>3, <2>4, <2>8, <4>1, <4>2, <4>3
      <4>5. Part(SubSeq(b, from, k), s, base + from - 1, base + k)
        BY <4>4, PartOfPart
      <4>6. base + from - 1 = B
        BY <2>3, <4>2
      <4> QED BY <3>2, <3>4, <4>1, <4>3, <4>5, <4>6
    <3>6. LineEnds(s, B)
      BY <2>3 DEF Breaks, LineEnds
    <3>7. PICK got \in Reading : got = read_event(event, last) /\ Told(got.texts, got.done, s, g)
      <4>1. Told(last.texts, last.done, s, B) /\ B \in Nat /\ B <= E
        BY <2>3, <3>2
      <4>2. Told(read_event(event, last).texts, read_event(event, last).done, s, E + 2) /\ read_event(event, last) \in Reading
        BY <3>3, <3>5, <3>6, <4>1, EventTold
      <4> QED BY <3>2, <4>2
    <3>8. f[m] = [texts |-> got.texts, done |-> got.done, from |-> m + 1]
      BY <2>5, <2>8, <3>4, <3>7
    <3>9. f[m].texts = got.texts /\ f[m].done = got.done /\ f[m].from = m + 1
      BY <3>8
    <3>10. g \in base..g /\ m + 1 = g - base + 1 /\ \A i \in (g + 1)..(g - 1) : FALSE
      BY <2>6
    <3>11. Breaks(s, g)
      <4>1. g >= 2 /\ g - 1 = E + 1 /\ g = E + 2 /\ g \in 0..Len(s)
        BY <3>2, <3>3
      <4> QED BY <3>3, <4>1 DEF Breaks
    <3>12. EventBegins(f[m], s, base, g, g)
      BY <3>7, <3>9, <3>10, <3>11 DEF EventBegins, NoneEnds
    <3> QED BY <2>4, <2>6, <3>12
  <2> QED BY <2>7, <2>8
<1> HIDE DEF S
<1>5. 0..w \subseteq S
  <2>1. 0 \in Nat
    OBVIOUS
  <2> QED BY <1>3, <1>4, <2>1, UpTo
<1>6. PICK B \in Nat : EventBegins(f[w], s, base, base + w, B)
  <2>1. w \in S
    BY <1>5
  <2> QED BY <2>1 DEF S
<1>7. f[w] \in Reading
  BY <1>2
<1> QED BY <1>0, <1>2, <1>6, <1>7

-----------------------------------------------------------------------------
(* What counts in a stream is what there was to be read in the events that have
   ended, if the rest has no end or [DONE] came before it. *)
LEMMA CountingIs ==
  ASSUME NEW s \in Seq(Marks), NEW B \in Nat, Breaks(s, B), DoneBy(s, B) \/ NoneEnds(s, B, Len(s))
  PROVE  Counting(s) = Good(s, B)
<1>0. PICK last \in Nat : last = Len(s) /\ B <= last
  BY DEF Breaks
<1>1. ASSUME NEW i \in Good(s, B) PROVE i \in Counting(s)
  <2>1. i \in 1..B /\ OnDataLine(s, i) /\ \A j \in 1..(i - 1) : ~IsDone(s, j)
    BY DEF Good
  <2>2. s[i] # "nl"
    <3>1. PICK a \in 1..(i - 1), b \in i..Len(s) : IsLine(s, a, b)
      BY <2>1 DEF OnDataLine
    <3>2. i \in a..b
      BY <2>1
    <3> QED BY <3>1, <3>2 DEF IsLine
  <2>3. B >= 2 /\ s[B] = "nl" /\ s[B - 1] = "nl"
    BY <2>1 DEF Breaks
  <2>4. i # B /\ i # B - 1
    BY <2>2, <2>3
  <2>5. B - 1 \in 1..(last - 1) /\ (B - 1) + 1 = B /\ i < B - 1
    BY <1>0, <2>1, <2>3, <2>4
  <2>6. B - 1 \in Blanks(s)
    BY <1>0, <2>3, <2>5 DEF Blanks
  <2>7. i \in DOMAIN s
    BY <1>0, <2>1
  <2> QED BY <2>1, <2>5, <2>6, <2>7 DEF Counting, Ended
<1>2. ASSUME NEW i \in Counting(s) PROVE i \in Good(s, B)
  <2>1. i \in 1..last /\ OnDataLine(s, i) /\ Ended(s, i) /\ \A j \in 1..(i - 1) : ~IsDone(s, j)
    BY <1>0 DEF Counting
  <2>2. CASE i > B
    <3>1. PICK j \in 1..(last - 1) : i < j /\ s[j] = "nl" /\ s[j + 1] = "nl"
      BY <1>0, <2>1 DEF Ended, Blanks
    <3>2. j \in (B + 1)..(Len(s) - 1)
      BY <1>0, <2>1, <2>2, <3>1
    <3>3. ~NoneEnds(s, B, Len(s))
      BY <3>1, <3>2 DEF NoneEnds
    <3>4. PICK d \in 1..B : IsDone(s, d)
      BY <3>3 DEF DoneBy
    <3>5. d \in 1..(i - 1)
      BY <2>1, <2>2
    <3> QED BY <2>1, <3>4, <3>5
  <2>3. CASE i <= B
    <3>1. i \in 1..B
      BY <2>1, <2>3
    <3> QED BY <2>1, <3>1 DEF Good
  <2> QED BY <2>1, <2>2, <2>3
<1> QED BY <1>1, <1>2

(* Two streams that agree up to the end of a line have the same lines there. *)
Agree(s, t, B) == B <= Len(s) /\ B <= Len(t) /\ (\A i \in 1..B : s[i] = t[i]) /\ (B = 0 \/ s[B] = "nl")

LEMMA SameLines ==
  ASSUME NEW s \in Seq(Marks), NEW t \in Seq(Marks), NEW B \in Nat, Agree(s, t, B), NEW i \in 1..B
  PROVE  /\ OnDataLine(s, i) => OnDataLine(t, i)
         /\ IsDone(s, i) => IsDone(t, i)
<1>0. PICK last \in Nat, end \in Nat : last = Len(s) /\ end = Len(t) /\ B <= last /\ B <= end
  BY DEF Agree
<1>1. \A k \in 1..B : s[k] = t[k]
  BY DEF Agree
<1>2. s[B] = "nl" /\ B >= 1
  BY DEF Agree
<1>3. ASSUME NEW a \in 1..i, NEW b \in i..last, IsLine(s, a, b)
      PROVE  b < B /\ IsLine(t, a, b)
  <2>1. b < B
    <3>1. CASE b >= B
      <4>1. B \in a..b
        BY <3>1
      <4> QED BY <1>2, <1>3, <4>1 DEF IsLine
    <3> QED BY <3>1
  <2>2. b # last /\ b + 1 \in 1..B
    BY <1>0, <2>1
  <2>3. s[b + 1] = "nl"
    BY <1>0, <1>3, <2>2 DEF IsLine
  <2>4. a # 1 => a - 1 \in 1..B
    OBVIOUS
  <2>5. a = 1 \/ t[a - 1] = "nl"
    BY <1>1, <1>3, <2>4 DEF IsLine
  <2>6. \A k \in a..b : k \in 1..B
    BY <2>1
  <2>7. \A k \in a..b : t[k] # "nl"
    BY <1>1, <1>3, <2>6 DEF IsLine
  <2>8. t[b + 1] = "nl"
    BY <1>1, <2>2, <2>3
  <2> QED BY <2>1, <2>5, <2>7, <2>8 DEF IsLine
<1>4. ASSUME OnDataLine(s, i) PROVE OnDataLine(t, i)
  <2>1. PICK a \in 1..(i - 1), b \in i..last : IsLine(s, a, b) /\ s[a] = "data" /\ \A j \in (a + 1)..b : s[j] \in Texts
    BY <1>0, <1>4 DEF OnDataLine
  <2>2. b < B /\ IsLine(t, a, b)
    <3>1. a \in 1..i
      OBVIOUS
    <3> QED BY <1>3, <2>1, <3>1
  <2>3. a \in 1..B /\ \A j \in (a + 1)..b : j \in 1..B
    BY <2>2
  <2>4. t[a] = "data" /\ \A j \in (a + 1)..b : t[j] \in Texts
    BY <1>1, <2>1, <2>3
  <2>5. b \in i..Len(t)
    BY <1>0, <2>2
  <2> QED BY <2>2, <2>4, <2>5 DEF OnDataLine
<1>5. ASSUME IsDone(s, i) PROVE IsDone(t, i)
  <2>1. i > 1 /\ s[i - 1] = "data" /\ s[i] = "done" /\ IsLine(s, i - 1, i)
    BY <1>5 DEF IsDone
  <2>2. i - 1 \in 1..i /\ i \in i..last /\ i - 1 \in 1..B
    BY <1>0, <2>1
  <2>3. IsLine(t, i - 1, i)
    BY <1>3, <2>1, <2>2
  <2>4. t[i - 1] = "data" /\ t[i] = "done"
    BY <1>1, <2>1, <2>2
  <2> QED BY <2>1, <2>3, <2>4 DEF IsDone
<1> QED BY <1>4, <1>5

LEMMA SameReading ==
  ASSUME NEW s \in Seq(Marks), NEW t \in Seq(Marks), NEW B \in Nat, Agree(s, t, B), NEW texts, NEW done, Told(texts, done, s, B)
  PROVE  Told(texts, done, t, B)
<1>1. Agree(t, s, B)
  BY DEF Agree
<1>2. ASSUME NEW i \in 1..B PROVE (OnDataLine(s, i) <=> OnDataLine(t, i)) /\ (IsDone(s, i) <=> IsDone(t, i))
  BY <1>1, SameLines
<1>3. Good(s, B) = Good(t, B)
  <2>1. \A i \in 1..B : \A j \in 1..(i - 1) : j \in 1..B
    OBVIOUS
  <2> QED BY <1>2, <2>1 DEF Good
<1>4. DoneBy(s, B) <=> DoneBy(t, B)
  BY <1>2 DEF DoneBy
<1>5. \A i \in Good(s, B) : s[i] = t[i]
  BY DEF Good, Agree
<1>6. Picks(texts, t, Good(t, B))
  BY <1>3, <1>5 DEF Told, Picks
<1> QED BY <1>4, <1>6 DEF Told

-----------------------------------------------------------------------------
(* A completion: the buffer is what has arrived behind the events that have
   ended, the text what there was to be read in these. *)
CutAt(t, s, b, B) ==
  /\ B <= Len(s) /\ Part(b, s, B, Len(s)) /\ Breaks(s, B) /\ Told(t, FALSE, s, B) /\ NoneEnds(s, B, Len(s))
Cut(t, s, b) == \E B \in Nat : CutAt(t, s, b, B)
StreamInv ==
  /\ sent \in Seq(Marks) /\ buffer \in Seq(Marks) /\ text \in Seq(Texts)
  /\ step \in {"idle", "asked"} => sent = <<>> /\ buffer = <<>> /\ text = <<>>
  /\ step = "stream" => Cut(text, sent, buffer)
  /\ StreamIsReadWhole

LEMMA NothingCut == Cut(<<>>, <<>>, <<>>)
<1>1. <<>> \in Seq(Marks) /\ <<>> \in Seq(Texts) /\ Len(<<>>) = 0
  OBVIOUS
<1>2. PICK e : e = <<>> /\ e \in Seq(Marks) /\ e \in Seq(Texts) /\ Len(e) = 0
  BY <1>1
<1>3. Good(e, 0) = {} /\ ~DoneBy(e, 0)
  BY DEF Good, DoneBy
<1>4. Picks(e, e, {})
  BY <1>2, FS_EmptySet DEF Picks
<1>5. Told(e, FALSE, e, 0)
  BY <1>2, <1>3, <1>4 DEF Told
<1>6. Part(e, e, 0, 0) /\ Breaks(e, 0) /\ NoneEnds(e, 0, 0) /\ 0 \in Nat /\ 0 <= 0
  BY <1>2 DEF Part, Breaks, NoneEnds
<1>7. CutAt(e, e, e, 0)
  BY <1>2, <1>5, <1>6 DEF CutAt
<1> QED BY <1>2, <1>6, <1>7 DEF Cut

(* What the property says of a text and a stream. *)
Whole(t, s) ==
  /\ Len(t) = Cardinality(Counting(s))
  /\ \A i \in Counting(s) : t[Cardinality({j \in Counting(s) : j <= i})] = s[i]

LEMMA ToldIsWhole ==
  ASSUME NEW s \in Seq(Marks), NEW B \in Nat, Breaks(s, B), NEW t, NEW done, Told(t, done, s, B),
         done \/ NoneEnds(s, B, Len(s))
  PROVE  Whole(t, s)
<1>1. DoneBy(s, B) \/ NoneEnds(s, B, Len(s))
  BY DEF Told
<1>2. Counting(s) = Good(s, B)
  BY <1>1, CountingIs
<1> QED BY <1>2 DEF Told, Picks, Whole

LEMMA ReceivedIsCut ==
  ASSUME StreamInv, Cut(text, sent, buffer), NEW chunk \in Seq(Marks)
  PROVE  \E got \in Reading, S \in Seq(Marks), b \in Seq(Marks), rest \in Seq(Marks) :
            /\ S = sent \o chunk /\ b = buffer \o chunk /\ got = read(b) /\ rest = SubSeq(b, got.from, Len(b))
            /\ Whole(got.texts, S) /\ (~got.done => Cut(got.texts, S, rest))
<1>1. PICK base \in Nat : CutAt(text, sent, buffer, base)
  BY DEF Cut
<1>2. PICK s \in Seq(Marks), p \in Nat : s = sent /\ p = Len(s) /\ base <= p
  BY <1>1 DEF StreamInv, CutAt
<1>3. PICK w \in Nat, c \in Nat : w = p - base /\ base + w = p /\ c = Len(chunk)
  <2>1. p - base \in Nat /\ base + (p - base) = p /\ Len(chunk) \in Nat
    BY <1>2
  <2> QED BY <2>1
<1>4. buffer \in Seq(Marks) /\ Len(buffer) = w /\ \A k \in 1..w : buffer[k] = s[base + k]
  BY <1>1, <1>2, <1>3 DEF CutAt, Part
<1>5. PICK S : S = sent \o chunk
  OBVIOUS
<1>6. S \in Seq(Marks) /\ Len(S) = p + c /\ \A i \in 1..(p + c) : S[i] = IF i <= p THEN s[i] ELSE chunk[i - p]
  BY <1>2, <1>3, <1>5, ConcatProperties
<1>7. PICK b : b = buffer \o chunk
  OBVIOUS
<1>8. b \in Seq(Marks) /\ Len(b) = w + c /\ \A i \in 1..(w + c) : b[i] = IF i <= w THEN buffer[i] ELSE chunk[i - w]
  <2>1. PICK x \in Seq(Marks) : x = buffer /\ Len(x) = w /\ b = x \o chunk
    BY <1>4, <1>7
  <2>2. /\ x \o chunk \in Seq(Marks) /\ Len(x \o chunk) = Len(x) + Len(chunk)
        /\ \A i \in 1..(Len(x) + Len(chunk)) : (x \o chunk)[i] = IF i <= Len(x) THEN x[i] ELSE chunk[i - Len(x)]
    BY ConcatProperties
  <2> QED BY <1>3, <2>1, <2>2
<1>9. Part(b, S, base, Len(S))
  <2>1. (p + c) - base = w + c
    BY <1>3
  <2>2. ASSUME NEW k \in 1..(w + c) PROVE b[k] = S[base + k]
    <3>1. base + k \in 1..(p + c)
      BY <1>3
    <3>2. CASE k <= w
      <4>1. base + k <= p /\ k \in 1..w
        BY <1>3, <3>2
      <4> QED BY <1>4, <1>6, <1>8, <3>1, <3>2, <4>1
    <3>3. CASE ~(k <= w)
      <4>1. ~(base + k <= p) /\ (base + k) - p = k - w
        BY <1>3, <3>3
      <4> QED BY <1>6, <1>8, <3>1, <3>3, <4>1
    <3> QED BY <3>2, <3>3
  <2> QED BY <1>6, <1>8, <2>1, <2>2 DEF Part
<1>10. Breaks(s, base) /\ Told(text, FALSE, s, base)
  BY <1>1, <1>2 DEF CutAt
<1>11. Agree(s, S, base)
  <2>1. base <= Len(s) /\ base <= Len(S)
    BY <1>2, <1>6
  <2>2. ASSUME NEW i \in 1..base PROVE s[i] = S[i]
    <3>1. i \in 1..(p + c) /\ i <= p
      BY <1>2
    <3> QED BY <1>6, <3>1
  <2>3. base = 0 \/ s[base] = "nl"
    BY <1>10 DEF Breaks
  <2> QED BY <2>1, <2>2, <2>3 DEF Agree
<1>12. Told(text, FALSE, S, base)
  BY <1>6, <1>10, <1>11, SameReading
<1>13. Breaks(S, base)
  <2>1. base \in 0..Len(S)
    BY <1>2, <1>6
  <2>2. base >= 2 => base \in 1..base /\ base - 1 \in 1..base
    OBVIOUS
  <2> QED BY <1>10, <1>11, <2>1, <2>2 DEF Breaks, Agree
<1>14. PICK got \in Reading, B \in Nat : got = read(b) /\ EventBegins(got, S, base, Len(S), B)
  <2>1. text \in Seq(Texts) /\ base <= Len(S)
    BY <1>2, <1>6 DEF StreamInv
  <2> QED BY <1>6, <1>9, <1>12, <1>13, <2>1, ReadTold
<1>15. /\ B \in base..(p + c) /\ got.from = B - base + 1 /\ Breaks(S, B) /\ Told(got.texts, got.done, S, B)
       /\ got.done \/ NoneEnds(S, B, Len(S))
  BY <1>6, <1>14 DEF EventBegins
<1>16. Whole(got.texts, S)
  BY <1>6, <1>15, ToldIsWhole
<1>17. PICK rest : rest = SubSeq(b, got.from, Len(b))
  OBVIOUS
<1>18. Part(rest, S, B, Len(S))
  <2>1. PICK from \in Nat, n \in Nat : from = got.from /\ n = Len(b) /\ from = B - base + 1 /\ n = w + c
    BY <1>8, <1>15 DEF Reading
  <2>2. PICK q \in Nat : q = Len(S) /\ q = p + c
    BY <1>6
  <2>3. from > 0 /\ from <= n + 1 /\ n <= q - base /\ base <= q
    BY <1>3, <1>15, <2>1, <2>2
  <2>4. Part(b, S, base, q)
    BY <1>9, <2>2
  <2>5. Part(SubSeq(b, from, n), S, base + from - 1, base + n)
    BY <1>6, <2>3, <2>4, PartOfPart
  <2>6. base + from - 1 = B /\ base + n = q
    BY <1>3, <1>15, <2>1, <2>2
  <2> QED BY <1>17, <2>1, <2>2, <2>5, <2>6
<1>19. rest \in Seq(Marks) /\ got.texts \in Seq(Texts)
  BY <1>18 DEF Part, Reading
<1>20. ASSUME ~got.done PROVE Cut(got.texts, S, rest)
  <2>1. got.done = FALSE
    BY <1>20 DEF Reading
  <2>2. B <= Len(S)
    BY <1>6, <1>15
  <2>3. CutAt(got.texts, S, rest, B)
    BY <1>15, <1>18, <2>1, <2>2 DEF CutAt
  <2> QED BY <2>3 DEF Cut
<1>21. /\ S = sent \o chunk /\ b = buffer \o chunk /\ got = read(b) /\ rest = SubSeq(b, got.from, Len(b))
       /\ Whole(got.texts, S) /\ (~got.done => Cut(got.texts, S, rest))
  BY <1>5, <1>7, <1>14, <1>16, <1>17, <1>20
<1>22. S \in Seq(Marks) /\ b \in Seq(Marks) /\ rest \in Seq(Marks)
  BY <1>6, <1>8, <1>19
<1> QED BY <1>21, <1>22

LEMMA ChunksAreMarks == Chunks \subseteq Seq(Marks)
<1>1. ASSUME NEW n \in 1..MaxChunk, NEW chunk \in [1..n -> Marks] PROVE chunk \in Seq(Marks)
  <2>1. n \in Nat
    BY StreamAssumption
  <2> QED BY <2>1
<1> QED BY <1>1 DEF Chunks

LEMMA WholeIs == StreamIsReadWhole <=> (step \in {"stream", "ok"} /\ provider.is_codex_oauth => Whole(text, sent))
BY DEF StreamIsReadWhole, Whole

LEMMA StreamStarts == CompletionInit => StreamInv
<1>1. <<>> \in Seq(Marks) /\ <<>> \in Seq(Texts)
  OBVIOUS
<1> QED BY <1>1 DEF CompletionInit, StreamInv, StreamIsReadWhole

LEMMA StreamStep ==
  ASSUME StreamInv, [CompletionNext \/ Taken]_completion_vars
  PROVE  StreamInv'
<1>0. /\ sent \in Seq(Marks) /\ buffer \in Seq(Marks) /\ text \in Seq(Texts)
      /\ step \in {"idle", "asked"} => sent = <<>> /\ buffer = <<>> /\ text = <<>>
      /\ step = "stream" => Cut(text, sent, buffer)
      /\ step \in {"stream", "ok"} /\ provider.is_codex_oauth => Whole(text, sent)
  BY WholeIs DEF StreamInv
<1> SUFFICES /\ sent' \in Seq(Marks) /\ buffer' \in Seq(Marks) /\ text' \in Seq(Texts)
             /\ step' \in {"idle", "asked"} => sent' = <<>> /\ buffer' = <<>> /\ text' = <<>>
             /\ step' = "stream" => Cut(text', sent', buffer')
             /\ step' \in {"stream", "ok"} /\ provider'.is_codex_oauth => Whole(text', sent')
  BY DEF StreamInv, StreamIsReadWhole, Whole, Cut, CutAt
<1>1. CASE complete
  BY <1>0, <1>1 DEF complete
<1>2. CASE Fails
  BY <1>0, <1>2 DEF Fails
<1>3. CASE Body
  <2>1. PICK t \in {<<>>} \cup {<<x>> : x \in Texts} : text' = t
    BY <1>3 DEF Body
  <2>2. t \in Seq(Texts)
    <3>1. <<>> \in Seq(Texts) /\ \A x \in Texts : <<x>> \in Seq(Texts)
      OBVIOUS
    <3> QED BY <3>1
  <2> QED BY <1>0, <1>3, <2>1, <2>2 DEF Body
<1>4. CASE Streams
  <2>1. sent' = <<>> /\ buffer' = <<>> /\ text' = <<>> /\ step' = "stream" /\ <<>> \in Seq(Marks) /\ <<>> \in Seq(Texts)
    BY <1>0, <1>4 DEF Streams
  <2>2. Cut(<<>>, <<>>, <<>>)
    BY NothingCut
  <2>3. Whole(<<>>, <<>>)
    <3>1. PICK B \in Nat : CutAt(<<>>, <<>>, <<>>, B)
      BY <2>2 DEF Cut
    <3>2. PICK e \in Seq(Marks) : e = <<>>
      BY <2>1
    <3>3. Breaks(e, B) /\ Told(e, FALSE, e, B) /\ NoneEnds(e, B, Len(e))
      BY <3>1, <3>2 DEF CutAt
    <3>4. Whole(e, e)
      BY <3>3, ToldIsWhole
    <3> QED BY <3>2, <3>4
  <2> QED BY <2>1, <2>2, <2>3
<1>5. CASE Closed
  BY <1>0, <1>5 DEF Closed
<1>6. ASSUME NEW chunk \in Chunks, Chunk(chunk)
      PROVE  /\ sent' \in Seq(Marks) /\ buffer' \in Seq(Marks) /\ text' \in Seq(Texts)
             /\ step' \in {"idle", "asked"} => sent' = <<>> /\ buffer' = <<>> /\ text' = <<>>
             /\ step' = "stream" => Cut(text', sent', buffer')
             /\ step' \in {"stream", "ok"} /\ provider'.is_codex_oauth => Whole(text', sent')
  <2>1. chunk \in Seq(Marks)
    BY ChunksAreMarks
  <2>2. step = "stream" /\ Cut(text, sent, buffer)
    BY <1>0, <1>6 DEF Chunk, Received
  <2>3. PICK got \in Reading, S \in Seq(Marks), b \in Seq(Marks), rest \in Seq(Marks) :
            /\ S = sent \o chunk /\ b = buffer \o chunk /\ got = read(b) /\ rest = SubSeq(b, got.from, Len(b))
            /\ Whole(got.texts, S) /\ (~got.done => Cut(got.texts, S, rest))
    BY <2>1, <2>2, ReceivedIsCut
  <2>4. Received(chunk, b)
    BY <1>6, <2>3 DEF Chunk
  <2>5. sent' = S /\ text' = got.texts /\ buffer' = rest /\ step' = IF got.done THEN "ok" ELSE "stream"
    BY <2>3, <2>4 DEF Received
  <2>6. got.texts \in Seq(Texts)
    BY DEF Reading
  <2>7. step' = "stream" => Cut(text', sent', buffer')
    BY <2>3, <2>5
  <2>8. Whole(text', sent') /\ step' \notin {"idle", "asked"}
    BY <2>3, <2>5
  <2>9. sent' \in Seq(Marks) /\ buffer' \in Seq(Marks) /\ text' \in Seq(Texts)
    BY <2>5, <2>6
  <2> QED BY <2>7, <2>8, <2>9
<1>7. CASE Taken
  <2>1. <<>> \in Seq(Marks) /\ <<>> \in Seq(Texts)
    OBVIOUS
  <2> QED BY <1>7, <2>1 DEF Taken
<1>8. CASE UNCHANGED completion_vars
  BY <1>0, <1>8 DEF completion_vars, completion
<1>9. \/ complete \/ Fails \/ Body \/ Streams \/ Closed \/ Taken \/ UNCHANGED completion_vars
      \/ \E chunk \in Chunks : Chunk(chunk)
  BY DEF CompletionNext, read_codex_stream
<1> QED BY <1>1, <1>2, <1>3, <1>4, <1>5, <1>6, <1>7, <1>8, <1>9

(* However the stream of an answer is cut into pieces, the text is what the
   events that had ended before [DONE] say, each once and in their order. *)
THEOREM StreamWhole == CompletionSpec => []StreamIsReadWhole
<1>1. StreamInv => StreamIsReadWhole
  BY DEF StreamInv
<1> QED BY StreamStarts, StreamStep, <1>1, PTL DEF CompletionSpec
=============================================================================

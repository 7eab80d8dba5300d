-------------------------------- MODULE Wiki --------------------------------
(* The OKF wiki on disk: ingesting sources and importing n8n workflows
   (argos-knowledge/src/ingest.rs, bundle.rs, raw.rs;
   argos-n8n-connector/src/importer.rs).

   A page is a file, and its path is its identity.  std::fs::write empties a
   file before it writes it, and nothing is locked: tasks, of one process or
   of several, work on the files at the same time, and any of them may stop
   between two steps, by an error or with its process.  (A raw source is
   written in one step: nothing modelled here reads it again.) *)
EXTENDS Naturals, FiniteSets

CONSTANTS
  Tasks,
  Sources,      \* raw sources, by what they hold
  Workflows,    \* n8n workflows, by id
  Paths,
  source_path,  \* the path of the page on a source, from its hash
  slug_path,    \* the path of a workflow's name
  id_path       \* the path of its name and the first eight characters of its id

ASSUME PathAssumption ==
  /\ source_path \in [Sources -> Paths] /\ slug_path \in [Workflows -> Paths] /\ id_path \in [Workflows -> Paths]
  /\ \A s, u \in Sources : source_path[s] = source_path[u] => s = u
  /\ \A s \in Sources, w \in Workflows : source_path[s] \notin {slug_path[w], id_path[w]}

ASSUME KindAssumption == Sources \cap Workflows = {} /\ {"absent", "torn", "authored"} \cap (Sources \cup Workflows) = {}

VARIABLES
  raw,      \* the sources stored
  page,     \* per path, the file: whose page it holds, or "authored" by hand
  index,    \* index.md: the paths it lists; an emptied file lists none
  logged,   \* log.md: the sources it names
  op,       \* per task, its operation and where it is
  overlap,  \* history: "index" or "import", if two tasks were at it at once
  cut,      \* history: whether a task stopped while index.md was empty
  imported  \* history: the workflows whose pages were written

files == <<raw, page, index, logged>>
history == <<overlap, cut, imported>>
vars == <<files, op, history>>

Held == Sources \cup Workflows
Idle == [kind |-> "none", pc |-> "idle", todo |-> {}, of |-> {}, path |-> {}, seen |-> {}]

(* todo are the workflows left to import; of and path, whose page is written
   and where; seen is what was read: the resources of the bundle, or the index. *)
Op == [kind : {"none", "ingest", "import"}, todo : SUBSET Workflows, of : SUBSET Held, path : SUBSET Paths,
       seen : SUBSET (Paths \cup Workflows),
       pc : {"idle", "raw", "page", "complete", "write", "write.", "index", "index.", "index..",
             "log", "read", "next", "done", "skipped", "failed"}]

TypeOK ==
  /\ raw \subseteq Sources
  /\ page \in [Paths -> {"absent", "torn", "authored"} \cup Held]
  /\ index \subseteq Paths /\ logged \subseteq Sources
  /\ op \in [Tasks -> Op]
  /\ overlap \subseteq {"index", "import"} /\ cut \in BOOLEAN /\ imported \subseteq Workflows

Init ==
  /\ raw = {} /\ page = [p \in Paths |-> "absent"]
  /\ index = {} /\ logged = {}
  /\ op = [t \in Tasks |-> Idle]
  /\ overlap = {} /\ cut = FALSE /\ imported = {}

At(t, pc) == op[t].pc = pc
Go(t, pc) == op' = [op EXCEPT ![t].pc = pc]
End(t, pc) == op' = [op EXCEPT ![t] = [Idle EXCEPT !.pc = pc]]
-----------------------------------------------------------------------------
(* ingest. *)

BeginIngest(t, s) ==
  /\ At(t, "idle")
  /\ op' = [op EXCEPT ![t] = [Idle EXCEPT !.kind = "ingest", !.pc = "raw", !.of = {s}, !.path = {source_path[s]}]]
  /\ UNCHANGED <<files, history>>

(* store_raw: the file is written unless it exists. *)
StoreRaw(t) ==
  /\ At(t, "raw") /\ Go(t, "page")
  /\ raw' = raw \cup op[t].of
  /\ UNCHANGED <<page, index, logged, history>>

(* A source that has a page is skipped; else the provider is asked for a
   summary. *)
CheckPage(t) ==
  /\ At(t, "page")
  /\ IF \E p \in op[t].path : page[p] # "absent" THEN End(t, "skipped") ELSE Go(t, "complete")
  /\ UNCHANGED <<files, history>>

(* Defect: The index is written before the page. *)
CompleteToIndex(t) == At(t, "complete") /\ Go(t, "index") /\ UNCHANGED <<files, history>>

Complete(t) == At(t, "complete") /\ Go(t, "write") /\ UNCHANGED <<files, history>>

(* write_concept, in its two steps. *)
WriteConcept(t) ==
  \E p \in op[t].path, c \in op[t].of :
    /\ \/ At(t, "write") /\ page' = [page EXCEPT ![p] = "torn"] /\ Go(t, "write.") /\ UNCHANGED imported
       \/ At(t, "write.") /\ page' = [page EXCEPT ![p] = c]
          /\ Go(t, IF c \in Sources THEN "index" ELSE "next")
          /\ imported' = imported \cup ({c} \cap Workflows)
    /\ UNCHANGED <<raw, index, logged, overlap, cut>>

ReadIndex(t) ==
  /\ At(t, "index")
  /\ op' = [op EXCEPT ![t].pc = "index.", ![t].seen = index]
  /\ overlap' = overlap \cup (IF \E u \in Tasks : op[u].pc \in {"index.", "index.."} THEN {"index"} ELSE {})
  /\ UNCHANGED <<files, cut, imported>>

(* write_index of what was read, with the line of this page if it lacks it. *)
WriteIndex(t) ==
  /\ \/ At(t, "index.") /\ index' = {} /\ Go(t, "index..")
     \/ At(t, "index..") /\ index' = op[t].seen \cup op[t].path /\ Go(t, "log")
  /\ UNCHANGED <<raw, page, logged, history>>

(* append_log, to a file opened for appending. *)
AppendLog(t) ==
  /\ At(t, "log")
  /\ op' = [op EXCEPT ![t] = [Idle EXCEPT !.kind = "ingest", !.pc = "done", !.path = op[t].path]]
  /\ logged' = logged \cup op[t].of
  /\ UNCHANGED <<raw, page, index, history>>
-----------------------------------------------------------------------------
(* import_all of what n8n lists; import_workflow, of one. *)

BeginImport(t, listed) ==
  /\ At(t, "idle")
  /\ op' = [op EXCEPT ![t] = [Idle EXCEPT !.kind = "import", !.pc = "read", !.todo = listed]]
  /\ UNCHANGED <<files, history>>

(* read_bundle fails on a page that does not parse. *)
Readable == \A p \in Paths : page[p] # "torn"

existing_resources == {w \in Workflows : \E p \in Paths : page[p] = w}

ReadBundle(t) ==
  /\ At(t, "read") /\ Readable
  /\ op' = [op EXCEPT ![t].pc = "next", ![t].seen = existing_resources]
  /\ overlap' = overlap \cup
       (IF \E u \in Tasks : op[u].kind = "import" /\ op[u].pc \in {"next", "write", "write."} THEN {"import"} ELSE {})
  /\ UNCHANGED <<files, cut, imported>>

(* Defect: The path of the name is taken, whether or not it exists. *)
slug_only(w) == slug_path[w]

(* unique_path does not look whether the second path exists. *)
unique_path(w) == IF page[slug_path[w]] = "absent" THEN slug_path[w] ELSE id_path[w]

(* Defect: The bundle is read, and nothing skipped. *)
ImportNextAnew(t) ==
  /\ At(t, "next")
  /\ \/ op[t].todo = {} /\ End(t, "done")
     \/ \E w \in op[t].todo :
          op' = [op EXCEPT ![t] = [@ EXCEPT !.todo = op[t].todo \ {w}, !.of = {w}, !.path = {unique_path(w)}, !.pc = "write"]]
  /\ UNCHANGED <<files, history>>

ImportNext(t) ==
  /\ At(t, "next")
  /\ \/ op[t].todo = {} /\ End(t, "done")
     \/ \E w \in op[t].todo :
          op' = [op EXCEPT ![t] =
                   IF w \in op[t].seen THEN [@ EXCEPT !.todo = op[t].todo \ {w}]
                   ELSE [@ EXCEPT !.todo = op[t].todo \ {w}, !.of = {w}, !.path = {unique_path(w)}, !.pc = "write"]]
  /\ UNCHANGED <<files, history>>
-----------------------------------------------------------------------------
Over == {"idle", "done", "skipped", "failed"}

(* A call fails, or the process ends: what was half written stays. *)
Stop(t) ==
  /\ op[t].pc \notin Over
  /\ End(t, "failed")
  /\ cut' = (cut \/ At(t, "index.."))
  /\ UNCHANGED <<files, overlap, imported>>

Step(t) ==
  \/ StoreRaw(t) \/ CheckPage(t) \/ Complete(t) \/ WriteConcept(t) \/ ReadIndex(t) \/ WriteIndex(t) \/ AppendLog(t)
  \/ ReadBundle(t) \/ ImportNext(t) \/ Stop(t)

Next ==
  \E t \in Tasks :
    Step(t) \/ (\E s \in Sources : BeginIngest(t, s)) \/ (\E listed \in SUBSET Workflows \ {{}} : BeginImport(t, listed))

Spec == Init /\ [][Next]_vars
-----------------------------------------------------------------------------
(* Properties. *)

(* What index.md and log.md say of the pages is right and complete
   (ingest.rs:102-129).

   The page comes before its line in the index and in the log, so these never
   name a page that is not there, wherever tasks stop and whatever ingests are
   under way at the same time. *)
IndexAndLogNamePages ==
  /\ \A p \in index : page[p] # "absent"
  /\ \A s \in logged : page[source_path[s]] # "absent"

(* What was ingested stays listed, unless two ingests updated the index at the
   same time or one stopped while the file was empty. *)
IngestsStayListed ==
  "index" \notin overlap /\ ~cut =>
    \A t \in Tasks : op[t].kind = "ingest" /\ At(t, "done") =>
      op[t].path \subseteq index \/ \E u \in Tasks : At(u, "index..") /\ op[t].path \subseteq op[u].seen

PagesAreListed == IndexAndLogNamePages /\ IngestsStayListed

(* "re-imports are idempotent": no workflow gets two pages, however imports
   stop, are repeated and ingests go on meanwhile, unless two imports were
   under way at once. *)
OnePagePerWorkflow ==
  "import" \notin overlap => \A p, q \in Paths : page[p] = page[q] /\ page[p] \in Workflows => p = q

(* "when the slug-based path already exists (name collision between two distinct
   n8n workflows)" (importer.rs:97) another is taken: a workflow that was
   imported keeps its page, or it is being written.  The code violates this: the
   path with the short id may be there already too. *)
ImportedWorkflowsStay ==
  "import" \notin overlap => \A w \in imported :
    \/ \E p \in Paths : page[p] = w
    \/ \E t \in Tasks : At(t, "write.") /\ op[t].of = {w}
=============================================================================

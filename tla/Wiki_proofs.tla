----------------------------- MODULE Wiki_proofs -----------------------------
(* What the wiki's index, log, imports and vectors promise holds for any
   number of tasks, sources, workflows, paths and readers; what its links,
   relations, lint and queries promise, for any pages anywhere; and a page's
   text comes back as it was written, whatever lines it has. *)
EXTENDS WikiVectors, OkfText, OkfBundle, FiniteSetTheorems, SequenceTheorems, WellFoundedInduction, TLAPS

Places == {"idle", "raw", "page", "complete", "write", "write.", "index", "index.", "index..",
           "log", "read", "next", "done", "skipped", "failed"}

Becomes(t, kind, pc, todo, of, path, seen) ==
  /\ op'[t].kind = kind /\ op'[t].pc = pc /\ op'[t].todo = todo
  /\ op'[t].of = of /\ op'[t].path = path /\ op'[t].seen = seen
  /\ \A u \in Tasks \ {t} : op'[u] = op[u]
  /\ op' \in [Tasks -> Op]

LEMMA OpUpdate ==
  ASSUME op \in [Tasks -> Op], NEW t \in Tasks, NEW o \in Op, op' = [op EXCEPT ![t] = o]
  PROVE  Becomes(t, o.kind, o.pc, o.todo, o.of, o.path, o.seen)
BY DEF Becomes

LEMMA OpFields ==
  ASSUME op \in [Tasks -> Op], NEW t \in Tasks
  PROVE  /\ op[t] \in Op /\ op[t].kind \in {"none", "ingest", "import"} /\ op[t].pc \in Places
         /\ op[t].todo \subseteq Workflows /\ op[t].of \subseteq Held /\ op[t].path \subseteq Paths
         /\ op[t].seen \subseteq Paths \cup Workflows
BY DEF Op, Places

LEMMA GoFacts ==
  ASSUME op \in [Tasks -> Op], NEW t \in Tasks, NEW pc \in Places, Go(t, pc)
  PROVE  Becomes(t, op[t].kind, pc, op[t].todo, op[t].of, op[t].path, op[t].seen)
<1> DEFINE o == [op[t] EXCEPT !.pc = pc]
<1>1. /\ o \in Op /\ o.kind = op[t].kind /\ o.pc = pc /\ o.todo = op[t].todo
      /\ o.of = op[t].of /\ o.path = op[t].path /\ o.seen = op[t].seen
  BY DEF Op, Places
<1>2. op' = [op EXCEPT ![t] = o]
  BY DEF Go
<1> HIDE DEF o
<1> QED BY <1>1, <1>2, OpUpdate DEF Becomes

LEMMA EndFacts ==
  ASSUME op \in [Tasks -> Op], NEW t \in Tasks, NEW pc \in Places, End(t, pc)
  PROVE  Becomes(t, "none", pc, {}, {}, {}, {})
<1> DEFINE o == [Idle EXCEPT !.pc = pc]
<1>1. /\ o \in Op /\ o.kind = "none" /\ o.pc = pc /\ o.todo = {}
      /\ o.of = {} /\ o.path = {} /\ o.seen = {}
  BY DEF Op, Places, Idle
<1>2. op' = [op EXCEPT ![t] = o]
  BY DEF End
<1> HIDE DEF o
<1> QED BY <1>1, <1>2, OpUpdate DEF Becomes

LEMMA BeginIngestFacts ==
  ASSUME TypeOK, NEW t \in Tasks, NEW s \in Sources, BeginIngest(t, s)
  PROVE  Becomes(t, "ingest", "raw", {}, {s}, {source_path[s]}, {})
<1> DEFINE o == [Idle EXCEPT !.kind = "ingest", !.pc = "raw", !.of = {s}, !.path = {source_path[s]}]
<1>0. source_path[s] \in Paths /\ s \in Held
  BY PathAssumption DEF Held
<1>1. /\ o \in Op /\ o.kind = "ingest" /\ o.pc = "raw" /\ o.todo = {}
      /\ o.of = {s} /\ o.path = {source_path[s]} /\ o.seen = {}
  BY <1>0 DEF Op, Idle
<1>2. op' = [op EXCEPT ![t] = o]
  BY DEF BeginIngest
<1> HIDE DEF o
<1> QED BY <1>1, <1>2, OpUpdate DEF Becomes, TypeOK

LEMMA ReadIndexFacts ==
  ASSUME TypeOK, NEW t \in Tasks, ReadIndex(t)
  PROVE  Becomes(t, op[t].kind, "index.", op[t].todo, op[t].of, op[t].path, index)
<1> DEFINE o == [op[t] EXCEPT !.pc = "index.", !.seen = index]
<1>1. /\ o \in Op /\ o.kind = op[t].kind /\ o.pc = "index." /\ o.todo = op[t].todo
      /\ o.of = op[t].of /\ o.path = op[t].path /\ o.seen = index
  BY DEF Op, TypeOK
<1>2. op' = [op EXCEPT ![t] = o]
  BY DEF ReadIndex, TypeOK, Op
<1> HIDE DEF o
<1> QED BY <1>1, <1>2, OpUpdate DEF Becomes, TypeOK

LEMMA AppendLogFacts ==
  ASSUME TypeOK, NEW t \in Tasks, AppendLog(t)
  PROVE  Becomes(t, "ingest", "done", {}, {}, op[t].path, {})
<1> DEFINE o == [Idle EXCEPT !.kind = "ingest", !.pc = "done", !.path = op[t].path]
<1>1. /\ o \in Op /\ o.kind = "ingest" /\ o.pc = "done" /\ o.todo = {}
      /\ o.of = {} /\ o.path = op[t].path /\ o.seen = {}
  BY OpFields DEF Op, Idle, TypeOK
<1>2. op' = [op EXCEPT ![t] = o]
  BY DEF AppendLog
<1> HIDE DEF o
<1> QED BY <1>1, <1>2, OpUpdate DEF Becomes, TypeOK

LEMMA BeginImportFacts ==
  ASSUME TypeOK, NEW t \in Tasks, NEW chosen \in SUBSET Workflows, BeginImport(t, chosen)
  PROVE  Becomes(t, "import", "read", chosen, {}, {}, {})
<1> DEFINE o == [Idle EXCEPT !.kind = "import", !.pc = "read", !.todo = chosen]
<1>1. /\ o \in Op /\ o.kind = "import" /\ o.pc = "read" /\ o.todo = chosen
      /\ o.of = {} /\ o.path = {} /\ o.seen = {}
  BY DEF Op, Idle
<1>2. op' = [op EXCEPT ![t] = o]
  BY DEF BeginImport
<1> HIDE DEF o
<1> QED BY <1>1, <1>2, OpUpdate DEF Becomes, TypeOK

LEMMA ReadBundleFacts ==
  ASSUME TypeOK, NEW t \in Tasks, ReadBundle(t)
  PROVE  Becomes(t, op[t].kind, "next", op[t].todo, op[t].of, op[t].path, existing_resources)
<1> DEFINE o == [op[t] EXCEPT !.pc = "next", !.seen = existing_resources]
<1>0. existing_resources \subseteq Workflows
  BY DEF existing_resources
<1>1. /\ o \in Op /\ o.kind = op[t].kind /\ o.pc = "next" /\ o.todo = op[t].todo
      /\ o.of = op[t].of /\ o.path = op[t].path /\ o.seen = existing_resources
  BY <1>0 DEF Op, TypeOK
<1>2. op' = [op EXCEPT ![t] = o]
  BY DEF ReadBundle, TypeOK, Op
<1> HIDE DEF o
<1> QED BY <1>1, <1>2, OpUpdate DEF Becomes, TypeOK

(* A workflow of the import is skipped, or its page is to be written. *)
LEMMA ImportNextFacts ==
  ASSUME TypeOK, NEW t \in Tasks, ImportNext(t)
  PROVE  \/ op[t].todo = {} /\ Becomes(t, "none", "done", {}, {}, {}, {})
         \/ \E w \in op[t].todo :
              \/ /\ w \in op[t].seen
                 /\ Becomes(t, op[t].kind, op[t].pc, op[t].todo \ {w}, op[t].of, op[t].path, op[t].seen)
              \/ /\ w \notin op[t].seen
                 /\ Becomes(t, op[t].kind, "write", op[t].todo \ {w}, {w}, {unique_path(w)}, op[t].seen)
<1>1. CASE op[t].todo = {} /\ End(t, "done")
  BY <1>1, EndFacts DEF TypeOK, Places
<1>2. ASSUME NEW w \in op[t].todo,
             op' = [op EXCEPT ![t] =
                      IF w \in op[t].seen THEN [@ EXCEPT !.todo = op[t].todo \ {w}]
                      ELSE [@ EXCEPT !.todo = op[t].todo \ {w}, !.of = {w}, !.path = {unique_path(w)}, !.pc = "write"]]
      PROVE  \/ /\ w \in op[t].seen
                /\ Becomes(t, op[t].kind, op[t].pc, op[t].todo \ {w}, op[t].of, op[t].path, op[t].seen)
             \/ /\ w \notin op[t].seen
                /\ Becomes(t, op[t].kind, "write", op[t].todo \ {w}, {w}, {unique_path(w)}, op[t].seen)
  <2>1. w \in Workflows /\ op[t] \in Op /\ op \in [Tasks -> Op]
    BY <1>2, OpFields DEF TypeOK
  <2>2. unique_path(w) \in Paths
    BY <2>1, PathAssumption DEF unique_path
  <2>3. CASE w \in op[t].seen
    <3> DEFINE o == [op[t] EXCEPT !.todo = op[t].todo \ {w}]
    <3>1. /\ o \in Op /\ o.kind = op[t].kind /\ o.pc = op[t].pc /\ o.todo = op[t].todo \ {w}
          /\ o.of = op[t].of /\ o.path = op[t].path /\ o.seen = op[t].seen
      BY <2>1 DEF Op
    <3>2. op' = [op EXCEPT ![t] = o]
      BY <1>2, <2>1, <2>3 DEF Op
    <3> HIDE DEF o
    <3>3. Becomes(t, o.kind, o.pc, o.todo, o.of, o.path, o.seen)
      BY <2>1, <3>1, <3>2, OpUpdate
    <3> QED BY <2>3, <3>1, <3>3 DEF Becomes
  <2>4. CASE w \notin op[t].seen
    <3> DEFINE o == [op[t] EXCEPT !.todo = op[t].todo \ {w}, !.of = {w}, !.path = {unique_path(w)}, !.pc = "write"]
    <3>1. /\ o \in Op /\ o.kind = op[t].kind /\ o.pc = "write" /\ o.todo = op[t].todo \ {w}
          /\ o.of = {w} /\ o.path = {unique_path(w)} /\ o.seen = op[t].seen
      BY <2>1, <2>2 DEF Op, Held
    <3>2. op' = [op EXCEPT ![t] = o]
      BY <1>2, <2>1, <2>4 DEF Op
    <3> HIDE DEF o
    <3>3. Becomes(t, o.kind, o.pc, o.todo, o.of, o.path, o.seen)
      BY <2>1, <3>1, <3>2, OpUpdate
    <3> QED BY <2>4, <3>1, <3>3 DEF Becomes
  <2> QED BY <2>3, <2>4
<1> QED BY <1>1, <1>2 DEF ImportNext

-----------------------------------------------------------------------------
(* What the place of a task's operation tells of what it works on. *)

Updating == {t \in Tasks : op[t].pc \in {"index.", "index.."}}

OpInv(t) ==
  /\ op[t].kind = "ingest" /\ op[t].pc # "done" => \E s \in Sources : op[t].of = {s} /\ op[t].path = {source_path[s]}
  /\ op[t].pc \in {"raw", "page", "complete", "index", "index.", "index..", "log"} => op[t].kind = "ingest"
  /\ op[t].pc \in {"read", "next"} => op[t].kind = "import"
  /\ op[t].pc \in {"write", "write."} => op[t].kind # "none"
  /\ op[t].kind = "import" /\ op[t].pc \in {"write", "write."} =>
       \E w \in Workflows : op[t].of = {w} /\ op[t].path \in {{slug_path[w]}, {id_path[w]}}
  /\ At(t, "write.") \/ (op[t].kind = "ingest" /\ op[t].pc \in {"index", "index.", "index..", "log", "done"}) =>
       \A p \in op[t].path : page[p] # "absent"
  /\ t \in Updating => \A p \in op[t].seen : p \in Paths /\ page[p] # "absent"

WikiInv == TypeOK /\ IndexAndLogNamePages /\ \A t \in Tasks : OpInv(t)

(* A page that is there stays there: nothing removes one. *)
PagesStay == \A p \in Paths : page[p] # "absent" => page'[p] # "absent"

LEMMA WriteFacts ==
  ASSUME WikiInv, NEW t \in Tasks, WriteConcept(t)
  PROVE  \E p \in Paths, c \in Held :
           /\ op[t].of = {c} /\ op[t].path = {p}
           /\ (op[t].kind = "ingest" /\ c \in Sources /\ p = source_path[c])
              \/ (op[t].kind = "import" /\ c \in Workflows /\ p \in {slug_path[c], id_path[c]})
           /\ \/ /\ At(t, "write") /\ page' = [page EXCEPT ![p] = "torn"]
                 /\ Becomes(t, op[t].kind, "write.", op[t].todo, {c}, {p}, op[t].seen)
              \/ /\ At(t, "write.") /\ page' = [page EXCEPT ![p] = c]
                 /\ Becomes(t, op[t].kind, IF op[t].kind = "ingest" THEN "index" ELSE "next", op[t].todo, {c}, {p}, op[t].seen)
<1>1. op \in [Tasks -> Op] /\ OpInv(t)
  BY DEF WikiInv, TypeOK
<1>2. op[t].pc \in {"write", "write."} /\ op[t].kind \in {"ingest", "import"}
  BY <1>1, OpFields DEF WriteConcept, At, OpInv
<1>3. PICK p \in Paths, c \in Held :
        /\ op[t].of = {c} /\ op[t].path = {p}
        /\ (op[t].kind = "ingest" /\ c \in Sources /\ p = source_path[c])
           \/ (op[t].kind = "import" /\ c \in Workflows /\ p \in {slug_path[c], id_path[c]})
  <2>1. CASE op[t].kind = "ingest"
    <3>1. PICK s \in Sources : op[t].of = {s} /\ op[t].path = {source_path[s]}
      BY <1>1, <1>2, <2>1 DEF OpInv
    <3>2. s \in Held /\ source_path[s] \in Paths
      BY PathAssumption DEF Held
    <3> QED BY <2>1, <3>1, <3>2
  <2>2. CASE op[t].kind = "import"
    <3>1. PICK w \in Workflows : op[t].of = {w} /\ op[t].path \in {{slug_path[w]}, {id_path[w]}}
      BY <1>1, <1>2, <2>2 DEF OpInv
    <3>2. w \in Held /\ slug_path[w] \in Paths /\ id_path[w] \in Paths
      BY PathAssumption DEF Held
    <3> QED BY <2>2, <3>1, <3>2
  <2> QED BY <1>2, <2>1, <2>2
<1>4. c \in Sources <=> op[t].kind = "ingest"
  BY <1>3, KindAssumption
<1>5. CASE At(t, "write") /\ page' = [page EXCEPT ![p] = "torn"] /\ Go(t, "write.")
  <2>1. Becomes(t, op[t].kind, "write.", op[t].todo, op[t].of, op[t].path, op[t].seen)
    BY <1>1, <1>5, GoFacts DEF Places
  <2> QED BY <1>3, <1>5, <2>1
<1>6. CASE At(t, "write.") /\ page' = [page EXCEPT ![p] = c] /\ Go(t, IF c \in Sources THEN "index" ELSE "next")
  <2>1. Go(t, IF op[t].kind = "ingest" THEN "index" ELSE "next")
    BY <1>4, <1>6
  <2>2. Becomes(t, op[t].kind, IF op[t].kind = "ingest" THEN "index" ELSE "next", op[t].todo, op[t].of, op[t].path, op[t].seen)
    BY <1>1, <2>1, GoFacts DEF Places
  <2> QED BY <1>3, <1>6, <2>2
<1> QED BY <1>3, <1>5, <1>6 DEF WriteConcept

LEMMA StepType ==
  ASSUME WikiInv, Next
  PROVE  TypeOK'
<1>1. /\ raw \subseteq Sources /\ page \in [Paths -> {"absent", "torn", "authored"} \cup Held]
      /\ index \subseteq Paths /\ logged \subseteq Sources /\ op \in [Tasks -> Op]
      /\ overlap \subseteq {"index", "import"} /\ cut \in BOOLEAN /\ imported \subseteq Workflows
      /\ TypeOK /\ \A t \in Tasks : OpInv(t)
  BY DEF WikiInv, TypeOK
<1> USE DEF files, history, Places
<1>2. ASSUME NEW t \in Tasks, Step(t)
      PROVE  TypeOK'
  <2>1. op[t].of \subseteq Held /\ op[t].path \subseteq Paths /\ op[t].seen \subseteq Paths \cup Workflows
    BY <1>1, OpFields
  <2>2. CASE StoreRaw(t)
    <3>1. op' \in [Tasks -> Op]
      BY <1>1, <2>2, GoFacts DEF StoreRaw, Becomes
    <3>2. raw' \subseteq Sources
      <4>1. \E s \in Sources : op[t].of = {s}
        BY <1>1, <2>2 DEF StoreRaw, At, OpInv
      <4> QED BY <1>1, <2>2, <4>1 DEF StoreRaw
    <3> QED BY <1>1, <2>2, <3>1, <3>2 DEF StoreRaw, TypeOK
  <2>3. CASE CheckPage(t) \/ Complete(t)
    <3>1. op' \in [Tasks -> Op]
      BY <1>1, <2>3, GoFacts, EndFacts DEF CheckPage, Complete, Becomes
    <3> QED BY <1>1, <2>3, <3>1 DEF CheckPage, Complete, TypeOK
  <2>4. CASE WriteConcept(t)
    <3>1. PICK p \in op[t].path, c \in op[t].of :
            \/ page' = [page EXCEPT ![p] = "torn"] /\ Go(t, "write.") /\ UNCHANGED imported
            \/ /\ page' = [page EXCEPT ![p] = c]
               /\ Go(t, IF c \in Sources THEN "index" ELSE "next")
               /\ imported' = imported \cup ({c} \cap Workflows)
      BY <2>4 DEF WriteConcept
    <3>2. op' \in [Tasks -> Op]
      BY <1>1, <3>1, GoFacts DEF Becomes
    <3>3. page' \in [Paths -> {"absent", "torn", "authored"} \cup Held] /\ imported' \subseteq Workflows
      BY <1>1, <2>1, <3>1
    <3> QED BY <1>1, <2>4, <3>2, <3>3 DEF WriteConcept, TypeOK
  <2>5. CASE ReadIndex(t)
    BY <1>1, <2>5, ReadIndexFacts DEF ReadIndex, Becomes, TypeOK
  <2>6. CASE WriteIndex(t)
    <3>1. op' \in [Tasks -> Op]
      BY <1>1, <2>6, GoFacts DEF WriteIndex, Becomes
    <3>2. index' \subseteq Paths
      BY <1>1, <2>1, <2>6 DEF WriteIndex, At, OpInv, Updating
    <3> QED BY <1>1, <2>6, <3>1, <3>2 DEF WriteIndex, TypeOK
  <2>7. CASE AppendLog(t)
    <3>1. op' \in [Tasks -> Op]
      BY <1>1, <2>7, AppendLogFacts DEF Becomes
    <3>2. logged' \subseteq Sources
      <4>1. \E s \in Sources : op[t].of = {s}
        BY <1>1, <2>7 DEF AppendLog, At, OpInv
      <4> QED BY <1>1, <2>7, <4>1 DEF AppendLog
    <3> QED BY <1>1, <2>7, <3>1, <3>2 DEF AppendLog, TypeOK
  <2>8. CASE ReadBundle(t)
    <3>1. op' \in [Tasks -> Op]
      BY <1>1, <2>8, ReadBundleFacts DEF Becomes
    <3> QED BY <1>1, <2>8, <3>1 DEF ReadBundle, TypeOK
  <2>9. CASE ImportNext(t)
    <3>1. op' \in [Tasks -> Op]
      BY <1>1, <2>9, ImportNextFacts DEF Becomes
    <3> QED BY <1>1, <2>9, <3>1 DEF ImportNext, TypeOK
  <2>10. CASE Stop(t)
    <3>1. op' \in [Tasks -> Op]
      BY <1>1, <2>10, EndFacts DEF Stop, Becomes
    <3>2. cut' \in BOOLEAN
      BY <1>1, <2>10 DEF Stop
    <3> QED BY <1>1, <2>10, <3>1, <3>2 DEF Stop, TypeOK
  <2> QED BY <1>2, <2>2, <2>3, <2>4, <2>5, <2>6, <2>7, <2>8, <2>9, <2>10 DEF Step
<1>3. ASSUME NEW t \in Tasks, NEW s \in Sources, BeginIngest(t, s)
      PROVE  TypeOK'
  BY <1>1, <1>3, BeginIngestFacts DEF BeginIngest, Becomes, TypeOK
<1>4. ASSUME NEW t \in Tasks, NEW chosen \in SUBSET Workflows, BeginImport(t, chosen)
      PROVE  TypeOK'
  BY <1>1, <1>4, BeginImportFacts DEF BeginImport, Becomes, TypeOK
<1> QED BY <1>2, <1>3, <1>4 DEF Next

(* Steps of a task that leave the files alone. *)
LEMMA WikiKeeps ==
  ASSUME WikiInv, Next
  PROVE  WikiInv' /\ PagesStay
<1>1. /\ TypeOK /\ IndexAndLogNamePages /\ \A t \in Tasks : OpInv(t)
      /\ op \in [Tasks -> Op] /\ page \in [Paths -> {"absent", "torn", "authored"} \cup Held]
      /\ index \subseteq Paths /\ logged \subseteq Sources /\ TypeOK'
  BY StepType DEF WikiInv, TypeOK
<1>2. \A c \in Held : c \notin {"absent", "torn", "authored"}
  BY KindAssumption DEF Held
(* What is known of the other tasks, and of pages listed before, stays so. *)
<1>3. ASSUME NEW t \in Tasks, \A u \in Tasks \ {t} : op'[u] = op[u], PagesStay, OpInv(t)',
             IndexAndLogNamePages'
      PROVE  WikiInv' /\ PagesStay
  <2>1. ASSUME NEW u \in Tasks \ {t} PROVE OpInv(u)'
    <3>1. op'[u] = op[u] /\ op[u].path \subseteq Paths /\ OpInv(u)
      BY <1>1, <1>3, OpFields
    <3> QED BY <3>1, <1>3 DEF OpInv, At, Updating, PagesStay
  <2> QED BY <1>1, <1>3, <2>1 DEF WikiInv
<1>4. UNCHANGED page => PagesStay
  BY DEF PagesStay
<1>5. UNCHANGED <<page, index, logged>> => IndexAndLogNamePages'
  BY <1>1 DEF IndexAndLogNamePages
<1> USE DEF files, history, Places
<1>6. ASSUME NEW t \in Tasks, NEW s \in Sources, BeginIngest(t, s)
      PROVE  WikiInv' /\ PagesStay
  <2>1. Becomes(t, "ingest", "raw", {}, {s}, {source_path[s]}, {}) /\ UNCHANGED <<page, index, logged>>
    BY <1>1, <1>6, BeginIngestFacts DEF BeginIngest
  <2>2. OpInv(t)'
    BY <2>1 DEF Becomes, OpInv, At, Updating
  <2> QED BY <1>3, <1>4, <1>5, <2>1, <2>2 DEF Becomes
<1>7. ASSUME NEW t \in Tasks, NEW chosen \in SUBSET Workflows, BeginImport(t, chosen)
      PROVE  WikiInv' /\ PagesStay
  <2>1. Becomes(t, "import", "read", chosen, {}, {}, {}) /\ UNCHANGED <<page, index, logged>>
    BY <1>1, <1>7, BeginImportFacts DEF BeginImport
  <2>2. OpInv(t)'
    BY <2>1 DEF Becomes, OpInv, At, Updating
  <2> QED BY <1>3, <1>4, <1>5, <2>1, <2>2 DEF Becomes
<1>8. ASSUME NEW t \in Tasks, Step(t)
      PROVE  WikiInv' /\ PagesStay
  <2>1. OpInv(t) /\ op[t].path \subseteq Paths /\ op[t].seen \subseteq Paths \cup Workflows
    BY <1>1, OpFields
  <2>2. ASSUME NEW pc \in Places, Go(t, pc)
        PROVE  Becomes(t, op[t].kind, pc, op[t].todo, op[t].of, op[t].path, op[t].seen)
    BY <1>1, <2>2, GoFacts
  <2>3. ASSUME NEW pc \in {"done", "skipped", "failed"}, End(t, pc), UNCHANGED <<page, index, logged>>
        PROVE  WikiInv' /\ PagesStay
    <3>1. Becomes(t, "none", pc, {}, {}, {}, {})
      BY <1>1, <2>3, EndFacts
    <3>2. OpInv(t)'
      BY <3>1 DEF Becomes, OpInv, At, Updating
    <3> QED BY <1>3, <1>4, <1>5, <2>3, <3>1, <3>2 DEF Becomes
  <2>4. CASE StoreRaw(t) \/ Complete(t)
    <3>1. PICK pc \in {"page", "write"} : /\ Go(t, pc) /\ (pc = "page" => At(t, "raw")) /\ (pc = "write" => At(t, "complete"))
      BY <2>4 DEF StoreRaw, Complete
    <3>2. Becomes(t, op[t].kind, pc, op[t].todo, op[t].of, op[t].path, op[t].seen) /\ UNCHANGED <<page, index, logged>>
      BY <2>2, <2>4, <3>1 DEF StoreRaw, Complete
    <3>3. OpInv(t)'
      BY <2>1, <3>1, <3>2 DEF Becomes, OpInv, At, Updating
    <3> QED BY <1>3, <1>4, <1>5, <3>2, <3>3 DEF Becomes
  <2>5. CASE CheckPage(t)
    <3>1. At(t, "page") /\ UNCHANGED <<page, index, logged>>
      BY <2>5 DEF CheckPage
    <3>2. CASE Go(t, "complete")
      <4>1. Becomes(t, op[t].kind, "complete", op[t].todo, op[t].of, op[t].path, op[t].seen)
        BY <2>2, <3>2
      <4>2. OpInv(t)'
        BY <2>1, <3>1, <4>1 DEF Becomes, OpInv, At, Updating
      <4> QED BY <1>3, <1>4, <1>5, <3>1, <4>1, <4>2 DEF Becomes
    <3> QED BY <2>3, <2>5, <3>1, <3>2 DEF CheckPage
  <2>6. CASE WriteConcept(t)
    <3>1. PICK p \in Paths, c \in Held :
            /\ op[t].of = {c} /\ op[t].path = {p}
            /\ (op[t].kind = "ingest" /\ c \in Sources /\ p = source_path[c])
               \/ (op[t].kind = "import" /\ c \in Workflows /\ p \in {slug_path[c], id_path[c]})
            /\ \/ /\ At(t, "write") /\ page' = [page EXCEPT ![p] = "torn"]
                  /\ Becomes(t, op[t].kind, "write.", op[t].todo, {c}, {p}, op[t].seen)
               \/ /\ At(t, "write.") /\ page' = [page EXCEPT ![p] = c]
                  /\ Becomes(t, op[t].kind, IF op[t].kind = "ingest" THEN "index" ELSE "next", op[t].todo, {c}, {p}, op[t].seen)
      BY <2>6, WriteFacts DEF WikiInv
    <3>2. PagesStay /\ page'[p] # "absent"
      BY <1>1, <1>2, <3>1 DEF PagesStay
    <3>3. UNCHANGED <<index, logged>>
      BY <2>6 DEF WriteConcept
    <3>4. IndexAndLogNamePages'
      BY <1>1, <3>2, <3>3, PathAssumption DEF IndexAndLogNamePages, PagesStay
    <3>5. OpInv(t)'
      <4>1. CASE At(t, "write")
        BY <2>1, <3>1, <3>2, <4>1 DEF Becomes, OpInv, At, Updating
      <4>2. CASE At(t, "write.")
        BY <2>1, <3>1, <3>2, <4>2 DEF Becomes, OpInv, At, Updating
      <4> QED BY <3>1, <4>1, <4>2
    <3> QED BY <1>3, <3>1, <3>2, <3>4, <3>5 DEF Becomes
  <2>7. CASE ReadIndex(t)
    <3>1. /\ Becomes(t, op[t].kind, "index.", op[t].todo, op[t].of, op[t].path, index)
          /\ At(t, "index") /\ UNCHANGED <<page, index, logged>>
      BY <1>1, <2>7, ReadIndexFacts DEF ReadIndex
    <3>2. OpInv(t)'
      BY <1>1, <2>1, <3>1 DEF Becomes, OpInv, At, Updating, IndexAndLogNamePages
    <3> QED BY <1>3, <1>4, <1>5, <3>1, <3>2 DEF Becomes
  <2>8. CASE WriteIndex(t)
    <3>1. PICK pc \in {"index..", "log"} :
            /\ Go(t, pc) /\ (pc = "index.." => At(t, "index.") /\ index' = {})
            /\ (pc = "log" => At(t, "index..") /\ index' = op[t].seen \cup op[t].path)
      BY <2>8 DEF WriteIndex
    <3>2. Becomes(t, op[t].kind, pc, op[t].todo, op[t].of, op[t].path, op[t].seen) /\ UNCHANGED <<page, logged>>
      BY <2>2, <2>8, <3>1 DEF WriteIndex
    <3>3. OpInv(t)'
      BY <2>1, <3>1, <3>2 DEF Becomes, OpInv, At, Updating
    <3>4. IndexAndLogNamePages'
      BY <1>1, <2>1, <3>1, <3>2 DEF IndexAndLogNamePages, OpInv, At, Updating
    <3> QED BY <1>3, <1>4, <3>2, <3>3, <3>4 DEF Becomes
  <2>9. CASE AppendLog(t)
    <3>1. /\ Becomes(t, "ingest", "done", {}, {}, op[t].path, {}) /\ At(t, "log")
          /\ UNCHANGED <<page, index>> /\ logged' = logged \cup op[t].of
      BY <1>1, <2>9, AppendLogFacts DEF AppendLog
    <3>2. OpInv(t)'
      BY <2>1, <3>1 DEF Becomes, OpInv, At, Updating
    <3>3. IndexAndLogNamePages'
      <4>1. PICK s \in Sources : op[t].of = {s} /\ page[source_path[s]] # "absent"
        BY <2>1, <3>1 DEF OpInv, At
      <4> QED BY <1>1, <3>1, <4>1 DEF IndexAndLogNamePages
    <3> QED BY <1>3, <1>4, <3>1, <3>2, <3>3 DEF Becomes
  <2>10. CASE ReadBundle(t)
    <3>1. /\ Becomes(t, op[t].kind, "next", op[t].todo, op[t].of, op[t].path, existing_resources)
          /\ At(t, "read") /\ UNCHANGED <<page, index, logged>>
      BY <1>1, <2>10, ReadBundleFacts DEF ReadBundle
    <3>2. OpInv(t)'
      BY <2>1, <3>1 DEF Becomes, OpInv, At, Updating
    <3> QED BY <1>3, <1>4, <1>5, <3>1, <3>2 DEF Becomes
  <2>11. CASE ImportNext(t)
    <3>1. At(t, "next") /\ UNCHANGED <<page, index, logged>>
      BY <2>11 DEF ImportNext
    <3>2. CASE Becomes(t, "none", "done", {}, {}, {}, {})
      <4>1. OpInv(t)'
        BY <3>2 DEF Becomes, OpInv, At, Updating
      <4> QED BY <1>3, <1>4, <1>5, <3>1, <3>2, <4>1 DEF Becomes
    <3>3. ASSUME NEW w \in op[t].todo, Becomes(t, op[t].kind, op[t].pc, op[t].todo \ {w}, op[t].of, op[t].path, op[t].seen)
          PROVE  WikiInv' /\ PagesStay
      <4>1. OpInv(t)'
        BY <2>1, <3>1, <3>3 DEF Becomes, OpInv, At, Updating
      <4> QED BY <1>3, <1>4, <1>5, <3>1, <3>3, <4>1 DEF Becomes
    <3>4. ASSUME NEW w \in op[t].todo, Becomes(t, op[t].kind, "write", op[t].todo \ {w}, {w}, {unique_path(w)}, op[t].seen)
          PROVE  WikiInv' /\ PagesStay
      <4>1. w \in Workflows /\ unique_path(w) \in {slug_path[w], id_path[w]}
        BY <1>1, OpFields DEF unique_path
      <4>2. OpInv(t)'
        BY <2>1, <3>1, <3>4, <4>1 DEF Becomes, OpInv, At, Updating
      <4> QED BY <1>3, <1>4, <1>5, <3>1, <3>4, <4>2 DEF Becomes
    <3> QED BY <1>1, <2>11, <3>2, <3>3, <3>4, ImportNextFacts
  <2>12. CASE Stop(t)
    BY <2>3, <2>12 DEF Stop
  <2> QED BY <1>8, <2>4, <2>5, <2>6, <2>7, <2>8, <2>9, <2>10, <2>11, <2>12 DEF Step
<1> QED BY <1>6, <1>7, <1>8 DEF Next
-----------------------------------------------------------------------------
(* The lines of the index.  While no two ingests have updated it at once, the
   one that does holds all it lists, and writes it back with its own line. *)

Ingested(t) == op[t].kind = "ingest" /\ op[t].pc \in {"log", "done"}

InLine(t) == op[t].path \subseteq index \/ \E u \in Tasks : At(u, "index..") /\ op[t].path \subseteq op[u].seen

Listed ==
  /\ \A t, u \in Updating : t = u
  /\ \A t \in Tasks : At(t, "index.") => op[t].seen = index
  /\ \A t \in Tasks : At(t, "index..") => index = {}
  /\ \A t \in Tasks : Ingested(t) => InLine(t)

ListedInv == "index" \notin overlap /\ ~cut => Listed

LEMMA ListedKeeps ==
  ASSUME WikiInv, ListedInv, Next
  PROVE  ListedInv'
<1> SUFFICES ASSUME "index" \notin overlap', ~cut' PROVE Listed'
  BY DEF ListedInv
<1>1. /\ TypeOK /\ (\A t \in Tasks : OpInv(t)) /\ op \in [Tasks -> Op]
  BY DEF WikiInv, TypeOK
<1> USE DEF files, history, Places
(* A task that does not update the index, or gives up before it empties it. *)
<1>2. ASSUME NEW t \in Tasks, \A u \in Tasks \ {t} : op'[u] = op[u], ~At(t, "index.."),
             t \notin Updating', ~Ingested(t)', UNCHANGED <<index, overlap, cut>>
      PROVE  Listed'
  BY <1>2 DEF ListedInv, Listed, Updating, Ingested, InLine, At
<1>3. ASSUME NEW t \in Tasks, NEW s \in Sources, BeginIngest(t, s)
      PROVE  Listed'
  <2>1. Becomes(t, "ingest", "raw", {}, {s}, {source_path[s]}, {}) /\ At(t, "idle") /\ UNCHANGED <<index, overlap, cut>>
    BY <1>1, <1>3, BeginIngestFacts DEF BeginIngest
  <2> QED BY <1>2, <2>1 DEF Becomes, Updating, Ingested, At
<1>4. ASSUME NEW t \in Tasks, NEW chosen \in SUBSET Workflows, BeginImport(t, chosen)
      PROVE  Listed'
  <2>1. Becomes(t, "import", "read", chosen, {}, {}, {}) /\ At(t, "idle") /\ UNCHANGED <<index, overlap, cut>>
    BY <1>1, <1>4, BeginImportFacts DEF BeginImport
  <2> QED BY <1>2, <2>1 DEF Becomes, Updating, Ingested, At
<1>5. ASSUME NEW t \in Tasks, Step(t)
      PROVE  Listed'
  <2>1. OpInv(t) /\ (\A pc \in Places : Go(t, pc) => Becomes(t, op[t].kind, pc, op[t].todo, op[t].of, op[t].path, op[t].seen))
        /\ (\A pc \in Places : End(t, pc) => Becomes(t, "none", pc, {}, {}, {}, {}))
    BY <1>1, GoFacts, EndFacts
  <2>2. CASE StoreRaw(t) \/ CheckPage(t) \/ Complete(t)
    <3>1. /\ \E kind, todo, of, path, seen : \E pc \in {"page", "skipped", "complete", "write"} :
               Becomes(t, kind, pc, todo, of, path, seen)
          /\ ~At(t, "index..") /\ UNCHANGED <<index, overlap, cut>>
      BY <2>1, <2>2 DEF StoreRaw, CheckPage, Complete, At
    <3> QED BY <1>2, <3>1 DEF Becomes, Updating, Ingested, At
  <2>3. CASE WriteConcept(t)
    <3>1. /\ \E kind, todo, of, path, seen : \E pc \in {"write.", "index", "next"} :
               Becomes(t, kind, pc, todo, of, path, seen)
          /\ ~At(t, "index..")
      BY <2>3, WriteFacts DEF At
    <3>2. UNCHANGED <<index, overlap, cut>>
      BY <2>3 DEF WriteConcept
    <3> QED BY <1>2, <3>1, <3>2 DEF Becomes, Updating, Ingested, At
  <2>4. CASE ReadIndex(t)
    <3>1. Becomes(t, op[t].kind, "index.", op[t].todo, op[t].of, op[t].path, index) /\ At(t, "index") /\ UNCHANGED <<index, cut>>
      BY <1>1, <2>4, ReadIndexFacts DEF ReadIndex
    <3>2. (\A u \in Tasks : op[u].pc \notin {"index.", "index.."}) /\ "index" \notin overlap
      BY <2>4 DEF ReadIndex
    <3> QED BY <3>1, <3>2 DEF ListedInv, Listed, Updating, Ingested, InLine, At, Becomes
  <2>5. CASE WriteIndex(t)
    <3>1. PICK pc \in {"index..", "log"} :
            /\ Go(t, pc) /\ (pc = "index.." => At(t, "index.") /\ index' = {})
            /\ (pc = "log" => At(t, "index..") /\ index' = op[t].seen \cup op[t].path)
      BY <2>5 DEF WriteIndex
    <3>2. Becomes(t, op[t].kind, pc, op[t].todo, op[t].of, op[t].path, op[t].seen) /\ UNCHANGED <<overlap, cut>>
      BY <2>1, <2>5, <3>1 DEF WriteIndex
    <3>3. Listed /\ t \in Updating /\ \A u \in Updating : u = t
      BY <3>1, <3>2 DEF ListedInv, Listed, Updating, At
    <3>4. CASE pc = "index.."
      BY <3>1, <3>2, <3>3, <3>4 DEF Listed, Updating, Ingested, InLine, At, Becomes
    <3>5. CASE pc = "log"
      BY <3>1, <3>2, <3>3, <3>5 DEF Listed, Updating, Ingested, InLine, At, Becomes
    <3> QED BY <3>4, <3>5
  <2>6. CASE AppendLog(t)
    <3>1. Becomes(t, "ingest", "done", {}, {}, op[t].path, {}) /\ At(t, "log") /\ UNCHANGED <<index, overlap, cut>>
      BY <1>1, <2>6, AppendLogFacts DEF AppendLog
    <3>2. Ingested(t)
      BY <2>1, <3>1 DEF OpInv, Ingested, At
    <3> QED BY <3>1, <3>2 DEF ListedInv, Listed, Updating, Ingested, InLine, At, Becomes
  <2>7. CASE ReadBundle(t)
    <3>1. /\ Becomes(t, op[t].kind, "next", op[t].todo, op[t].of, op[t].path, existing_resources)
          /\ At(t, "read") /\ UNCHANGED <<index, cut>> /\ ("index" \notin overlap)
      BY <1>1, <2>7, ReadBundleFacts DEF ReadBundle
    <3> QED BY <3>1 DEF ListedInv, Listed, Updating, Ingested, InLine, At, Becomes
  <2>8. CASE ImportNext(t)
    <3>1. At(t, "next") /\ UNCHANGED <<index, overlap, cut>>
      BY <2>8 DEF ImportNext
    <3>2. ASSUME NEW kind, NEW todo, NEW of, NEW path, NEW seen, NEW pc \in {"next", "write", "done"},
                 Becomes(t, kind, pc, todo, of, path, seen), kind = "ingest" => pc # "done"
          PROVE  Listed'
      BY <1>2, <3>1, <3>2 DEF Becomes, Updating, Ingested, At
    <3>3. CASE Becomes(t, "none", "done", {}, {}, {}, {})
      BY <3>2, <3>3
    <3>4. ASSUME NEW w, Becomes(t, op[t].kind, op[t].pc, op[t].todo \ {w}, op[t].of, op[t].path, op[t].seen)
          PROVE  Listed'
      BY <3>1, <3>2, <3>4 DEF At
    <3>5. ASSUME NEW w, Becomes(t, op[t].kind, "write", op[t].todo \ {w}, {w}, {unique_path(w)}, op[t].seen)
          PROVE  Listed'
      BY <3>2, <3>5
    <3> QED BY <1>1, <2>8, <3>3, <3>4, <3>5, ImportNextFacts
  <2>9. CASE Stop(t)
    <3>1. Becomes(t, "none", "failed", {}, {}, {}, {}) /\ ~At(t, "index..") /\ ~cut /\ UNCHANGED <<index, overlap>>
      BY <2>1, <2>9 DEF Stop
    <3>2. cut' = cut
      BY <2>9, <3>1, <1>1 DEF Stop, TypeOK
    <3> QED BY <1>2, <3>1, <3>2 DEF Becomes, Updating, Ingested, At
  <2> QED BY <1>5, <2>2, <2>3, <2>4, <2>5, <2>6, <2>7, <2>8, <2>9 DEF Step
<1> QED BY <1>3, <1>4, <1>5 DEF Next
-----------------------------------------------------------------------------
(* The pages of workflows.  While no two imports were under way at once, the
   one that is knows of every page of those it has still to import, and writes
   only the page of one that has none. *)

Importing == {t \in Tasks : op[t].kind = "import" /\ op[t].pc \in {"next", "write", "write."}}

One ==
  /\ \A t, u \in Importing : t = u
  /\ \A p, q \in Paths : page[p] = page[q] /\ page[p] \in Workflows => p = q
  /\ \A t \in Importing, p \in Paths :
       /\ page[p] \in op[t].todo => page[p] \in op[t].seen
       /\ op[t].pc \in {"write", "write."} => page[p] \notin op[t].of
  /\ \A t \in Importing : op[t].pc \in {"write", "write."} => op[t].todo \cap op[t].of = {}

OneInv == "import" \notin overlap => One

(* A step after which fewer pages are workflows' keeps them apart. *)
FewerPages == \A p \in Paths : page'[p] \in Workflows => page'[p] = page[p]

LEMMA OneKeeps ==
  ASSUME WikiInv, OneInv, Next
  PROVE  OneInv'
<1> SUFFICES ASSUME "import" \notin overlap' PROVE One'
  BY DEF OneInv
<1>1. /\ TypeOK /\ (\A t \in Tasks : OpInv(t)) /\ op \in [Tasks -> Op]
      /\ page \in [Paths -> {"absent", "torn", "authored"} \cup Held]
      /\ \A t \in Tasks : op[t].todo \subseteq Workflows
  BY OpFields DEF WikiInv, TypeOK
<1>2. \A c \in Held : c \notin {"absent", "torn", "authored"}
  BY KindAssumption DEF Held
<1> USE DEF files, history, Places
(* A task that does not import, or no longer does. *)
<1>3. ASSUME NEW t \in Tasks, \A u \in Tasks \ {t} : op'[u] = op[u], t \notin Importing', FewerPages, "import" \notin overlap
      PROVE  One'
  <2>1. One /\ \A u \in Importing' : u \in Importing /\ op'[u] = op[u]
    BY <1>3 DEF OneInv, Importing
  <2>2. \A u \in Importing' : op[u].todo \subseteq Workflows
    BY <1>1 DEF Importing
  <2>3. \A u \in Importing' : op[u].pc \in {"write", "write."} => op[u].of \subseteq Workflows
    BY <1>1, <2>1 DEF Importing, OpInv
  <2> QED BY <1>3, <2>1, <2>2, <2>3 DEF One, FewerPages
<1>4. UNCHANGED page => FewerPages
  BY DEF FewerPages
<1>5. ASSUME NEW t \in Tasks, NEW s \in Sources, BeginIngest(t, s)
      PROVE  One'
  <2>1. Becomes(t, "ingest", "raw", {}, {s}, {source_path[s]}, {}) /\ UNCHANGED <<page, overlap>>
    BY <1>1, <1>5, BeginIngestFacts DEF BeginIngest
  <2> QED BY <1>3, <1>4, <2>1 DEF Becomes, Importing
<1>6. ASSUME NEW t \in Tasks, NEW chosen \in SUBSET Workflows, BeginImport(t, chosen)
      PROVE  One'
  <2>1. Becomes(t, "import", "read", chosen, {}, {}, {}) /\ UNCHANGED <<page, overlap>>
    BY <1>1, <1>6, BeginImportFacts DEF BeginImport
  <2> QED BY <1>3, <1>4, <2>1 DEF Becomes, Importing
<1>7. ASSUME NEW t \in Tasks, Step(t)
      PROVE  One'
  <2>1. OpInv(t) /\ (\A pc \in Places : Go(t, pc) => Becomes(t, op[t].kind, pc, op[t].todo, op[t].of, op[t].path, op[t].seen))
        /\ (\A pc \in Places : End(t, pc) => Becomes(t, "none", pc, {}, {}, {}, {}))
    BY <1>1, GoFacts, EndFacts
  <2>2. CASE StoreRaw(t) \/ CheckPage(t) \/ Complete(t) \/ WriteIndex(t)
    <3>1. /\ \E kind, todo, of, path, seen : \E pc \in {"page", "skipped", "complete", "write", "index..", "log"} :
               Becomes(t, kind, pc, todo, of, path, seen) /\ kind \in {"ingest", "none"}
          /\ UNCHANGED <<page, overlap>>
      BY <2>1, <2>2 DEF StoreRaw, CheckPage, Complete, WriteIndex, At, OpInv
    <3> QED BY <1>3, <1>4, <3>1 DEF Becomes, Importing
  <2>3. CASE WriteConcept(t)
    <3>1. PICK p \in Paths, c \in Held :
            /\ op[t].of = {c} /\ op[t].path = {p}
            /\ (op[t].kind = "ingest" /\ c \in Sources /\ p = source_path[c])
               \/ (op[t].kind = "import" /\ c \in Workflows /\ p \in {slug_path[c], id_path[c]})
            /\ \/ /\ At(t, "write") /\ page' = [page EXCEPT ![p] = "torn"]
                  /\ Becomes(t, op[t].kind, "write.", op[t].todo, {c}, {p}, op[t].seen)
               \/ /\ At(t, "write.") /\ page' = [page EXCEPT ![p] = c]
                  /\ Becomes(t, op[t].kind, IF op[t].kind = "ingest" THEN "index" ELSE "next", op[t].todo, {c}, {p}, op[t].seen)
      BY <2>3, WriteFacts
    <3>2. "import" \notin overlap /\ One
      BY <2>3 DEF WriteConcept, OneInv
    <3>3. CASE op[t].kind = "ingest"
      <4>1. FewerPages
        BY <1>1, <1>2, <3>1, <3>3, KindAssumption DEF FewerPages, Held
      <4> QED BY <1>3, <3>1, <3>2, <3>3, <4>1 DEF Becomes, Importing
    <3>4. CASE op[t].kind = "import"
      <4>1. t \in Importing /\ t \in Importing' /\ (\A u \in Importing : u = t) /\ \A u \in Importing' : u = t
        BY <3>1, <3>2, <3>4 DEF Becomes, Importing, One, At
      <4>2. c \in Workflows /\ (\A q \in Paths : page[q] # c) /\ c \notin op[t].todo
        BY <3>1, <3>2, <3>4, <4>1, KindAssumption DEF One, At
      <4>3. CASE At(t, "write")
        BY <1>1, <1>2, <3>1, <3>2, <4>1, <4>2, <4>3 DEF One, At, Becomes, Held
      <4>4. CASE At(t, "write.")
        BY <1>1, <1>2, <3>1, <3>2, <3>4, <4>1, <4>2, <4>4 DEF One, At, Becomes, Held
      <4> QED BY <3>1, <4>3, <4>4
    <3> QED BY <3>1, <3>3, <3>4
  <2>4. CASE ReadIndex(t) \/ AppendLog(t) \/ Stop(t)
    <3>1. \E kind, todo, of, path, seen : \E pc \in {"index.", "done", "failed"} : Becomes(t, kind, pc, todo, of, path, seen)
      BY <1>1, <2>1, <2>4, ReadIndexFacts, AppendLogFacts DEF Stop
    <3>2. UNCHANGED page /\ "import" \notin overlap
      BY <2>4 DEF ReadIndex, AppendLog, Stop
    <3> QED BY <1>3, <1>4, <3>1, <3>2 DEF Becomes, Importing
  <2>5. CASE ReadBundle(t)
    <3>1. /\ Becomes(t, op[t].kind, "next", op[t].todo, op[t].of, op[t].path, existing_resources)
          /\ op[t].kind = "import" /\ UNCHANGED page /\ "import" \notin overlap
      BY <1>1, <2>1, <2>5, ReadBundleFacts DEF ReadBundle, OpInv, At
    <3>2. \A u \in Tasks : u \notin Importing
      BY <2>5 DEF ReadBundle, Importing
    <3>3. \A u \in Importing' : u = t
      BY <3>1, <3>2 DEF Becomes, Importing
    <3> QED BY <1>1, <3>1, <3>3 DEF Becomes, One, OneInv, existing_resources
  <2>6. CASE ImportNext(t)
    <3>1. At(t, "next") /\ t \in Importing /\ One /\ UNCHANGED <<page, overlap>>
      BY <2>1, <2>6 DEF ImportNext, OneInv, Importing, At, OpInv
    <3>2. CASE Becomes(t, "none", "done", {}, {}, {}, {})
      BY <1>3, <1>4, <3>1, <3>2 DEF Becomes, Importing
    <3>3. ASSUME NEW w \in op[t].todo, Becomes(t, op[t].kind, op[t].pc, op[t].todo \ {w}, op[t].of, op[t].path, op[t].seen)
          PROVE  One'
      BY <3>1, <3>3 DEF Becomes, One, Importing, At
    <3>4. ASSUME NEW w \in op[t].todo, w \notin op[t].seen, Becomes(t, op[t].kind, "write", op[t].todo \ {w}, {w}, {unique_path(w)}, op[t].seen)
          PROVE  One'
      BY <3>1, <3>4 DEF Becomes, One, Importing, At
    <3> QED BY <1>1, <2>6, <3>2, <3>3, <3>4, ImportNextFacts
  <2> QED BY <1>7, <2>2, <2>3, <2>4, <2>5, <2>6 DEF Step
<1> QED BY <1>5, <1>6, <1>7 DEF Next
-----------------------------------------------------------------------------
(* Vectors. *)

(* What a reader's operation becomes, but for its history. *)
Reads(r, kind, pc, taken, left, skipped, hit, ranked, found) ==
  /\ work'[r].kind = kind /\ work'[r].pc = pc /\ work'[r].pages = taken /\ work'[r].left = left
  /\ work'[r].skipped = skipped /\ work'[r].hit = hit /\ work'[r].ranked = ranked /\ work'[r].found = found
  /\ \A q \in Readers \ {r} : work'[q] = work[q]
  /\ work' \in [Readers -> Work]

LEMMA WorkUpdate ==
  ASSUME work \in [Readers -> Work], NEW r \in Readers, NEW o \in Work, work' = [work EXCEPT ![r] = o]
  PROVE  Reads(r, o.kind, o.pc, o.pages, o.left, o.skipped, o.hit, o.ranked, o.found) /\ work'[r].current = o.current
BY DEF Reads

LEMMA WaitingType ==
  /\ Waiting \in Work /\ Waiting.kind = "none" /\ Waiting.pages = NoPages /\ Waiting.left = {} /\ Waiting.skipped = FALSE
  /\ Waiting.current = FALSE /\ Waiting.hit = {} /\ Waiting.ranked = "absent" /\ Waiting.found = {}
BY DEF Waiting, Work, NoPages, Page

(* Operations start from nothing. *)
LEMMA ReadPagesFacts ==
  ASSUME VectorTypeOK, NEW r \in Readers, NEW kind \in {"all", "workflows", "vectorize"}, ReadPages(r, kind)
  PROVE  \/ Reads(r, kind, "failed", NoPages, {}, FALSE, {}, "absent", {}) /\ work'[r].current = FALSE
         \/ /\ Readable
            /\ Reads(r, kind, "embed", page, {p \in Paths : page[p] \in Embeds(kind)}, FALSE, {}, "absent", {})
            /\ work'[r].current => \A q \in Readers : Is(q, "embed") => work[q].pages = page
<1>1. work \in [Readers -> Work] /\ page \in [Paths -> {"absent", "torn", "authored"} \cup Held]
  BY DEF VectorTypeOK, TypeOK
<1>2. CASE Readable
  <2> DEFINE left == {p \in Paths : page[p] \in Embeds(kind)}
             fresh == \A q \in Readers : Is(q, "embed") => work[q].pages = page
             o == [Waiting EXCEPT !.kind = kind, !.pc = "embed", !.pages = page, !.left = left, !.current = fresh]
  <2>1. page \in [Paths -> Page]
    BY <1>1, <1>2 DEF Readable, Page
  <2>2. left \subseteq Paths /\ fresh \in BOOLEAN
    OBVIOUS
  <2>3. work' = [work EXCEPT ![r] = o]
    BY <1>2 DEF ReadPages
  <2> HIDE DEF left, fresh
  <2>4. /\ o \in Work /\ o.kind = kind /\ o.pc = "embed" /\ o.pages = page /\ o.left = left /\ o.skipped = FALSE
        /\ o.current = fresh /\ o.hit = {} /\ o.ranked = "absent" /\ o.found = {}
    BY <2>1, <2>2, WaitingType DEF Work
  <2> HIDE DEF o
  <2>5. Reads(r, o.kind, o.pc, o.pages, o.left, o.skipped, o.hit, o.ranked, o.found) /\ work'[r].current = o.current
    BY <1>1, <2>3, <2>4, WorkUpdate
  <2> QED BY <1>2, <2>4, <2>5 DEF Reads, left, fresh
<1>3. CASE ~Readable
  <2> DEFINE o == [Waiting EXCEPT !.kind = kind, !.pc = "failed"]
  <2>1. /\ o \in Work /\ o.kind = kind /\ o.pc = "failed" /\ o.pages = NoPages /\ o.left = {} /\ o.skipped = FALSE
        /\ o.current = FALSE /\ o.hit = {} /\ o.ranked = "absent" /\ o.found = {}
    BY WaitingType DEF Work
  <2>2. work' = [work EXCEPT ![r] = o]
    BY <1>3 DEF ReadPages
  <2> HIDE DEF o
  <2> QED BY <1>1, <2>1, <2>2, WorkUpdate DEF Reads
<1> QED BY <1>2, <1>3

(* A page is embedded, or skipped, or it ends the operation. *)
LEMMA EmbedFacts ==
  ASSUME VectorTypeOK, NEW r \in Readers, Embed(r)
  PROVE  \E p \in work[r].left :
           \/ /\ vectors' = [vectors EXCEPT ![p] = work[r].pages[p]]
              /\ Reads(r, work[r].kind, work[r].pc, work[r].pages, work[r].left \ {p}, work[r].skipped,
                       work[r].hit, work[r].ranked, work[r].found)
              /\ work'[r].current = work[r].current
           \/ /\ UNCHANGED vectors
              /\ Reads(r, "vectorize", "failed", NoPages, {}, FALSE, {}, "absent", {}) /\ work'[r].current = FALSE
           \/ /\ UNCHANGED vectors
              /\ Reads(r, work[r].kind, work[r].pc, work[r].pages, work[r].left \ {p}, TRUE,
                       work[r].hit, work[r].ranked, work[r].found)
              /\ work'[r].current = work[r].current
<1>1. work \in [Readers -> Work] /\ work[r] \in Work
  BY DEF VectorTypeOK
<1>2. PICK p \in work[r].left :
       \/ /\ vectors' = [vectors EXCEPT ![p] = work[r].pages[p]]
          /\ work' = [work EXCEPT ![r].left = @ \ {p}]
       \/ /\ work' = [work EXCEPT ![r] = IF @.kind = "vectorize" THEN [Waiting EXCEPT !.kind = "vectorize", !.pc = "failed"]
                                         ELSE [@ EXCEPT !.left = work[r].left \ {p}, !.skipped = TRUE]]
          /\ UNCHANGED vectors
  BY DEF Embed
<1>3. CASE vectors' = [vectors EXCEPT ![p] = work[r].pages[p]] /\ work' = [work EXCEPT ![r].left = @ \ {p}]
  <2> DEFINE o == [work[r] EXCEPT !.left = work[r].left \ {p}]
  <2>1. /\ o \in Work /\ o.kind = work[r].kind /\ o.pc = work[r].pc /\ o.pages = work[r].pages /\ o.left = work[r].left \ {p}
        /\ o.skipped = work[r].skipped /\ o.current = work[r].current
        /\ o.hit = work[r].hit /\ o.ranked = work[r].ranked /\ o.found = work[r].found
    BY <1>1 DEF Work
  <2>2. work' = [work EXCEPT ![r] = o]
    BY <1>3
  <2> HIDE DEF o
  <2> QED BY <1>1, <1>3, <2>1, <2>2, WorkUpdate DEF Reads
<1>4. CASE UNCHANGED vectors /\ work' = [work EXCEPT ![r] = [Waiting EXCEPT !.kind = "vectorize", !.pc = "failed"]]
  <2> DEFINE o == [Waiting EXCEPT !.kind = "vectorize", !.pc = "failed"]
  <2>1. /\ o \in Work /\ o.kind = "vectorize" /\ o.pc = "failed" /\ o.pages = NoPages /\ o.left = {} /\ o.skipped = FALSE
        /\ o.current = FALSE /\ o.hit = {} /\ o.ranked = "absent" /\ o.found = {}
    BY WaitingType DEF Work
  <2> HIDE DEF o
  <2>2. work' = [work EXCEPT ![r] = o]
    BY <1>4 DEF o
  <2> QED BY <1>1, <1>4, <2>1, <2>2, WorkUpdate DEF Reads
<1>5. CASE UNCHANGED vectors /\ work' = [work EXCEPT ![r] = [work[r] EXCEPT !.left = work[r].left \ {p}, !.skipped = TRUE]]
  <2> DEFINE o == [work[r] EXCEPT !.left = work[r].left \ {p}, !.skipped = TRUE]
  <2>1. /\ o \in Work /\ o.kind = work[r].kind /\ o.pc = work[r].pc /\ o.pages = work[r].pages /\ o.left = work[r].left \ {p}
        /\ o.skipped = TRUE /\ o.current = work[r].current
        /\ o.hit = work[r].hit /\ o.ranked = work[r].ranked /\ o.found = work[r].found
    BY <1>1 DEF Work
  <2> HIDE DEF o
  <2>2. work' = [work EXCEPT ![r] = o]
    BY <1>5 DEF o
  <2>3. Reads(r, o.kind, o.pc, o.pages, o.left, o.skipped, o.hit, o.ranked, o.found) /\ work'[r].current = o.current
    BY <1>1, <2>1, <2>2, WorkUpdate
  <2>4. /\ Reads(r, work[r].kind, work[r].pc, work[r].pages, work[r].left \ {p}, TRUE,
                 work[r].hit, work[r].ranked, work[r].found)
        /\ work'[r].current = work[r].current
    BY <2>1, <2>3 DEF Reads
  <2> QED BY <1>5, <2>4
<1> QED BY <1>2, <1>3, <1>4, <1>5

LEMMA EndReindexFacts ==
  ASSUME VectorTypeOK, NEW r \in Readers, EndReindex(r)
  PROVE  /\ Reads(r, work[r].kind, "reindexed", NoPages, work[r].left, work[r].skipped,
                  work[r].hit, work[r].ranked, work[r].found)
         /\ work'[r].current = work[r].current
<1>1. work \in [Readers -> Work] /\ work[r] \in Work /\ NoPages \in [Paths -> Page]
  BY DEF VectorTypeOK, NoPages, Page
<1> DEFINE o == [work[r] EXCEPT !.pc = "reindexed", !.pages = NoPages]
<1>2. /\ o \in Work /\ o.kind = work[r].kind /\ o.pc = "reindexed" /\ o.pages = NoPages /\ o.left = work[r].left
      /\ o.skipped = work[r].skipped /\ o.current = work[r].current
      /\ o.hit = work[r].hit /\ o.ranked = work[r].ranked /\ o.found = work[r].found
  BY <1>1 DEF Work
<1>3. work' = [work EXCEPT ![r] = o]
  BY <1>1 DEF EndReindex, Work
<1> HIDE DEF o
<1> QED BY <1>1, <1>2, <1>3, WorkUpdate DEF Reads

LEMMA RankFacts ==
  ASSUME VectorTypeOK, NEW r \in Readers, Rank(r)
  PROVE  /\ \/ Reads(r, "recommend", "create", NoPages, {}, FALSE, {}, "absent", {})
            \/ \E p \in Paths : Reads(r, "recommend", "read", NoPages, {}, FALSE, {p}, vectors[p], {})
         /\ work'[r].current = FALSE
<1>1. work \in [Readers -> Work] /\ vectors \in [Paths -> Page]
  BY DEF VectorTypeOK
<1>2. CASE work' = [work EXCEPT ![r] = [Waiting EXCEPT !.kind = "recommend", !.pc = "create"]]
  <2> DEFINE o == [Waiting EXCEPT !.kind = "recommend", !.pc = "create"]
  <2>1. /\ o \in Work /\ o.kind = "recommend" /\ o.pc = "create" /\ o.pages = NoPages /\ o.left = {} /\ o.skipped = FALSE
        /\ o.current = FALSE /\ o.hit = {} /\ o.ranked = "absent" /\ o.found = {}
    BY WaitingType DEF Work
  <2> HIDE DEF o
  <2>2. work' = [work EXCEPT ![r] = o]
    BY <1>2 DEF o
  <2> QED BY <1>1, <2>1, <2>2, WorkUpdate DEF Reads
<1>3. ASSUME NEW p \in Paths,
             work' = [work EXCEPT ![r] = [Waiting EXCEPT !.kind = "recommend", !.pc = "read", !.hit = {p}, !.ranked = vectors[p]]]
      PROVE  Reads(r, "recommend", "read", NoPages, {}, FALSE, {p}, vectors[p], {}) /\ work'[r].current = FALSE
  <2> DEFINE o == [Waiting EXCEPT !.kind = "recommend", !.pc = "read", !.hit = {p}, !.ranked = vectors[p]]
  <2>1. /\ o \in Work /\ o.kind = "recommend" /\ o.pc = "read" /\ o.pages = NoPages /\ o.left = {} /\ o.skipped = FALSE
        /\ o.current = FALSE /\ o.hit = {p} /\ o.ranked = vectors[p] /\ o.found = {}
    BY <1>1, WaitingType DEF Work
  <2> HIDE DEF o
  <2>2. work' = [work EXCEPT ![r] = o]
    BY <1>3 DEF o
  <2> QED BY <1>1, <2>1, <2>2, WorkUpdate DEF Reads
<1> QED BY <1>2, <1>3 DEF Rank

LEMMA ReadHitFacts ==
  ASSUME VectorTypeOK, NEW r \in Readers, ReadHit(r)
  PROVE  \E p \in work[r].hit, pc \in {"failed", "reuse", "create"} :
           /\ pc = "reuse" => extract_workflow_ref(p) # {}
           /\ Reads(r, work[r].kind, pc, work[r].pages, work[r].left, work[r].skipped,
                    work[r].hit, work[r].ranked, extract_workflow_ref(p))
           /\ work'[r].current = work[r].current
<1>1. work \in [Readers -> Work] /\ work[r] \in Work
  BY DEF VectorTypeOK
<1>2. PICK p \in work[r].hit :
       work' = [work EXCEPT ![r].pc = CASE page[p] \in {"absent", "torn"} -> "failed"
                                        [] extract_workflow_ref(p) # {} -> "reuse"
                                        [] OTHER -> "create",
                            ![r].found = extract_workflow_ref(p)]
  BY DEF ReadHit
<1>3. PICK pc \in {"failed", "reuse", "create"} :
        /\ work' = [work EXCEPT ![r].pc = pc, ![r].found = extract_workflow_ref(p)]
        /\ pc = "reuse" => extract_workflow_ref(p) # {}
  <2> DEFINE place == CASE page[p] \in {"absent", "torn"} -> "failed"
                        [] extract_workflow_ref(p) # {} -> "reuse"
                        [] OTHER -> "create"
  <2>1. place \in {"failed", "reuse", "create"} /\ (place = "reuse" => extract_workflow_ref(p) # {})
    OBVIOUS
  <2>2. work' = [work EXCEPT ![r].pc = place, ![r].found = extract_workflow_ref(p)]
    BY <1>2
  <2> HIDE DEF place
  <2> QED BY <2>1, <2>2
<1>4. extract_workflow_ref(p) \subseteq Workflows
  BY DEF extract_workflow_ref
<1> DEFINE o == [work[r] EXCEPT !.pc = pc, !.found = extract_workflow_ref(p)]
<1>5. /\ o \in Work /\ o.kind = work[r].kind /\ o.pc = pc /\ o.pages = work[r].pages /\ o.left = work[r].left
      /\ o.skipped = work[r].skipped /\ o.current = work[r].current
      /\ o.hit = work[r].hit /\ o.ranked = work[r].ranked /\ o.found = extract_workflow_ref(p)
  BY <1>1, <1>4 DEF Work
<1>6. work' = [work EXCEPT ![r] = o]
  BY <1>1, <1>3 DEF Work
<1> HIDE DEF o
<1>7. Reads(r, o.kind, o.pc, o.pages, o.left, o.skipped, o.hit, o.ranked, o.found) /\ work'[r].current = o.current
  BY <1>1, <1>5, <1>6, WorkUpdate
<1> QED BY <1>3, <1>5, <1>7 DEF Reads
-----------------------------------------------------------------------------
(* A page becomes a workflow's only where an import was about to write it, and
   an import is about to write only where unique_path found a place. *)

Claims(p, w) == \E t \in Importing : op[t].pc \in {"write", "write."} /\ op[t].of = {w} /\ op[t].path = {p}

LEMMA WikiSources ==
  ASSUME WikiInv, Next
  PROVE  /\ \A p \in Paths : page'[p] \in Workflows => page'[p] = page[p] \/ Claims(p, page'[p])
         /\ \A p \in Paths, w \in Workflows : Claims(p, w)' => Claims(p, w) \/ (UNCHANGED page /\ p = unique_path(w))
<1>1. /\ TypeOK /\ (\A t \in Tasks : OpInv(t)) /\ op \in [Tasks -> Op]
      /\ page \in [Paths -> {"absent", "torn", "authored"} \cup Held]
  BY DEF WikiInv, TypeOK
<1>2. \A c \in Held : c \notin {"absent", "torn", "authored"}
  BY KindAssumption DEF Held
<1> DEFINE Pages == \A p \in Paths : page'[p] \in Workflows => page'[p] = page[p] \/ Claims(p, page'[p])
           Places2 == \A p \in Paths, w \in Workflows : Claims(p, w)' => Claims(p, w) \/ (UNCHANGED page /\ p = unique_path(w))
<1> USE DEF files, history, Places
<1>3. ASSUME NEW t \in Tasks, \A u \in Tasks \ {t} : op'[u] = op[u],
             op'[t].kind # "import" \/ op'[t].pc \notin {"write", "write."}
      PROVE  Places2
  BY <1>3 DEF Claims, Importing
<1>4. ASSUME NEW t \in Tasks, NEW s \in Sources, BeginIngest(t, s)
      PROVE  Pages /\ Places2
  BY <1>1, <1>3, <1>4, BeginIngestFacts DEF BeginIngest, Becomes
<1>5. ASSUME NEW t \in Tasks, NEW chosen \in SUBSET Workflows, BeginImport(t, chosen)
      PROVE  Pages /\ Places2
  BY <1>1, <1>3, <1>5, BeginImportFacts DEF BeginImport, Becomes
<1>6. ASSUME NEW t \in Tasks, Step(t)
      PROVE  Pages /\ Places2
  <2>1. OpInv(t) /\ (\A pc \in Places : Go(t, pc) => Becomes(t, op[t].kind, pc, op[t].todo, op[t].of, op[t].path, op[t].seen))
        /\ (\A pc \in Places : End(t, pc) => Becomes(t, "none", pc, {}, {}, {}, {}))
    BY <1>1, GoFacts, EndFacts
  <2>2. CASE StoreRaw(t) \/ CheckPage(t) \/ Complete(t) \/ WriteIndex(t)
    <3>1. /\ \E kind, todo, of, path, seen : \E pc \in {"page", "skipped", "complete", "write", "index..", "log"} :
               Becomes(t, kind, pc, todo, of, path, seen) /\ kind \in {"ingest", "none"}
          /\ UNCHANGED page
      BY <2>1, <2>2 DEF StoreRaw, CheckPage, Complete, WriteIndex, At, OpInv
    <3> QED BY <1>3, <3>1 DEF Becomes
  <2>3. CASE WriteConcept(t)
    <3>1. PICK p \in Paths, c \in Held :
            /\ op[t].of = {c} /\ op[t].path = {p}
            /\ (op[t].kind = "ingest" /\ c \in Sources /\ p = source_path[c])
               \/ (op[t].kind = "import" /\ c \in Workflows /\ p \in {slug_path[c], id_path[c]})
            /\ \/ /\ At(t, "write") /\ page' = [page EXCEPT ![p] = "torn"]
                  /\ Becomes(t, op[t].kind, "write.", op[t].todo, {c}, {p}, op[t].seen)
               \/ /\ At(t, "write.") /\ page' = [page EXCEPT ![p] = c]
                  /\ Becomes(t, op[t].kind, IF op[t].kind = "ingest" THEN "index" ELSE "next", op[t].todo, {c}, {p}, op[t].seen)
      BY <2>3, WriteFacts
    <3>2. Pages
      BY <1>1, <1>2, <3>1, KindAssumption DEF Claims, Importing, At, Held
    <3>3. CASE At(t, "write")
      <4>1. /\ op'[t].kind = op[t].kind /\ op'[t].of = op[t].of /\ op'[t].path = op[t].path /\ op[t].pc = "write"
            /\ \A u \in Tasks \ {t} : op'[u] = op[u]
        BY <3>1, <3>3 DEF Becomes, At
      <4>2. \A u \in Importing' : op'[u].pc \in {"write", "write."} =>
              u \in Importing /\ op[u].pc \in {"write", "write."} /\ op'[u].of = op[u].of /\ op'[u].path = op[u].path
        BY <4>1 DEF Importing
      <4>3. Places2
        BY <4>2 DEF Claims
      <4> QED BY <3>2, <4>3
    <3>4. CASE At(t, "write.")
      BY <1>3, <3>1, <3>2, <3>4 DEF Becomes, At
    <3> QED BY <3>1, <3>3, <3>4
  <2>4. CASE ReadIndex(t) \/ AppendLog(t) \/ ReadBundle(t) \/ Stop(t)
    <3>1. \E kind, todo, of, path, seen : \E pc \in {"index.", "done", "next", "failed"} :
            Becomes(t, kind, pc, todo, of, path, seen)
      BY <1>1, <2>1, <2>4, ReadIndexFacts, AppendLogFacts, ReadBundleFacts DEF Stop
    <3>2. UNCHANGED page
      BY <2>4 DEF ReadIndex, AppendLog, ReadBundle, Stop
    <3> QED BY <1>3, <3>1, <3>2 DEF Becomes
  <2>5. CASE ImportNext(t)
    <3>1. At(t, "next") /\ UNCHANGED page
      BY <2>5 DEF ImportNext
    <3>2. CASE Becomes(t, "none", "done", {}, {}, {}, {})
      BY <1>3, <3>1, <3>2 DEF Becomes
    <3>3. ASSUME NEW w, Becomes(t, op[t].kind, op[t].pc, op[t].todo \ {w}, op[t].of, op[t].path, op[t].seen)
          PROVE  Pages /\ Places2
      BY <1>3, <3>1, <3>3 DEF Becomes, At
    <3>4. ASSUME NEW w, Becomes(t, op[t].kind, "write", op[t].todo \ {w}, {w}, {unique_path(w)}, op[t].seen)
          PROVE  Pages /\ Places2
      BY <3>1, <3>4 DEF Becomes, Claims, Importing
    <3> QED BY <1>1, <2>5, <3>2, <3>3, <3>4, ImportNextFacts
  <2> QED BY <1>6, <2>2, <2>3, <2>4, <2>5 DEF Step
<1> QED BY <1>4, <1>5, <1>6 DEF Next

(* What is written by a task or by hand only outdates what was read. *)
LEMMA OutdatedFacts ==
  ASSUME VectorTypeOK, Outdated
  PROVE  /\ work' \in [Readers -> Work]
         /\ \A r \in Readers :
              /\ work'[r].kind = work[r].kind /\ work'[r].pc = work[r].pc /\ work'[r].pages = work[r].pages
              /\ work'[r].left = work[r].left /\ work'[r].skipped = work[r].skipped /\ work'[r].hit = work[r].hit
              /\ work'[r].ranked = work[r].ranked /\ work'[r].found = work[r].found
              /\ work'[r].current => work[r].current /\ page' = page
<1>1. work \in [Readers -> Work]
  BY DEF VectorTypeOK
<1>2. CASE UNCHANGED <<page, work>>
  BY <1>1, <1>2
<1>3. CASE work' = [r \in Readers |-> [work[r] EXCEPT !.current = FALSE]]
  <2>1. ASSUME NEW r \in Readers
        PROVE  /\ work'[r] \in Work
               /\ work'[r].kind = work[r].kind /\ work'[r].pc = work[r].pc /\ work'[r].pages = work[r].pages
               /\ work'[r].left = work[r].left /\ work'[r].skipped = work[r].skipped /\ work'[r].hit = work[r].hit
               /\ work'[r].ranked = work[r].ranked /\ work'[r].found = work[r].found /\ work'[r].current = FALSE
    <3>1. work[r] \in Work /\ work'[r] = [work[r] EXCEPT !.current = FALSE]
      BY <1>1, <1>3
    <3> QED BY <3>1 DEF Work
  <2>2. work' = [r \in Readers |-> work'[r]]
    BY <1>3
  <2> QED BY <2>1, <2>2
<1> QED BY <1>2, <1>3 DEF Outdated

LEMMA WriteByHandKeeps ==
  ASSUME WikiInv, ListedInv, OneInv, WriteByHand
  PROVE  /\ WikiInv' /\ ListedInv' /\ OneInv' /\ PagesStay
         /\ UNCHANGED op /\ \A p \in Paths : page'[p] \in Workflows => page'[p] = page[p]
<1>1. PICK w \in Workflows : page' = [page EXCEPT ![slug_path[w]] = "authored"]
  BY DEF WriteByHand
<1>2. UNCHANGED <<raw, index, logged, op, overlap, cut, imported>>
  BY DEF WriteByHand, history
<1>3. page \in [Paths -> {"absent", "torn", "authored"} \cup Held] /\ TypeOK
  BY DEF WikiInv, TypeOK
<1>4. TypeOK' /\ PagesStay
  BY <1>1, <1>2, <1>3 DEF TypeOK, PagesStay
<1>5. FewerPages
  BY <1>1, <1>3, KindAssumption DEF FewerPages
<1>6. \A t \in Tasks : OpInv(t)'
  <2>1. \A t \in Tasks : op[t].path \subseteq Paths
    BY OpFields, <1>3 DEF TypeOK
  <2> QED BY <1>2, <1>4, <2>1 DEF WikiInv, OpInv, At, Updating, PagesStay
<1>7. IndexAndLogNamePages'
  <2>1. index \subseteq Paths /\ logged \subseteq Sources /\ \A s \in Sources : source_path[s] \in Paths
    BY <1>3, PathAssumption DEF TypeOK
  <2> QED BY <1>2, <1>4, <2>1 DEF WikiInv, IndexAndLogNamePages, PagesStay
<1>8. ListedInv'
  BY <1>2 DEF ListedInv, Listed, Updating, Ingested, InLine, At
<1>9. OneInv'
  <2>1. SUFFICES ASSUME "import" \notin overlap PROVE One'
    BY <1>2 DEF OneInv
  <2>2. One /\ Importing' = Importing
    BY <1>2, <2>1 DEF OneInv, Importing
  <2>3. \A t \in Importing : op[t].todo \subseteq Workflows /\ (op[t].pc \in {"write", "write."} => op[t].of \subseteq Workflows)
    BY <1>3, OpFields DEF Importing, WikiInv, OpInv, TypeOK
  <2> QED BY <1>2, <1>5, <2>2, <2>3 DEF One, FewerPages
<1> QED BY <1>2, <1>4, <1>5, <1>6, <1>7, <1>8, <1>9 DEF WikiInv, FewerPages
-----------------------------------------------------------------------------
(* What a step of a reader leaves alone, and what it may do. *)

LEMMA ReadFacts ==
  ASSUME VectorTypeOK, NEW r \in Readers, Read(r)
  PROVE  /\ UNCHANGED <<vars, edits>>
         /\ work' \in [Readers -> Work] /\ \A q \in Readers \ {r} : work'[q] = work[q]
         /\ \/ UNCHANGED vectors
            \/ \E p \in work[r].left : Is(r, "embed") /\ vectors' = [vectors EXCEPT ![p] = work[r].pages[p]]
<1> USE DEF Reads
<1>1. ASSUME NEW kind \in {"all", "workflows", "vectorize"}, ReadPages(r, kind)
      PROVE  UNCHANGED <<vars, edits, vectors>> /\ work' \in [Readers -> Work] /\ \A q \in Readers \ {r} : work'[q] = work[q]
  BY <1>1, ReadPagesFacts DEF ReadPages
<1>2. CASE Embed(r)
  <2>1. Is(r, "embed") /\ UNCHANGED <<vars, edits>>
    BY <1>2 DEF Embed
  <2> QED BY <1>2, <2>1, EmbedFacts
<1>3. CASE EndReindex(r)
  BY <1>3, EndReindexFacts DEF EndReindex
<1>4. CASE Rank(r)
  <2>1. UNCHANGED <<vars, edits, vectors>>
    BY <1>4 DEF Rank
  <2> QED BY <1>4, <2>1, RankFacts
<1>5. CASE ReadHit(r)
  <2>1. UNCHANGED <<vars, edits, vectors>>
    BY <1>5 DEF ReadHit
  <2> QED BY <1>5, <2>1, ReadHitFacts
<1> QED BY <1>1, <1>2, <1>3, <1>4, <1>5 DEF Read

LEMMA VectorTypeKeeps ==
  ASSUME VectorTypeOK, TypeOK', VectorNext
  PROVE  VectorTypeOK'
<1>1. /\ vectors \in [Paths -> Page] /\ work \in [Readers -> Work] /\ edits \in Nat /\ edits <= MaxEdits
  BY EditAssumption DEF VectorTypeOK
<1>2. CASE Next /\ Outdated /\ UNCHANGED <<vectors, edits>>
  BY <1>2, OutdatedFacts DEF VectorTypeOK
<1>3. CASE WriteByHand
  <2>1. edits' \in 0 .. MaxEdits /\ UNCHANGED vectors /\ Outdated
    BY <1>1, <1>3, EditAssumption DEF WriteByHand
  <2> QED BY <2>1, OutdatedFacts DEF VectorTypeOK
<1>4. ASSUME NEW r \in Readers, Read(r)
      PROVE  VectorTypeOK'
  <2>1. work[r].left \subseteq Paths /\ work[r].pages \in [Paths -> Page]
    BY <1>1 DEF Work
  <2>2. vectors' \in [Paths -> Page]
    BY <1>1, <1>4, <2>1, ReadFacts
  <2> QED BY <1>4, <2>2, ReadFacts DEF VectorTypeOK
<1> QED BY <1>2, <1>3, <1>4 DEF VectorNext

LEMMA OverlapGrows ==
  ASSUME Next
  PROVE  overlap \subseteq overlap'
<1> USE DEF files, history
<1>1. ASSUME NEW t \in Tasks, Step(t)
      PROVE  overlap \subseteq overlap'
  BY <1>1 DEF Step, StoreRaw, CheckPage, Complete, WriteConcept, ReadIndex, WriteIndex, AppendLog, ReadBundle, ImportNext, Stop
<1> QED BY <1>1 DEF Next, BeginIngest, BeginImport
-----------------------------------------------------------------------------
(* Freshness.  While nothing was written since a reader read the bundle, every
   reader that embeds has the pages as they are, so no vector goes back. *)

FreshInv(r) ==
  /\ Is(r, "reindexed") => work[r].left = {}
  /\ work[r].current =>
       /\ work[r].pc \in {"embed", "reindexed"}
       /\ \A q \in Readers : Is(q, "embed") => work[q].pages = page
       /\ ~work[r].skipped =>
            \A p \in Paths : page[p] \in Embeds(work[r].kind) /\ p \notin work[r].left => vectors[p] = page[p]

LEMMA FreshOutdated ==
  ASSUME VectorTypeOK, Outdated, UNCHANGED vectors, \A r \in Readers : FreshInv(r)
  PROVE  \A r \in Readers : FreshInv(r)'
<1> SUFFICES ASSUME NEW r \in Readers
             PROVE  FreshInv(r)'
  OBVIOUS
<1>1. (Is(r, "reindexed") => work[r].left = {})'
  BY OutdatedFacts DEF FreshInv, Is
<1>2. ASSUME work'[r].current
      PROVE  /\ work'[r].pc \in {"embed", "reindexed"}
             /\ \A q \in Readers : Is(q, "embed")' => work'[q].pages = page'
             /\ ~work'[r].skipped =>
                  \A p \in Paths : page'[p] \in Embeds(work'[r].kind) /\ p \notin work'[r].left => vectors'[p] = page'[p]
  <2>1. work[r].current /\ UNCHANGED <<page, vectors>>
    BY <1>2, OutdatedFacts
  <2> QED BY <2>1, OutdatedFacts DEF FreshInv, Is
<1> QED BY <1>1, <1>2 DEF FreshInv, Embeds

LEMMA FreshRead ==
  ASSUME VectorTypeOK, NEW r \in Readers, Read(r), \A q \in Readers : FreshInv(q)
  PROVE  \A q \in Readers : FreshInv(q)'
<1>1. UNCHANGED page /\ work \in [Readers -> Work] /\ vectors \in [Paths -> Page]
  BY ReadFacts DEF vars, files, VectorTypeOK
<1>2. ASSUME NEW kind \in {"all", "workflows", "vectorize"}, ReadPages(r, kind)
      PROVE  \A q \in Readers : FreshInv(q)'
  <2>1. UNCHANGED vectors
    BY <1>2 DEF ReadPages
  <2>2. \A q \in Readers \ {r} : work'[q] = work[q]
    BY <1>2, ReadPagesFacts DEF Reads
  <2>3. CASE work'[r].pc = "failed" /\ work'[r].current = FALSE
    BY <1>1, <2>1, <2>2, <2>3 DEF FreshInv, Is, Embeds
  <2>4. CASE /\ work'[r].kind = kind /\ work'[r].pc = "embed" /\ work'[r].pages = page
             /\ work'[r].left = {p \in Paths : page[p] \in Embeds(kind)}
             /\ work'[r].current => \A q \in Readers : Is(q, "embed") => work[q].pages = page
    <3>1. FreshInv(r)'
      BY <1>1, <2>1, <2>2, <2>4 DEF FreshInv, Is, Embeds
    <3>2. \A q \in Readers \ {r} : FreshInv(q)'
      BY <1>1, <2>1, <2>2, <2>4 DEF FreshInv, Is, Embeds
    <3> QED BY <3>1, <3>2
  <2> QED BY <1>2, <2>3, <2>4, ReadPagesFacts DEF Reads
<1>3. CASE Embed(r)
  <2>1. Is(r, "embed")
    BY <1>3 DEF Embed
  <2>2. ASSUME NEW p \in work[r].left, vectors' = [vectors EXCEPT ![p] = work[r].pages[p]],
               Reads(r, work[r].kind, work[r].pc, work[r].pages, work[r].left \ {p}, work[r].skipped,
                     work[r].hit, work[r].ranked, work[r].found),
               work'[r].current = work[r].current
        PROVE  \A q \in Readers : FreshInv(q)'
    BY <1>1, <2>1, <2>2 DEF Reads, FreshInv, Is, Embeds
  <2>3. ASSUME UNCHANGED vectors, Reads(r, "vectorize", "failed", NoPages, {}, FALSE, {}, "absent", {}), work'[r].current = FALSE
        PROVE  \A q \in Readers : FreshInv(q)'
    BY <1>1, <2>1, <2>3 DEF Reads, FreshInv, Is, Embeds
  <2>4. ASSUME UNCHANGED vectors, NEW p \in work[r].left,
               Reads(r, work[r].kind, work[r].pc, work[r].pages, work[r].left \ {p}, TRUE,
                     work[r].hit, work[r].ranked, work[r].found),
               work'[r].current = work[r].current
        PROVE  \A q \in Readers : FreshInv(q)'
    BY <1>1, <2>1, <2>4 DEF Reads, FreshInv, Is, Embeds
  <2> QED BY <1>3, <2>2, <2>3, <2>4, EmbedFacts
<1>4. CASE EndReindex(r)
  <2>1. Is(r, "embed") /\ work[r].left = {} /\ UNCHANGED vectors
    BY <1>4 DEF EndReindex
  <2> QED BY <1>1, <1>4, <2>1, EndReindexFacts DEF Reads, FreshInv, Is, Embeds
<1>5. CASE Rank(r)
  <2>1. UNCHANGED vectors
    BY <1>5 DEF Rank
  <2>2. work'[r].pc \in {"create", "read"} /\ work'[r].current = FALSE /\ \A q \in Readers \ {r} : work'[q] = work[q]
    BY <1>5, RankFacts DEF Reads
  <2> QED BY <1>1, <2>1, <2>2 DEF FreshInv, Is, Embeds
<1>6. CASE ReadHit(r)
  <2>1. UNCHANGED vectors /\ Is(r, "read")
    BY <1>6 DEF ReadHit
  <2>2. ~work[r].current
    BY <2>1 DEF FreshInv, Is
  <2> QED BY <1>1, <1>6, <2>1, <2>2, ReadHitFacts DEF Reads, FreshInv, Is, Embeds
<1> QED BY <1>2, <1>3, <1>4, <1>5, <1>6 DEF Read
-----------------------------------------------------------------------------
(* Paths.  A path is a workflow's if its page is, or a reader holds that page
   or its vector.  It then has a page, at one of the workflow's two paths, and
   is no other workflow's, nor about to be. *)

IsOf(p, w) ==
  \/ page[p] = w
  \/ vectors[p] = w
  \/ \E r \in Readers : work[r].pages[p] = w \/ (p \in work[r].hit /\ work[r].ranked = w)

PathsTaken == \A p \in Paths, w \in Workflows : IsOf(p, w) => p \in {slug_path[w], id_path[w]} /\ page[p] # "absent"

OnePerPath ==
  OwnIdPaths /\ "import" \notin overlap =>
    \A p \in Paths, w, u \in Workflows : IsOf(p, w) /\ (IsOf(p, u) \/ Claims(p, u)) => w = u

(* A reader holds no workflow's page or vector that it did not read. *)
LEMMA ReadIsOf ==
  ASSUME VectorTypeOK, NEW r \in Readers, Read(r)
  PROVE  \A p \in Paths, w \in Workflows : IsOf(p, w)' => IsOf(p, w)
<1> SUFFICES ASSUME NEW p \in Paths, NEW w \in Workflows, IsOf(p, w)'
             PROVE  IsOf(p, w)
  OBVIOUS
<1>1. /\ UNCHANGED page /\ work \in [Readers -> Work] /\ vectors \in [Paths -> Page] /\ w # "absent"
      /\ \A q \in Readers \ {r} : work'[q] = work[q]
  BY ReadFacts, KindAssumption DEF vars, files, VectorTypeOK
<1>2. vectors'[p] = vectors[p] \/ (Is(r, "embed") /\ vectors'[p] = work[r].pages[p])
  BY <1>1, ReadFacts
<1>3. CASE page'[p] = w \/ vectors'[p] = w \/ \E q \in Readers \ {r} : work'[q].pages[p] = w \/ (p \in work'[q].hit /\ work'[q].ranked = w)
  BY <1>1, <1>2, <1>3 DEF IsOf
<1>4. CASE work'[r].pages[p] = w \/ (p \in work'[r].hit /\ work'[r].ranked = w)
  <2>1. NoPages[p] # w
    BY <1>1 DEF NoPages
  <2>2. ASSUME NEW kind \in {"all", "workflows", "vectorize"}, ReadPages(r, kind)
        PROVE  IsOf(p, w)
    BY <1>1, <1>4, <2>1, <2>2, ReadPagesFacts DEF Reads, IsOf
  <2>3. CASE Embed(r)
    BY <1>4, <2>1, <2>3, EmbedFacts DEF Reads, IsOf
  <2>4. CASE EndReindex(r)
    BY <1>4, <2>1, <2>4, EndReindexFacts DEF Reads, IsOf
  <2>5. CASE Rank(r)
    <3>1. CASE Reads(r, "recommend", "create", NoPages, {}, FALSE, {}, "absent", {})
      BY <1>4, <2>1, <3>1 DEF Reads
    <3>2. ASSUME NEW b \in Paths, Reads(r, "recommend", "read", NoPages, {}, FALSE, {b}, vectors[b], {})
          PROVE  vectors[p] = w
      BY <1>4, <2>1, <3>2 DEF Reads
    <3> QED BY <2>5, <3>1, <3>2, RankFacts DEF IsOf
  <2>6. CASE ReadHit(r)
    BY <1>4, <2>1, <2>6, ReadHitFacts DEF Reads, IsOf
  <2> QED BY <2>2, <2>3, <2>4, <2>5, <2>6 DEF Read
<1> QED BY <1>3, <1>4 DEF IsOf

LEMMA OutdatedIsOf ==
  ASSUME VectorTypeOK, Outdated, UNCHANGED vectors
  PROVE  \A p \in Paths, w \in Workflows : IsOf(p, w)' => IsOf(p, w) \/ page'[p] = w
BY OutdatedFacts DEF IsOf

LEMMA ClaimFacts ==
  ASSUME WikiInv, NEW p \in Paths, NEW w \in Workflows, Claims(p, w)
  PROVE  p \in {slug_path[w], id_path[w]}
<1>1. PICK t \in Tasks : t \in Importing /\ op[t].pc \in {"write", "write."} /\ op[t].of = {w} /\ op[t].path = {p}
  BY DEF Claims, Importing
<1> QED BY <1>1 DEF WikiInv, OpInv, Importing

(* A step of a task: an import claims a path that unique_path chose, either
   free or the workflow's own. *)
LEMMA PathsWiki ==
  ASSUME WikiInv, OneInv, VectorTypeOK, PathsTaken, OnePerPath, Next, Outdated, UNCHANGED vectors
  PROVE  PathsTaken' /\ OnePerPath'
<1>1. \A p \in Paths, w \in Workflows : IsOf(p, w)' => IsOf(p, w) \/ (Claims(p, w) /\ page'[p] = w)
  <2>1. \A p \in Paths, w \in Workflows : page'[p] = w => page[p] = w \/ Claims(p, w)
    BY WikiSources
  <2> QED BY <2>1, OutdatedIsOf DEF IsOf
<1>2. PathsTaken'
  <2>1. PagesStay /\ \A w \in Workflows : w # "absent"
    BY WikiKeeps, KindAssumption
  <2> QED BY <1>1, <2>1, ClaimFacts DEF PathsTaken, PagesStay
<1>3. OnePerPath'
  <2> SUFFICES ASSUME OwnIdPaths, "import" \notin overlap', NEW p \in Paths, NEW w \in Workflows, NEW u \in Workflows,
                      IsOf(p, w)', IsOf(p, u)' \/ Claims(p, u)'
               PROVE  w = u
    BY DEF OnePerPath, OwnIdPaths
  <2>1. "import" \notin overlap
    BY OverlapGrows
  <2>2. \A x, y \in Workflows : IsOf(p, x) /\ (IsOf(p, y) \/ Claims(p, y)) => x = y
    BY <2>1 DEF OnePerPath
  <2>3. \A x, y \in Workflows : Claims(p, x) /\ Claims(p, y) => x = y
    <3>1. \A t, s \in Importing : t = s
      BY <2>1 DEF OneInv, One
    <3> QED BY <3>1 DEF Claims
  <2>4. CASE IsOf(p, u)' \/ Claims(p, u)
    BY <1>1, <2>2, <2>3, <2>4
  <2>5. CASE UNCHANGED page /\ p = unique_path(u)
    <3>1. IsOf(p, w)
      BY <2>5, OutdatedIsOf DEF IsOf
    <3>2. p \in {slug_path[w], id_path[w]} /\ page[p] # "absent"
      BY <3>1 DEF PathsTaken
    <3>3. p = id_path[u]
      BY <2>5, <3>2 DEF unique_path
    <3> QED BY <3>2, <3>3 DEF OwnIdPaths
  <2> QED BY <2>4, <2>5, WikiSources
<1> QED BY <1>2, <1>3

LEMMA PathsByHand ==
  ASSUME WikiInv, ListedInv, OneInv, VectorTypeOK, PathsTaken, OnePerPath, WriteByHand
  PROVE  PathsTaken' /\ OnePerPath'
<1>1. Outdated /\ UNCHANGED <<vectors, op, overlap>>
  BY DEF WriteByHand, history
<1>2. \A p \in Paths, w \in Workflows : IsOf(p, w)' => IsOf(p, w)
  BY <1>1, WriteByHandKeeps, OutdatedIsOf DEF IsOf
<1>3. \A p \in Paths, w \in Workflows : Claims(p, w)' = Claims(p, w)
  BY <1>1 DEF Claims, Importing
<1>4. PathsTaken'
  BY <1>2, WriteByHandKeeps DEF PathsTaken, PagesStay
<1>5. OnePerPath'
  BY <1>1, <1>2, <1>3 DEF OnePerPath, OwnIdPaths
<1> QED BY <1>4, <1>5

LEMMA PathsRead ==
  ASSUME VectorTypeOK, PathsTaken, OnePerPath, NEW r \in Readers, Read(r)
  PROVE  PathsTaken' /\ OnePerPath'
<1>1. UNCHANGED <<page, op, overlap>>
  BY ReadFacts DEF vars, files, history
<1>2. \A p \in Paths, w \in Workflows : IsOf(p, w)' => IsOf(p, w)
  BY ReadIsOf
<1>3. \A p \in Paths, w \in Workflows : Claims(p, w)' = Claims(p, w)
  BY <1>1 DEF Claims, Importing
<1>4. PathsTaken'
  BY <1>1, <1>2 DEF PathsTaken
<1>5. OnePerPath'
  BY <1>1, <1>2, <1>3 DEF OnePerPath, OwnIdPaths
<1> QED BY <1>4, <1>5

(* The best hit's page is still the workflow's whose vector was ranked. *)
LEMMA ReuseRead ==
  ASSUME VectorTypeOK, OnePerPath, ReuseIsWhatWasRanked, NEW r \in Readers, Read(r)
  PROVE  ReuseIsWhatWasRanked'
<1> SUFFICES ASSUME OwnIdPaths, "import" \notin overlap', NEW q \in Readers, Is(q, "reuse")', work'[q].ranked \in Workflows
             PROVE  work'[q].found = {work'[q].ranked}
  BY DEF ReuseIsWhatWasRanked, OwnIdPaths
<1>1. "import" \notin overlap /\ work'[q].pc = "reuse"
  BY ReadFacts DEF vars, history, Is
<1>2. CASE q # r
  BY <1>1, <1>2, ReadFacts DEF ReuseIsWhatWasRanked, Is
<1>3. CASE q = r
  <2>1. CASE ReadHit(r)
    <3>1. PICK p \in work[r].hit :
            /\ extract_workflow_ref(p) # {} /\ work'[r].found = extract_workflow_ref(p) /\ work'[r].ranked = work[r].ranked
      BY <1>1, <1>3, <2>1, ReadHitFacts DEF Reads
    <3>2. p \in Paths
      BY DEF VectorTypeOK, Work
    <3>3. page[p] \in Workflows /\ extract_workflow_ref(p) = {page[p]}
      BY <3>1 DEF extract_workflow_ref
    <3>4. IsOf(p, page[p]) /\ IsOf(p, work[r].ranked)
      BY DEF IsOf
    <3> QED BY <1>1, <1>3, <3>1, <3>2, <3>3, <3>4 DEF OnePerPath
  <2>2. CASE Embed(r)
    <3>1. work[r].pc # "reuse"
      BY <2>2 DEF Embed, Is
    <3> QED BY <1>1, <1>3, <2>2, <3>1, EmbedFacts DEF Reads
  <2>3. CASE (\E kind \in {"all", "workflows", "vectorize"} : ReadPages(r, kind)) \/ EndReindex(r) \/ Rank(r)
    BY <1>1, <1>3, <2>3, ReadPagesFacts, EndReindexFacts, RankFacts DEF Reads
  <2> QED BY <2>1, <2>2, <2>3 DEF Read
<1> QED BY <1>2, <1>3

LEMMA ReuseOutdated ==
  ASSUME VectorTypeOK, Outdated, overlap \subseteq overlap', ReuseIsWhatWasRanked
  PROVE  ReuseIsWhatWasRanked'
BY OutdatedFacts DEF ReuseIsWhatWasRanked, OwnIdPaths, Is
-----------------------------------------------------------------------------
(* The theorems. *)

VectorInv ==
  /\ VectorTypeOK /\ WikiInv /\ ListedInv /\ OneInv
  /\ \A r \in Readers : FreshInv(r)
  /\ PathsTaken /\ OnePerPath /\ ReuseIsWhatWasRanked

LEMMA InitVectorInv == VectorInit => VectorInv
<1> SUFFICES ASSUME VectorInit PROVE VectorInv
  OBVIOUS
<1>1. /\ raw = {} /\ page = NoPages /\ index = {} /\ logged = {} /\ overlap = {} /\ cut = FALSE /\ imported = {}
      /\ vectors = NoPages /\ edits = 0
  BY DEF VectorInit, Init, NoPages
<1>2. /\ op \in [Tasks -> Op]
      /\ \A t \in Tasks : op[t].kind = "none" /\ op[t].pc = "idle" /\ op[t].path = {} /\ op[t].of = {}
  BY DEF VectorInit, Init, Op, Idle
<1>3. work \in [Readers -> Work] /\ \A r \in Readers : work[r] = Waiting
  BY WaitingType DEF VectorInit
<1>4. NoPages \in [Paths -> Page] /\ NoPages \in [Paths -> {"absent", "torn", "authored"} \cup Held]
      /\ (\A p \in Paths : NoPages[p] = "absent") /\ \A w \in Workflows : w # "absent"
  BY KindAssumption DEF NoPages, Page
<1>5. VectorTypeOK
  <2>1. edits \in 0 .. MaxEdits
    BY <1>1, EditAssumption
  <2>2. TypeOK
    BY <1>1, <1>2, <1>4 DEF TypeOK
  <2> QED BY <1>1, <1>3, <1>4, <2>1, <2>2 DEF VectorTypeOK
<1>6. WikiInv
  BY <1>1, <1>2, <1>5 DEF WikiInv, IndexAndLogNamePages, OpInv, Updating, At, VectorTypeOK
<1>7. ListedInv
  BY <1>1, <1>2 DEF ListedInv, Listed, Updating, Ingested, At
<1>8. OneInv
  BY <1>1, <1>2, <1>4 DEF OneInv, One, Importing
<1>9. \A r \in Readers : FreshInv(r)
  BY <1>3, WaitingType DEF FreshInv, Is, Waiting
<1>10. \A p \in Paths, w \in Workflows : ~IsOf(p, w)
  BY <1>1, <1>3, <1>4, WaitingType DEF IsOf
<1>11. ReuseIsWhatWasRanked
  BY <1>3 DEF ReuseIsWhatWasRanked, Is, Waiting
<1> QED BY <1>5, <1>6, <1>7, <1>8, <1>9, <1>10, <1>11 DEF VectorInv, PathsTaken, OnePerPath

LEMMA VectorInvKeeps == VectorInv /\ [VectorNext]_<<vars, vectors, work, edits>> => VectorInv'
<1> SUFFICES ASSUME VectorInv, [VectorNext]_<<vars, vectors, work, edits>>
             PROVE  VectorInv'
  OBVIOUS
<1> USE DEF VectorInv
<1>1. CASE Next /\ Outdated /\ UNCHANGED <<vectors, edits>>
  <2>1. WikiInv' /\ ListedInv' /\ OneInv' /\ TypeOK'
    BY <1>1, WikiKeeps, ListedKeeps, OneKeeps DEF WikiInv
  <2>2. VectorTypeOK'
    BY <1>1, <2>1, VectorTypeKeeps DEF VectorNext
  <2>3. (\A r \in Readers : FreshInv(r)') /\ PathsTaken' /\ OnePerPath' /\ ReuseIsWhatWasRanked'
    BY <1>1, FreshOutdated, PathsWiki, OverlapGrows, ReuseOutdated
  <2> QED BY <2>1, <2>2, <2>3
<1>2. CASE WriteByHand
  <2>1. WikiInv' /\ ListedInv' /\ OneInv' /\ TypeOK' /\ Outdated /\ UNCHANGED <<vectors, overlap>>
    BY <1>2, WriteByHandKeeps DEF WikiInv, WriteByHand, history
  <2>2. VectorTypeOK'
    BY <1>2, <2>1, VectorTypeKeeps DEF VectorNext
  <2>3. (\A r \in Readers : FreshInv(r)') /\ PathsTaken' /\ OnePerPath' /\ ReuseIsWhatWasRanked'
    BY <1>2, <2>1, FreshOutdated, PathsByHand, ReuseOutdated
  <2> QED BY <2>1, <2>2, <2>3
<1>3. ASSUME NEW r \in Readers, Read(r)
      PROVE  VectorInv'
  <2>1. UNCHANGED vars
    BY <1>3, ReadFacts
  <2>2. WikiInv' /\ ListedInv' /\ OneInv' /\ TypeOK'
    BY <2>1 DEF vars, files, history, WikiInv, TypeOK, IndexAndLogNamePages, OpInv, ListedInv, Listed, OneInv, One,
                Updating, Ingested, InLine, Importing, At
  <2>3. VectorTypeOK'
    BY <1>3, <2>2, VectorTypeKeeps DEF VectorNext
  <2>4. (\A q \in Readers : FreshInv(q)') /\ PathsTaken' /\ OnePerPath' /\ ReuseIsWhatWasRanked'
    BY <1>3, FreshRead, PathsRead, ReuseRead
  <2> QED BY <2>2, <2>3, <2>4
<1>4. CASE UNCHANGED <<vars, vectors, work, edits>>
  BY <1>4 DEF vars, files, history, VectorTypeOK, WikiInv, TypeOK, IndexAndLogNamePages, OpInv, ListedInv, Listed, OneInv, One,
              Updating, Ingested, InLine, Importing, At, FreshInv, Is, Embeds, PathsTaken, OnePerPath, IsOf, Claims,
              ReuseIsWhatWasRanked, OwnIdPaths
<1> QED BY <1>1, <1>2, <1>3, <1>4 DEF VectorNext

LEMMA VectorInvHolds == VectorSpec => []VectorInv
BY InitVectorInv, VectorInvKeeps, PTL DEF VectorSpec

(* Files, operations, vectors and what readers hold keep their types, whatever
   tasks and readers do. *)
THEOREM TypeCorrect == VectorSpec => []VectorTypeOK
<1>1. VectorInv => VectorTypeOK
  BY DEF VectorInv
<1> QED BY <1>1, VectorInvHolds, PTL

(* index.md and log.md (ingest.rs:102-129) name pages that are there, and what
   was ingested stays listed. *)
THEOREM PagesStayListed == VectorSpec => []PagesAreListed
<1>1. VectorInv => PagesAreListed
  BY DEF VectorInv, WikiInv, PagesAreListed, IngestsStayListed, ListedInv, Listed, Ingested, InLine, At
<1> QED BY <1>1, VectorInvHolds, PTL

(* Imports that are repeated, or stop, leave a workflow one page
   (importer.rs:80-120). *)
THEOREM OnePage == VectorSpec => []OnePagePerWorkflow
<1>1. VectorInv => OnePagePerWorkflow
  BY DEF VectorInv, OnePagePerWorkflow, OneInv, One
<1> QED BY <1>1, VectorInvHolds, PTL

(* A reindex that skipped nothing leaves every page's vector as the page is. *)
THEOREM Fresh == VectorSpec => []FreshAfterReindex
<1>1. VectorInv => FreshAfterReindex
  BY DEF VectorInv, FreshAfterReindex, FreshInv
<1> QED BY <1>1, VectorInvHolds, PTL

(* What is recommended for reuse is the workflow whose vector was ranked. *)
THEOREM Reuse == VectorSpec => []ReuseIsWhatWasRanked
<1>1. VectorInv => ReuseIsWhatWasRanked
  BY DEF VectorInv
<1> QED BY <1>1, VectorInvHolds, PTL

-----------------------------------------------------------------------------
(* Numbers.  A set that has m, and with each number below n the next, has all
   from m to n. *)
LEMMA Smallest ==
  ASSUME NEW S \in SUBSET Nat, S # {}
  PROVE  \E i \in S : \A j \in S : i <= j
<1>1. IsWellFoundedOn(OpToRel(<, Nat), Nat)
  BY NatLessThanWellFounded
<1>2. PICK i \in S : \A j \in S : <<j, i>> \notin OpToRel(<, Nat)
  BY <1>1, WFMin
<1>3. ASSUME NEW j \in S PROVE i <= j
  <2>1. <<j, i>> \notin OpToRel(<, Nat)
    BY <1>2
  <2>2. <<j, i>> \in Nat \X Nat /\ <<j, i>>[1] = j /\ <<j, i>>[2] = i
    OBVIOUS
  <2>3. ~ (j < i)
    BY <2>1, <2>2 DEF OpToRel
  <2> QED BY <2>3
<1> QED BY <1>3

LEMMA UpTo ==
  ASSUME NEW m \in Nat, NEW n \in Nat, NEW S, m \in S,
         \A i \in m..n : (i # n /\ i \in S) => i + 1 \in S
  PROVE  m..n \subseteq S
<1> DEFINE missing == {i \in m..n : i \notin S}
<1>1. missing \in SUBSET Nat
  OBVIOUS
<1>2. ASSUME missing # {} PROVE FALSE
  <2>1. PICK k \in missing : \A j \in missing : k <= j
    BY <1>1, <1>2, Smallest
  <2>2. k \in m..n /\ k # m /\ k \notin S
    BY <2>1
  <2>3. k - 1 \in m..n /\ k - 1 # n /\ k - 1 \notin missing
    BY <2>1, <2>2
  <2>4. (k - 1) + 1 \in S
    BY <2>3
  <2> QED BY <2>2, <2>4
<1> QED BY <1>2

(* A function on m..n whose values are each computed from the one before. *)
Computed(f, m, n, first, step) == \A i \in m..n : f[i] = IF i = m THEN first ELSE step[i][f[i - 1]]

LEMMA Recursion ==
  ASSUME NEW T, NEW m \in Nat, NEW n \in Nat, m <= n, NEW first \in T, NEW step \in [m..n -> [T -> T]]
  PROVE  \E f \in [m..n -> T] : Computed(f, m, n, first, step)
<1> DEFINE S == {k \in m..n : \E f \in [m..k -> T] : Computed(f, m, k, first, step)}
<1>1. m \in S
  <2> DEFINE f == [i \in m..m |-> first]
  <2>1. f \in [m..m -> T] /\ Computed(f, m, m, first, step)
    BY DEF Computed
  <2> HIDE DEF f
  <2>2. \E h \in [m..m -> T] : Computed(h, m, m, first, step)
    BY <2>1
  <2> QED BY <2>2
<1>2. ASSUME NEW k \in m..n, k # n, k \in S PROVE k + 1 \in S
  <2>1. PICK f \in [m..k -> T] : Computed(f, m, k, first, step)
    BY <1>2
  <2> DEFINE g == [i \in m..(k + 1) |-> IF i = k + 1 THEN step[k + 1][f[k]] ELSE f[i]]
  <2>2. k + 1 \in m..n /\ k \in m..k /\ k \in Int
    BY <1>2
  <2>3. f[k] \in T /\ step[k + 1][f[k]] \in T
    BY <2>2
  <2>4. g \in [m..(k + 1) -> T]
    <3>1. ASSUME NEW i \in m..(k + 1), i # k + 1 PROVE i \in m..k
      BY <3>1, <2>2
    <3> QED BY <2>3, <3>1
  <2>5. ASSUME NEW i \in m..(k + 1) PROVE g[i] = IF i = m THEN first ELSE step[i][g[i - 1]]
    <3>1. CASE i = k + 1
      <4>1. k \in m..(k + 1) /\ k # k + 1 /\ i - 1 = k /\ i # m
        BY <3>1, <2>2
      <4>2. g[k] = f[k] /\ g[i] = step[k + 1][f[k]]
        BY <4>1, <3>1
      <4> QED BY <4>1, <4>2, <3>1
    <3>2. CASE i # k + 1
      <4>1. i \in m..k /\ g[i] = f[i]
        BY <3>2, <2>2
      <4>2. i # m => (i - 1 \in m..(k + 1) /\ i - 1 # k + 1 /\ g[i - 1] = f[i - 1])
        BY <4>1, <2>2
      <4> QED BY <4>1, <4>2, <2>1 DEF Computed
    <3> QED BY <3>1, <3>2
  <2>6. Computed(g, m, k + 1, first, step)
    BY <2>5 DEF Computed
  <2> QED BY <2>2, <2>4, <2>6
<1> HIDE DEF S
<1>3. m..n \subseteq S
  BY <1>1, <1>2, UpTo
<1>4. n \in S
  BY <1>3
<1> QED BY <1>4 DEF S

-----------------------------------------------------------------------------
(* The relations that do not lead to one page, kept one by one. *)
Kept(s, away, f) ==
  \A n \in 0..Len(s) : f[n] = IF n = 0 THEN <<>>
                              ELSE IF s[n].page = away THEN f[n - 1] ELSE Append(f[n - 1], s[n])

LEMMA RetainedIsKept ==
  ASSUME NEW T, NEW s \in Seq(T), NEW away
  PROVE  \E f : Kept(s, away, f) /\ retained(s, away) = f[Len(s)]
<1> DEFINE value(f, n) == IF n = 0 THEN <<>>
                          ELSE IF s[n].page = away THEN f[n - 1] ELSE Append(f[n - 1], s[n])
           step == [n \in 0..Len(s) |-> [k \in Seq(T) |->
                      IF n = 0 THEN k ELSE IF s[n].page = away THEN k ELSE Append(k, s[n])]]
           it == CHOOSE f : f = [n \in 0..Len(s) |-> value(f, n)]
<1>1. Len(s) \in Nat /\ 0 <= Len(s) /\ <<>> \in Seq(T)
  OBVIOUS
<1>2. \A n \in 0..Len(s) : n # 0 => s[n] \in T
  BY <1>1
<1>3. step \in [0..Len(s) -> [Seq(T) -> Seq(T)]]
  BY <1>2
<1>4. PICK g \in [0..Len(s) -> Seq(T)] : Computed(g, 0, Len(s), <<>>, step)
  <2> HIDE DEF step
  <2> QED BY <1>1, <1>3, Recursion
<1>5. ASSUME NEW n \in 0..Len(s) PROVE g[n] = value(g, n)
  <2>1. n # 0 => n - 1 \in 0..Len(s)
    BY <1>1
  <2>2. n # 0 => g[n - 1] \in Seq(T)
    BY <2>1
  <2> QED BY <1>4, <2>2 DEF Computed
<1>6. g = [n \in 0..Len(s) |-> value(g, n)]
  BY <1>5
<1>7. it = [n \in 0..Len(s) |-> value(it, n)]
  <2>1. \E f : f = [n \in 0..Len(s) |-> value(f, n)]
    BY <1>6
  <2> QED BY <2>1
<1>8. retained(s, away) = it[Len(s)]
  BY DEF retained
<1> HIDE DEF it, step
<1>9. Kept(s, away, it)
  BY <1>7 DEF Kept
<1> QED BY <1>8, <1>9

(* What is kept of the first n entries: a list of entries, none of the page,
   each other one of them, and each once. *)
KeptOf(s, away, n, T, k) ==
  /\ k \in Seq(T)
  /\ \A i \in 1..Len(k) : \E m \in 1..n : k[i] = s[m] /\ s[m].page # away
  /\ \A m \in 1..n : s[m].page # away => \E i \in 1..Len(k) : k[i] = s[m]
  /\ \A i, j \in 1..Len(k) : k[i] = k[j] => i = j

LEMMA KeptFacts ==
  ASSUME NEW T, NEW s \in Seq(T), NEW away, NEW f, Kept(s, away, f),
         \A i, j \in 1..Len(s) : s[i] = s[j] => i = j
  PROVE  \A n \in 0..Len(s) : KeptOf(s, away, n, T, f[n])
<1> DEFINE S == {n \in 0..Len(s) : KeptOf(s, away, n, T, f[n])}
<1>1. Len(s) \in Nat /\ 0 <= Len(s)
  OBVIOUS
<1>2. 0 \in S
  <2>1. 0 \in 0..Len(s) /\ f[0] = <<>>
    BY <1>1 DEF Kept
  <2>2. <<>> \in Seq(T) /\ Len(<<>>) = 0
    OBVIOUS
  <2>3. KeptOf(s, away, 0, T, <<>>)
    BY <2>2 DEF KeptOf
  <2> QED BY <2>1, <2>3
<1>3. ASSUME NEW n \in 0..Len(s), n # Len(s), n \in S PROVE n + 1 \in S
  <2>1. n + 1 \in 0..Len(s) /\ n + 1 # 0 /\ (n + 1) - 1 = n /\ n \in Nat /\ n + 1 \in 1..Len(s)
    BY <1>3, <1>1
  <2>2. f[n + 1] = IF s[n + 1].page = away THEN f[n] ELSE Append(f[n], s[n + 1])
    BY <2>1 DEF Kept
  <2>3. \A m \in 1..(n + 1) : m \in 1..n \/ m = n + 1
    BY <2>1
  <2>4. KeptOf(s, away, n, T, f[n])
    BY <1>3
  <2>5. PICK e \in T : e = s[n + 1]
    BY <2>1
  <2>6. CASE e.page = away
    <3>1. KeptOf(s, away, n + 1, T, f[n])
      <4>1. \A m \in 1..n : m \in 1..(n + 1)
        BY <2>1
      <4> QED BY <2>3, <2>4, <2>5, <2>6, <4>1 DEF KeptOf
    <3> QED BY <3>1, <2>1, <2>2, <2>5, <2>6
  <2>7. CASE e.page # away
    <3>1. PICK k : k = f[n]
      OBVIOUS
    <3>2. k \in Seq(T) /\ Len(k) \in Nat
      BY <3>1, <2>4 DEF KeptOf
    <3>3. PICK more : more = Append(k, e)
      OBVIOUS
    <3>4. /\ more \in Seq(T) /\ Len(more) = Len(k) + 1
          /\ more[Len(k) + 1] = e /\ \A i \in 1..Len(k) : more[i] = k[i]
      BY <3>2, <3>3
    <3>5. \A i \in 1..Len(more) : i \in 1..Len(k) \/ i = Len(k) + 1
      BY <3>2, <3>4
    <3>6. ASSUME NEW i \in 1..Len(more) PROVE \E m \in 1..(n + 1) : more[i] = s[m] /\ s[m].page # away
      <4>1. CASE i = Len(k) + 1
        <5>1. n + 1 \in 1..(n + 1)
          BY <2>1
        <5> QED BY <4>1, <5>1, <3>4, <2>5, <2>7
      <4>2. CASE i \in 1..Len(k)
        <5>1. PICK m \in 1..n : k[i] = s[m] /\ s[m].page # away
          BY <4>2, <2>4, <3>1 DEF KeptOf
        <5>2. m \in 1..(n + 1)
          BY <2>1
        <5> QED BY <5>1, <5>2, <4>2, <3>4
      <4> QED BY <4>1, <4>2, <3>5
    <3>7. ASSUME NEW m \in 1..(n + 1), s[m].page # away PROVE \E i \in 1..Len(more) : more[i] = s[m]
      <4>1. CASE m = n + 1
        <5>1. Len(k) + 1 \in 1..Len(more)
          BY <3>2, <3>4
        <5> QED BY <4>1, <5>1, <3>4, <2>5
      <4>2. CASE m \in 1..n
        <5>1. PICK i \in 1..Len(k) : k[i] = s[m]
          BY <4>2, <3>7, <2>4, <3>1 DEF KeptOf
        <5>2. i \in 1..Len(more) /\ more[i] = k[i]
          BY <3>2, <3>4
        <5> QED BY <5>1, <5>2
      <4> QED BY <4>1, <4>2, <2>3
    <3>8. ASSUME NEW i \in 1..Len(k) PROVE k[i] # e
      <4>1. PICK m \in 1..n : k[i] = s[m]
        BY <2>4, <3>1 DEF KeptOf
      <4>2. m \in 1..Len(s) /\ m # n + 1
        BY <2>1, <1>1
      <4> QED BY <4>1, <4>2, <2>1, <2>5
    <3>9. ASSUME NEW i \in 1..Len(more), NEW j \in 1..Len(more), more[i] = more[j] PROVE i = j
      <4>1. CASE i \in 1..Len(k) /\ j \in 1..Len(k)
        BY <4>1, <3>9, <3>4, <2>4, <3>1 DEF KeptOf
      <4>2. CASE i = Len(k) + 1 /\ j \in 1..Len(k)
        BY <4>2, <3>8, <3>9, <3>4
      <4>3. CASE i \in 1..Len(k) /\ j = Len(k) + 1
        BY <4>3, <3>8, <3>9, <3>4
      <4> QED BY <4>1, <4>2, <4>3, <3>5
    <3>10. KeptOf(s, away, n + 1, T, more)
      BY <3>4, <3>6, <3>7, <3>9 DEF KeptOf
    <3>11. f[n + 1] = more
      BY <2>2, <2>5, <2>7, <3>1, <3>3
    <3> QED BY <3>10, <3>11, <2>1
  <2> QED BY <2>6, <2>7
<1> HIDE DEF S
<1>4. 0..Len(s) \subseteq S
  BY <1>1, <1>2, <1>3, UpTo
<1> QED BY <1>4 DEF S

(* A list without duplicates keeps that, and all its relations but those to
   the page. *)
LEMMA RetainedFacts ==
  ASSUME NEW T, NEW s \in Seq(T), NEW away,
         \A i, j \in 1..Len(s) : s[i] = s[j] => i = j
  PROVE  KeptOf(s, away, Len(s), T, retained(s, away))
<1>1. PICK f : Kept(s, away, f) /\ retained(s, away) = f[Len(s)]
  BY RetainedIsKept
<1>2. Len(s) \in 0..Len(s)
  OBVIOUS
<1> QED BY <1>1, <1>2, KeptFacts

-----------------------------------------------------------------------------
(* What is there is one page, whose relations are each listed once; its links
   are those its author meant; and the relations in force are those listed. *)
Relation == [page : PagePaths, rel : Kinds]
Once(s) == s \in Seq(Relation) /\ \A i, j \in 1..Len(s) : s[i] = s[j] => i = j
InForce(s, q, kind) == \E i \in 1..Len(s) : s[i] = [page |-> q, rel |-> kind]
IsPage(c) ==
  /\ c = [readable |-> c.readable, words |-> c.words, relates_to |-> c.relates_to, links |-> c.links]
  /\ c.readable \in BOOLEAN /\ c.words \in Contents /\ Once(c.relates_to)
LinksLead(links, p, tos) == \E form \in {"md", "wiki"} : links = Asides \cup {LinkTo[form][p][q] : q \in tos}

PagesThere ==
  /\ pages = [p \in PagePaths |-> pages[p]]
  /\ \A p \in PagePaths : pages[p] = {} \/ \E c : pages[p] = {c} /\ IsPage(c)
LinksMeant ==
  /\ meant \in [PagePaths -> SUBSET PagePaths]
  /\ \A p \in PagePaths : IF pages[p] = {} THEN meant[p] = {} ELSE LinksLead(The(p).links, p, meant[p])
RelationsListed ==
  /\ related \subseteq PagePaths \X PagePaths \X Kinds
  /\ \A p, q \in PagePaths, kind \in Kinds :
       <<p, q, kind>> \in related <=> pages[p] # {} /\ InForce(The(p).relates_to, q, kind)
BundleInv == PagesThere /\ LinksMeant /\ RelationsListed

LEMMA OnlyOne == \A c : (CHOOSE x \in {c} : TRUE) = c
OBVIOUS

LEMMA ThePage ==
  ASSUME PagesThere, NEW p \in PagePaths, pages[p] # {}
  PROVE  pages[p] = {The(p)} /\ IsPage(The(p))
<1>1. PICK c : pages[p] = {c} /\ IsPage(c)
  BY DEF PagesThere
<1>2. The(p) = c
  BY <1>1, OnlyOne DEF The
<1> QED BY <1>1, <1>2

LEMMA NoneInForce ==
  \A q, kind : ~InForce(<<>>, q, kind)
<1>1. 1..Len(<<>>) = {}
  OBVIOUS
<1> QED BY <1>1 DEF InForce

LEMMA BundleStart == BundleInit => BundleInv
BY DEF BundleInit, BundleInv, PagesThere, LinksMeant, RelationsListed

(* A step that puts one page in the place of what was there. *)
LEMMA PageReplaced ==
  ASSUME BundleInv, NEW p \in PagePaths, NEW c, IsPage(c), pages' = [pages EXCEPT ![p] = {c}],
         NEW tos \in SUBSET PagePaths, meant' = [meant EXCEPT ![p] = tos], LinksLead(c.links, p, tos),
         related' \subseteq PagePaths \X PagePaths \X Kinds,
         \A q \in PagePaths, kind \in Kinds : <<p, q, kind>> \in related' <=> InForce(c.relates_to, q, kind),
         \A o \in PagePaths \ {p}, q \in PagePaths, kind \in Kinds : <<o, q, kind>> \in related' <=> <<o, q, kind>> \in related
  PROVE  BundleInv'
<1>1. pages'[p] = {c} /\ \A o \in PagePaths \ {p} : pages'[o] = pages[o]
  BY DEF BundleInv, PagesThere
<1>2. (The(p))' = c /\ \A o \in PagePaths \ {p} : (The(o))' = The(o)
  BY <1>1, OnlyOne DEF The
<1>3. PagesThere'
  <2>1. pages' = [o \in PagePaths |-> pages'[o]]
    BY DEF BundleInv, PagesThere
  <2>2. ASSUME NEW o \in PagePaths PROVE pages'[o] = {} \/ \E d : pages'[o] = {d} /\ IsPage(d)
    <3>1. CASE o = p
      BY <3>1, <1>1
    <3>2. CASE o # p
      <4>1. pages'[o] = pages[o]
        BY <3>2, <1>1
      <4> QED BY <4>1 DEF BundleInv, PagesThere
    <3> QED BY <3>1, <3>2
  <2> QED BY <2>1, <2>2 DEF PagesThere
<1>4. LinksMeant'
  <2>1. meant' \in [PagePaths -> SUBSET PagePaths] /\ meant'[p] = tos /\ \A o \in PagePaths \ {p} : meant'[o] = meant[o]
    BY DEF BundleInv, LinksMeant
  <2>2. ASSUME NEW o \in PagePaths
        PROVE  IF pages'[o] = {} THEN meant'[o] = {} ELSE LinksLead((The(o))'.links, o, meant'[o])
    <3>1. CASE o = p
      BY <3>1, <1>1, <1>2, <2>1
    <3>2. CASE o # p
      <4>1. pages'[o] = pages[o] /\ (The(o))' = The(o) /\ meant'[o] = meant[o]
        BY <3>2, <1>1, <1>2, <2>1
      <4>2. IF pages[o] = {} THEN meant[o] = {} ELSE LinksLead(The(o).links, o, meant[o])
        BY DEF BundleInv, LinksMeant
      <4> QED BY <4>1, <4>2
    <3> QED BY <3>1, <3>2
  <2> QED BY <2>1, <2>2 DEF LinksMeant
<1>5. RelationsListed'
  <2>1. ASSUME NEW o \in PagePaths, NEW q \in PagePaths, NEW kind \in Kinds
        PROVE  <<o, q, kind>> \in related' <=> pages'[o] # {} /\ InForce((The(o))'.relates_to, q, kind)
    <3>1. CASE o = p
      BY <3>1, <1>1, <1>2
    <3>2. CASE o # p
      <4>1. pages'[o] = pages[o] /\ (The(o))' = The(o) /\ (<<o, q, kind>> \in related' <=> <<o, q, kind>> \in related)
        BY <3>2, <1>1, <1>2
      <4>2. <<o, q, kind>> \in related <=> pages[o] # {} /\ InForce(The(o).relates_to, q, kind)
        BY DEF BundleInv, RelationsListed
      <4> QED BY <4>1, <4>2
    <3> QED BY <3>1, <3>2
  <2> QED BY <2>1 DEF RelationsListed, InForce
<1> QED BY <1>3, <1>4, <1>5 DEF BundleInv

LEMMA WritePageKeeps ==
  ASSUME BundleInv, NEW p \in PagePaths, NEW tos \in SUBSET PagePaths, NEW form \in {"md", "wiki"}, NEW words \in Contents,
         WritePage(p, tos, form, words)
  PROVE  BundleInv'
<1>1. PICK links : links = Asides \cup {LinkTo[form][p][q] : q \in tos}
  OBVIOUS
<1>2. PICK rels : rels = IF p \in Written THEN get_relations(p) ELSE <<>>
  OBVIOUS
<1>3. PICK c : c = [readable |-> TRUE, words |-> words, relates_to |-> rels, links |-> links]
  OBVIOUS
<1>4. c.readable = TRUE /\ c.words = words /\ c.relates_to = rels /\ c.links = links
  BY <1>3
<1>5. pages' = [pages EXCEPT ![p] = {c}] /\ meant' = [meant EXCEPT ![p] = tos] /\ related' = related
  BY <1>1, <1>2, <1>3 DEF WritePage
<1>6. Once(rels) /\ \A q \in PagePaths, kind \in Kinds : <<p, q, kind>> \in related <=> InForce(rels, q, kind)
  <2>1. CASE p \in Written
    <3>1. rels = The(p).relates_to /\ pages[p] # {}
      BY <2>1, <1>2 DEF get_relations, Written
    <3>2. IsPage(The(p))
      BY <3>1, ThePage DEF BundleInv
    <3> QED BY <3>1, <3>2 DEF BundleInv, RelationsListed, IsPage
  <2>2. CASE p \notin Written
    <3>1. rels = <<>> /\ pages[p] = {}
      BY <2>2, <1>2 DEF Written
    <3>2. Once(<<>>)
      <4>1. <<>> \in Seq(Relation) /\ 1..Len(<<>>) = {}
        OBVIOUS
      <4> QED BY <4>1 DEF Once
    <3> QED BY <3>1, <3>2, NoneInForce DEF BundleInv, RelationsListed
  <2> QED BY <2>1, <2>2
<1>7. IsPage(c)
  BY <1>3, <1>4, <1>6 DEF IsPage
<1>8. LinksLead(c.links, p, tos)
  BY <1>1, <1>4 DEF LinksLead
<1>9. related \subseteq PagePaths \X PagePaths \X Kinds
  BY DEF BundleInv, RelationsListed
<1> QED BY <1>4, <1>5, <1>6, <1>7, <1>8, <1>9, PageReplaced

(* What changes of a page that is written by the program. *)
LEMMA PageFields ==
  ASSUME NEW c, IsPage(c), NEW v
  PROVE  /\ LET d == [c EXCEPT !.readable = v] IN
              /\ d = [readable |-> v, words |-> c.words, relates_to |-> c.relates_to, links |-> c.links]
              /\ d.readable = v /\ d.words = c.words /\ d.relates_to = c.relates_to /\ d.links = c.links
         /\ LET d == [c EXCEPT !.relates_to = v] IN
              /\ d = [readable |-> c.readable, words |-> c.words, relates_to |-> v, links |-> c.links]
              /\ d.readable = c.readable /\ d.words = c.words /\ d.relates_to = v /\ d.links = c.links
<1>1. PICK r, w, s, l : c = [readable |-> r, words |-> w, relates_to |-> s, links |-> l]
  BY DEF IsPage
<1>2. c.readable = r /\ c.words = w /\ c.relates_to = s /\ c.links = l
  BY <1>1
<1>3. PICK d : d = [c EXCEPT !.readable = v]
  OBVIOUS
<1>4. d = [readable |-> v, words |-> w, relates_to |-> s, links |-> l]
  BY <1>1, <1>3
<1>5. d.readable = v /\ d.words = w /\ d.relates_to = s /\ d.links = l
  BY <1>4
<1>6. PICK e : e = [c EXCEPT !.relates_to = v]
  OBVIOUS
<1>7. e = [readable |-> r, words |-> w, relates_to |-> v, links |-> l]
  BY <1>1, <1>6
<1>8. e.readable = r /\ e.words = w /\ e.relates_to = v /\ e.links = l
  BY <1>7
<1> QED BY <1>2, <1>3, <1>4, <1>5, <1>6, <1>7, <1>8

LEMMA TearKeeps ==
  ASSUME BundleInv, NEW p \in PagePaths, Tear(p)
  PROVE  BundleInv'
<1>1. PICK c : c = The(p)
  OBVIOUS
<1>2. PICK d : d = [c EXCEPT !.readable = FALSE]
  OBVIOUS
<1>3. pages[p] # {} /\ pages' = [pages EXCEPT ![p] = {d}] /\ UNCHANGED <<meant, related>>
  BY <1>1, <1>2 DEF Tear, Written
<1>4. IsPage(c)
  BY <1>1, <1>3, ThePage DEF BundleInv
<1>5. /\ d = [readable |-> FALSE, words |-> c.words, relates_to |-> c.relates_to, links |-> c.links]
      /\ d.readable = FALSE /\ d.words = c.words /\ d.relates_to = c.relates_to /\ d.links = c.links
  BY <1>2, <1>4, PageFields
<1>6. IsPage(d)
  BY <1>4, <1>5 DEF IsPage
<1>7. meant[p] \in SUBSET PagePaths /\ meant' = [meant EXCEPT ![p] = meant[p]]
  BY <1>3 DEF BundleInv, LinksMeant
<1>8. LinksLead(d.links, p, meant[p])
  BY <1>1, <1>3, <1>5 DEF BundleInv, LinksMeant
<1>9. \A q \in PagePaths, kind \in Kinds : <<p, q, kind>> \in related' <=> InForce(d.relates_to, q, kind)
  BY <1>1, <1>3, <1>5 DEF BundleInv, RelationsListed
<1>10. related' \subseteq PagePaths \X PagePaths \X Kinds
  BY <1>3 DEF BundleInv, RelationsListed
<1> QED BY <1>3, <1>6, <1>7, <1>8, <1>9, <1>10, PageReplaced

(* A page whose relations are changed. *)
LEMMA RelationsChanged ==
  ASSUME BundleInv, NEW p \in PagePaths, pages[p] # {}, NEW s, Once(s),
         pages' = [pages EXCEPT ![p] = {[The(p) EXCEPT !.relates_to = s]}], meant' = meant,
         related' \subseteq PagePaths \X PagePaths \X Kinds,
         \A q \in PagePaths, kind \in Kinds : <<p, q, kind>> \in related' <=> InForce(s, q, kind),
         \A o \in PagePaths \ {p}, q \in PagePaths, kind \in Kinds : <<o, q, kind>> \in related' <=> <<o, q, kind>> \in related
  PROVE  BundleInv'
<1>1. PICK c : c = The(p)
  OBVIOUS
<1>2. PICK d : d = [c EXCEPT !.relates_to = s]
  OBVIOUS
<1>3. pages' = [pages EXCEPT ![p] = {d}]
  BY <1>1, <1>2
<1>4. IsPage(c)
  BY <1>1, ThePage DEF BundleInv
<1>5. /\ d = [readable |-> c.readable, words |-> c.words, relates_to |-> s, links |-> c.links]
      /\ d.readable = c.readable /\ d.words = c.words /\ d.relates_to = s /\ d.links = c.links
  BY <1>2, <1>4, PageFields
<1>6. IsPage(d)
  BY <1>4, <1>5 DEF IsPage
<1>7. meant[p] \in SUBSET PagePaths /\ meant' = [meant EXCEPT ![p] = meant[p]]
  BY DEF BundleInv, LinksMeant
<1>8. LinksLead(d.links, p, meant[p])
  BY <1>1, <1>5 DEF BundleInv, LinksMeant
<1>9. \A q \in PagePaths, kind \in Kinds : <<p, q, kind>> \in related' <=> InForce(d.relates_to, q, kind)
  BY <1>5
<1> QED BY <1>3, <1>6, <1>7, <1>8, <1>9, PageReplaced

LEMMA AddRelationKeeps ==
  ASSUME BundleInv, NEW p \in PagePaths, NEW q \in PagePaths, NEW kind \in Kinds, add_relation(p, q, kind)
  PROVE  BundleInv'
<1>1. PICK s : s = The(p).relates_to
  OBVIOUS
<1>2. PICK e \in Relation : e = [page |-> q, rel |-> kind]
  BY DEF Relation
<1>3. PICK t : t = IF Contains(s, e) THEN s ELSE Append(s, e)
  OBVIOUS
<1>4. /\ pages[p] # {} /\ pages' = [pages EXCEPT ![p] = {[The(p) EXCEPT !.relates_to = t]}]
      /\ meant' = meant /\ related' = related \cup {<<p, q, kind>>}
  BY <1>1, <1>2, <1>3 DEF add_relation, Written
<1>5. Once(s) /\ s \in Seq(Relation) /\ Len(s) \in Nat
  BY <1>1, <1>4, ThePage, LenProperties DEF BundleInv, IsPage, Once
<1>6. \A o \in PagePaths, k \in Kinds : <<p, o, k>> \in related <=> InForce(s, o, k)
  BY <1>1, <1>4 DEF BundleInv, RelationsListed
<1>7. Once(t) /\ \A o \in PagePaths, k \in Kinds : InForce(t, o, k) <=> InForce(s, o, k) \/ (o = q /\ k = kind)
  <2>1. CASE Contains(s, e)
    <3>1. t = s /\ InForce(s, q, kind)
      BY <2>1, <1>2, <1>3 DEF Contains, InForce
    <3> QED BY <3>1, <1>5
  <2>2. CASE ~Contains(s, e)
    <3>1. t = Append(s, e)
      BY <2>2, <1>3
    <3>2. /\ t \in Seq(Relation) /\ Len(t) = Len(s) + 1 /\ t[Len(s) + 1] = e
          /\ \A i \in 1..Len(s) : t[i] = s[i]
      BY <3>1, <1>5, AppendProperties
    <3>3. \A i \in 1..Len(t) : i \in 1..Len(s) \/ i = Len(s) + 1
      BY <3>2, <1>5
    <3>4. \A i \in 1..Len(s) : t[i] # e
      BY <2>2, <3>2 DEF Contains
    <3>5. ASSUME NEW i \in 1..Len(t), NEW j \in 1..Len(t), t[i] = t[j] PROVE i = j
      <4>1. CASE i \in 1..Len(s) /\ j \in 1..Len(s)
        BY <4>1, <3>5, <3>2, <1>5 DEF Once
      <4>2. CASE i \in 1..Len(s) /\ j = Len(s) + 1
        BY <4>2, <3>5, <3>2, <3>4
      <4>3. CASE i = Len(s) + 1 /\ j \in 1..Len(s)
        BY <4>3, <3>5, <3>2, <3>4
      <4> QED BY <4>1, <4>2, <4>3, <3>3
    <3>6. Once(t)
      BY <3>2, <3>5 DEF Once
    <3>7. ASSUME NEW o \in PagePaths, NEW k \in Kinds
          PROVE  InForce(t, o, k) <=> InForce(s, o, k) \/ (o = q /\ k = kind)
      <4>1. PICK x : x = [page |-> o, rel |-> k]
        OBVIOUS
      <4>2. x = e <=> o = q /\ k = kind
        BY <4>1, <1>2
      <4>3. \A i \in 1..Len(s) : i \in 1..Len(t)
        BY <3>2, <1>5
      <4>4. Len(s) + 1 \in 1..Len(t)
        BY <3>2, <1>5
      <4>5. (\E i \in 1..Len(t) : t[i] = x) <=> (\E i \in 1..Len(s) : s[i] = x) \/ x = e
        BY <3>2, <3>3, <4>3, <4>4
      <4> QED BY <4>1, <4>2, <4>5 DEF InForce
    <3> QED BY <3>6, <3>7
  <2> QED BY <2>1, <2>2
<1>8. related' \subseteq PagePaths \X PagePaths \X Kinds
  BY <1>4 DEF BundleInv, RelationsListed
<1>9. ASSUME NEW o \in PagePaths, NEW k \in Kinds PROVE <<p, o, k>> \in related' <=> InForce(t, o, k)
  <2>1. <<p, o, k>> = <<p, q, kind>> <=> o = q /\ k = kind
    OBVIOUS
  <2> QED BY <2>1, <1>4, <1>6, <1>7
<1>10. ASSUME NEW r \in PagePaths \ {p}, NEW o \in PagePaths, NEW k \in Kinds
       PROVE  <<r, o, k>> \in related' <=> <<r, o, k>> \in related
  <2>1. <<r, o, k>> # <<p, q, kind>>
    OBVIOUS
  <2> QED BY <2>1, <1>4
<1> QED BY <1>4, <1>7, <1>8, <1>9, <1>10, RelationsChanged

LEMMA RemoveRelationKeeps ==
  ASSUME BundleInv, NEW p \in PagePaths, NEW q \in PagePaths, remove_relation(p, q)
  PROVE  BundleInv'
<1>1. PICK s : s = The(p).relates_to
  OBVIOUS
<1>2. PICK t : t = retained(s, q)
  OBVIOUS
<1>3. /\ pages[p] # {} /\ pages' = [pages EXCEPT ![p] = {[The(p) EXCEPT !.relates_to = t]}]
      /\ meant' = meant /\ related' = related \ ({p} \X {q} \X Kinds)
  BY <1>1, <1>2 DEF remove_relation, Written
<1>4. Once(s) /\ s \in Seq(Relation) /\ Len(s) \in Nat
  BY <1>1, <1>3, ThePage, LenProperties DEF BundleInv, IsPage, Once
<1>5. \A o \in PagePaths, k \in Kinds : <<p, o, k>> \in related <=> InForce(s, o, k)
  BY <1>1, <1>3 DEF BundleInv, RelationsListed
<1>6. KeptOf(s, q, Len(s), Relation, t)
  BY <1>2, <1>4, RetainedFacts DEF Once
<1>7. Once(t)
  BY <1>6 DEF KeptOf, Once
<1>8. ASSUME NEW o \in PagePaths, NEW k \in Kinds PROVE InForce(t, o, k) <=> InForce(s, o, k) /\ o # q
  <2>0. PICK x : x = [page |-> o, rel |-> k]
    OBVIOUS
  <2>1. x = [page |-> o, rel |-> k] /\ x.page = o
    BY <2>0
  <2>2. ASSUME NEW i \in 1..Len(t), t[i] = x PROVE (\E m \in 1..Len(s) : s[m] = x) /\ o # q
    <3>1. PICK m \in 1..Len(s) : t[i] = s[m] /\ s[m].page # q
      BY <1>6 DEF KeptOf
    <3>2. s[m] = x /\ x.page # q
      BY <3>1, <2>2
    <3> QED BY <3>2, <2>1
  <2>3. ASSUME NEW m \in 1..Len(s), s[m] = x, o # q PROVE \E i \in 1..Len(t) : t[i] = x
    BY <2>1, <2>3, <1>6 DEF KeptOf
  <2> QED BY <2>1, <2>2, <2>3 DEF InForce
<1>9. related' \subseteq PagePaths \X PagePaths \X Kinds
  BY <1>3 DEF BundleInv, RelationsListed
<1>10. ASSUME NEW o \in PagePaths, NEW k \in Kinds PROVE <<p, o, k>> \in related' <=> InForce(t, o, k)
  <2>1. <<p, o, k>> \in {p} \X {q} \X Kinds <=> o = q
    OBVIOUS
  <2> QED BY <2>1, <1>3, <1>5, <1>8
<1>11. ASSUME NEW r \in PagePaths \ {p}, NEW o \in PagePaths, NEW k \in Kinds
       PROVE  <<r, o, k>> \in related' <=> <<r, o, k>> \in related
  <2>1. <<r, o, k>> \notin {p} \X {q} \X Kinds
    OBVIOUS
  <2> QED BY <2>1, <1>3
<1> QED BY <1>3, <1>7, <1>9, <1>10, <1>11, RelationsChanged

LEMMA RestKeeps ==
  ASSUME BundleInv, UNCHANGED <<pages, meant, related>>
  PROVE  BundleInv'
<1>1. \A p : (The(p))' = The(p)
  BY DEF The
<1>2. PagesThere'
  BY DEF BundleInv, PagesThere
<1>3. LinksMeant'
  BY <1>1 DEF BundleInv, LinksMeant
<1>4. RelationsListed'
  BY <1>1 DEF BundleInv, RelationsListed, InForce
<1> QED BY <1>2, <1>3, <1>4 DEF BundleInv

(* The invariant of a wiki's pages, through whatever its authors and the
   program write. *)
THEOREM BundleInvariant == BundleSpec => []BundleInv
<1>1. BundleInv /\ [BundleNext]_bundleVars => BundleInv'
  <2> SUFFICES ASSUME BundleInv, [BundleNext]_bundleVars PROVE BundleInv'
    OBVIOUS
  <2>1. ASSUME NEW p \in PagePaths, NEW tos \in SUBSET PagePaths, NEW form \in {"md", "wiki"}, NEW words \in Contents,
               WritePage(p, tos, form, words)
        PROVE  BundleInv'
    BY <2>1, WritePageKeeps
  <2>2. ASSUME NEW p \in PagePaths, Tear(p) PROVE BundleInv'
    BY <2>2, TearKeeps
  <2>3. ASSUME NEW p \in PagePaths, ListInIndex(p) PROVE BundleInv'
    BY <2>3, RestKeeps DEF ListInIndex
  <2>4. ASSUME NEW p \in PagePaths, NEW q \in PagePaths, remove_relation(p, q) PROVE BundleInv'
    BY <2>4, RemoveRelationKeeps
  <2>5. ASSUME NEW p \in PagePaths, NEW q \in PagePaths, NEW kind \in Kinds, add_relation(p, q, kind) PROVE BundleInv'
    BY <2>5, AddRelationKeeps
  <2>6. CASE UNCHANGED bundleVars
    BY <2>6, RestKeeps DEF bundleVars
  <2> QED BY <2>1, <2>2, <2>3, <2>4, <2>5, <2>6 DEF BundleNext
<1> QED BY <1>1, BundleStart, PTL DEF BundleSpec

(* Relations are in force once, until they are removed, and the contradictions
   reported for workflows are all that touch one (links.rs:74). *)
LEMMA InForceOnce ==
  ASSUME BundleInv
  PROVE  RelationsAreInForceOnce
<1>1. ASSUME NEW p \in Written PROVE p \in PagePaths /\ pages[p] # {} /\ get_relations(p) = The(p).relates_to /\ Once(get_relations(p))
  BY <1>1, ThePage DEF Written, get_relations, BundleInv, IsPage
<1>2. ASSUME NEW p \in Written PROVE IsInjective(get_relations(p))
  <2>1. PICK s \in Seq(Relation) : s = get_relations(p) /\ Once(s) /\ DOMAIN s = 1..Len(s)
    BY <1>1, LenProperties DEF Once
  <2> QED BY <2>1 DEF IsInjective, Once
<1>3. ASSUME NEW p \in Written, NEW q \in PagePaths, NEW kind \in Kinds
      PROVE  q \in RelationsOf(p, kind) <=> <<p, q, kind>> \in related
  <2>1. PICK s \in Seq(Relation) : s = get_relations(p) /\ DOMAIN s = 1..Len(s)
    BY <1>1, LenProperties DEF Once
  <2>2. q \in RelationsOf(p, kind) <=> \E i \in 1..Len(s) : s[i].page = q /\ s[i].rel = kind
    BY <2>1 DEF RelationsOf, Range
  <2>3. \A i \in 1..Len(s) : s[i] \in Relation
    OBVIOUS
  <2>4. \A x \in Relation : x.page = q /\ x.rel = kind <=> x = [page |-> q, rel |-> kind]
    BY DEF Relation
  <2>5. q \in RelationsOf(p, kind) <=> InForce(s, q, kind)
    BY <2>2, <2>3, <2>4 DEF InForce
  <2> QED BY <2>1, <2>5, <1>1 DEF BundleInv, RelationsListed
<1>4. ASSUME NEW p \in PagePaths, NEW q \in PagePaths, NEW kind \in Kinds, <<p, q, kind>> \in related
      PROVE  p \in Written
  BY <1>4 DEF BundleInv, RelationsListed, Written
<1>5. Written \subseteq PagePaths
  BY DEF Written
<1>6. ASSUME NEW kind \in Kinds
      PROVE  {pq \in Written \X PagePaths : pq[2] \in RelationsOf(pq[1], kind)}
               = {pq \in PagePaths \X PagePaths : <<pq[1], pq[2], kind>> \in related}
  BY <1>3, <1>4, <1>5
<1>7. "contradicts" \in Kinds
  BY DEF Kinds
<1>8. find_contradictions = {pq \in PagePaths \X PagePaths : <<pq[1], pq[2], "contradicts">> \in related}
  BY <1>6, <1>7 DEF find_contradictions
<1>9. \A p, q : {p, q} \cap Written \cap WorkflowPaths # {} <=> IsWorkflow(p) \/ IsWorkflow(q)
  BY DEF IsWorkflow
<1>10. find_contradictions_in_bundle =
         {pq \in PagePaths \X PagePaths : <<pq[1], pq[2], "contradicts">> \in related /\ {pq[1], pq[2]} \cap Written \cap WorkflowPaths # {}}
  BY <1>8, <1>9 DEF find_contradictions_in_bundle
<1> QED BY <1>2, <1>6, <1>10 DEF RelationsAreInForceOnce

(* A relation that was added is in its page's block once until it is removed
   (links.rs, add_relation and remove_relation), through any rewriting of any
   page, and the contradictions reported for workflows are those that touch
   one. *)
THEOREM RelationsHoldOnce == BundleSpec => []RelationsAreInForceOnce
BY BundleInvariant, InForceOnce, PTL
-----------------------------------------------------------------------------
(* Links.  What two or more sequences after another hold. *)
Joined(w, a, b) == w = a \o b
JoinedParts(w, a, b) ==
  /\ Len(w) = Len(a) + Len(b)
  /\ \A i \in 1..Len(a) : w[i] = a[i]
  /\ \A i \in 1..Len(b) : w[Len(a) + i] = b[i]

LEMMA TwoParts ==
  ASSUME NEW T, NEW a \in Seq(T), NEW b \in Seq(T), NEW w, Joined(w, a, b)
  PROVE  w \in Seq(T) /\ JoinedParts(w, a, b)
<1>1. PICK m \in Nat, n \in Nat : m = Len(a) /\ n = Len(b)
  BY LenProperties
<1>2. /\ w \in Seq(T) /\ Len(w) = m + n
      /\ \A i \in 1..(m + n) : w[i] = IF i <= m THEN a[i] ELSE b[i - m]
  BY <1>1, ConcatProperties DEF Joined
<1>3. ASSUME NEW i \in 1..m PROVE w[i] = a[i]
  BY <1>2
<1>4. ASSUME NEW i \in 1..n PROVE w[m + i] = b[i]
  <2>1. m + i \in 1..(m + n) /\ ~(m + i <= m) /\ (m + i) - m = i
    OBVIOUS
  <2>2. w[m + i] = b[(m + i) - m]
    BY <1>2, <2>1
  <2> QED BY <2>1, <2>2
<1> QED BY <1>1, <1>2, <1>3, <1>4 DEF JoinedParts

FourPartsAre(w, a, b, c, e, k, l, m, n) ==
  /\ \A i \in 1..k : w[i] = a[i]
  /\ \A i \in 1..l : w[k + i] = b[i]
  /\ \A i \in 1..m : w[k + l + i] = c[i]
  /\ \A i \in 1..n : w[k + l + m + i] = e[i]

LEMMA FourParts ==
  ASSUME NEW T, NEW a \in Seq(T), NEW b \in Seq(T), NEW c \in Seq(T), NEW e \in Seq(T),
         NEW y, Joined(y, c, e), NEW x, Joined(x, b, y), NEW w, Joined(w, a, x)
  PROVE  /\ w \in Seq(T) /\ Len(w) = Len(a) + Len(b) + Len(c) + Len(e)
         /\ FourPartsAre(w, a, b, c, e, Len(a), Len(b), Len(c), Len(e))
<1>0. PICK k \in Nat, l \in Nat, m \in Nat, n \in Nat : k = Len(a) /\ l = Len(b) /\ m = Len(c) /\ n = Len(e)
  BY LenProperties
<1>1. y \in Seq(T) /\ JoinedParts(y, c, e)
  BY TwoParts
<1>2. x \in Seq(T) /\ JoinedParts(x, b, y)
  BY <1>1, TwoParts
<1>3. w \in Seq(T) /\ JoinedParts(w, a, x)
  BY <1>2, TwoParts
<1>4. Len(y) = m + n /\ (\A i \in 1..m : y[i] = c[i]) /\ (\A i \in 1..n : y[m + i] = e[i])
  BY <1>0, <1>1 DEF JoinedParts
<1>5. Len(x) = l + (m + n) /\ (\A i \in 1..l : x[i] = b[i]) /\ (\A i \in 1..(m + n) : x[l + i] = y[i])
  BY <1>0, <1>2, <1>4 DEF JoinedParts
<1>6. w \in Seq(T) /\ Len(w) = k + (l + (m + n)) /\ (\A i \in 1..k : w[i] = a[i]) /\ (\A i \in 1..(l + (m + n)) : w[k + i] = x[i])
  BY <1>0, <1>3, <1>5 DEF JoinedParts
<1>7. ASSUME NEW i \in 1..l PROVE w[k + i] = b[i]
  <2>1. i \in 1..(l + (m + n))
    OBVIOUS
  <2>2. w[k + i] = x[i] /\ x[i] = b[i]
    BY <2>1, <1>5, <1>6
  <2> QED BY <2>2
<1>8. ASSUME NEW i \in 1..m PROVE w[k + l + i] = c[i]
  <2>1. i \in 1..(m + n) /\ l + i \in 1..(l + (m + n)) /\ k + l + i = k + (l + i)
    OBVIOUS
  <2>2. w[k + (l + i)] = x[l + i] /\ x[l + i] = y[i] /\ y[i] = c[i]
    BY <2>1, <1>4, <1>5, <1>6
  <2> QED BY <2>1, <2>2
<1>9. ASSUME NEW i \in 1..n PROVE w[k + l + m + i] = e[i]
  <2>1. m + i \in 1..(m + n) /\ l + (m + i) \in 1..(l + (m + n)) /\ k + l + m + i = k + (l + (m + i))
    OBVIOUS
  <2>2. w[k + (l + (m + i))] = x[l + (m + i)] /\ x[l + (m + i)] = y[m + i] /\ y[m + i] = e[i]
    BY <2>1, <1>4, <1>5, <1>6
  <2> QED BY <2>1, <2>2
<1> QED BY <1>0, <1>6, <1>7, <1>8, <1>9 DEF FourPartsAre

(* How components are walked (normalize_rel), and what is reached after each. *)
Name == STRING \cup {".", ".."}
Walked(out, c) ==
  CASE c = "." -> out
    [] c = ".." -> IF out = <<>> THEN <<>> ELSE Front(out)
    [] OTHER -> Append(out, c)
Walk(w, f) == \A i \in 0..Len(w) : f[i] = IF i = 0 THEN <<>> ELSE Walked(f[i - 1], w[i])

LEMMA WalkedType ==
  ASSUME NEW out \in Seq(Name), NEW c \in Name
  PROVE  Walked(out, c) \in Seq(Name)
<1>1. Append(out, c) \in Seq(Name) /\ <<>> \in Seq(Name)
  BY AppendProperties, EmptySeq
<1>2. Front(out) \in Seq(Name)
  <2>1. Len(out) \in Nat
    BY LenProperties
  <2>2. \A i \in 1..(Len(out) - 1) : out[i] \in Name
    BY <2>1, ElementOfSeq
  <2>3. 1 \in Int /\ Len(out) - 1 \in Int
    BY <2>1
  <2> QED BY <2>2, <2>3, SubSeqProperties DEF Front
<1> QED BY <1>1, <1>2 DEF Walked

LEMMA WalkIs ==
  ASSUME NEW w \in Seq(Name)
  PROVE  \E f : Walk(w, f) /\ normalize_rel(w) = f[Len(w)]
<1> DEFINE value(f, n) == IF n = 0 THEN <<>> ELSE Walked(f[n - 1], w[n])
           step == [n \in 0..Len(w) |-> [out \in Seq(Name) |-> IF n = 0 THEN out ELSE Walked(out, w[n])]]
           it == CHOOSE f : f = [n \in 0..Len(w) |-> value(f, n)]
<1>1. Len(w) \in Nat /\ 0 <= Len(w) /\ <<>> \in Seq(Name)
  BY LenProperties, EmptySeq
<1>2. \A n \in 0..Len(w) : n # 0 => w[n] \in Name
  BY <1>1, ElementOfSeq
<1>3. step \in [0..Len(w) -> [Seq(Name) -> Seq(Name)]]
  BY <1>2, WalkedType
<1>4. PICK g \in [0..Len(w) -> Seq(Name)] : Computed(g, 0, Len(w), <<>>, step)
  <2> HIDE DEF step
  <2> QED BY <1>1, <1>3, Recursion
<1>5. ASSUME NEW n \in 0..Len(w) PROVE g[n] = value(g, n)
  <2>1. n # 0 => n - 1 \in 0..Len(w)
    BY <1>1
  <2>2. n # 0 => g[n - 1] \in Seq(Name)
    BY <2>1
  <2> QED BY <1>4, <2>2 DEF Computed
<1>6. g = [n \in 0..Len(w) |-> value(g, n)]
  BY <1>5
<1>7. it = [n \in 0..Len(w) |-> value(it, n)]
  <2>1. \E f : f = [n \in 0..Len(w) |-> value(f, n)]
    BY <1>6
  <2> QED BY <2>1
<1>8. normalize_rel(w) = it[Len(w)]
  BY DEF normalize_rel, Walked
<1> HIDE DEF it, step
<1>9. Walk(w, it)
  BY <1>7 DEF Walk
<1> QED BY <1>8, <1>9

(* The beginning of a path, one name longer and one name shorter. *)
LEMMA Longer ==
  ASSUME NEW T, NEW s \in Seq(T), NEW b \in Nat, b + 1 <= Len(s)
  PROVE  Append(SubSeq(s, 1, b), s[b + 1]) = SubSeq(s, 1, b + 1)
<1>1. Len(s) \in Nat /\ b + 1 \in 1..Len(s) /\ 1 \in 1..Len(s) /\ (b + 1) - 1 = b
  BY LenProperties
<1>2. SubSeq(s, 1, b + 1) = SubSeq(s, 1, (b + 1) - 1) \o <<s[b + 1]>>
  BY <1>1, SubSeqRecursiveSecond
<1>3. s[b + 1] \in T /\ \A i \in 1..b : s[i] \in T
  BY <1>1, ElementOfSeq
<1>4. SubSeq(s, 1, b) \in Seq(T)
  BY <1>3, SubSeqProperties
<1>5. Append(SubSeq(s, 1, b), s[b + 1]) = SubSeq(s, 1, b) \o <<s[b + 1]>>
  BY <1>3, <1>4, AppendIsConcat
<1> QED BY <1>1, <1>2, <1>5

LEMMA Shorter ==
  ASSUME NEW T, NEW s \in Seq(T), NEW b \in Nat, b <= Len(s), b # 0
  PROVE  SubSeq(s, 1, b) # <<>> /\ Front(SubSeq(s, 1, b)) = SubSeq(s, 1, b - 1)
<1>1. Len(s) \in Nat /\ b \in 1..Len(s) /\ 1 \in 1..Len(s) /\ \A i \in 1..b : s[i] \in T
  BY LenProperties, ElementOfSeq
<1>2. PICK u \in Seq(T) : u = SubSeq(s, 1, b) /\ Len(u) = b /\ \A i \in 1..b : u[i] = s[i]
  <2>1. /\ SubSeq(s, 1, b) \in Seq(T) /\ Len(SubSeq(s, 1, b)) = IF 1 <= b THEN b - 1 + 1 ELSE 0
        /\ \A i \in 1..(b - 1 + 1) : SubSeq(s, 1, b)[i] = s[1 + i - 1]
    BY <1>1, SubSeqProperties
  <2>2. \A i \in 1..b : i \in 1..(b - 1 + 1) /\ 1 + i - 1 = i
    OBVIOUS
  <2>3. \A i \in 1..b : SubSeq(s, 1, b)[i] = s[i]
    BY <2>1, <2>2
  <2>4. Len(SubSeq(s, 1, b)) = b
    BY <2>1
  <2> QED BY <2>1, <2>3, <2>4
<1>3. PICK v \in Seq(T) : v = SubSeq(s, 1, b - 1) /\ Len(v) = b - 1 /\ \A i \in 1..(b - 1) : v[i] = s[i]
  <2>0. b - 1 \in Nat /\ \A i \in 1..(b - 1) : s[i] \in T
    BY <1>1
  <2>1. /\ SubSeq(s, 1, b - 1) \in Seq(T) /\ Len(SubSeq(s, 1, b - 1)) = IF 1 <= b - 1 THEN (b - 1) - 1 + 1 ELSE 0
        /\ \A i \in 1..((b - 1) - 1 + 1) : SubSeq(s, 1, b - 1)[i] = s[1 + i - 1]
    BY <2>0, SubSeqProperties
  <2>2. \A i \in 1..(b - 1) : i \in 1..((b - 1) - 1 + 1) /\ 1 + i - 1 = i
    OBVIOUS
  <2>3. \A i \in 1..(b - 1) : SubSeq(s, 1, b - 1)[i] = s[i]
    BY <2>1, <2>2
  <2>4. Len(SubSeq(s, 1, b - 1)) = b - 1
    BY <2>0, <2>1
  <2> QED BY <2>1, <2>3, <2>4
<1>4. PICK x \in Seq(T) : x = SubSeq(u, 1, b - 1) /\ Len(x) = b - 1 /\ \A i \in 1..(b - 1) : x[i] = u[i]
  <2>0. b - 1 \in Nat /\ \A i \in 1..(b - 1) : u[i] \in T
    BY <1>1, <1>2
  <2>1. /\ SubSeq(u, 1, b - 1) \in Seq(T) /\ Len(SubSeq(u, 1, b - 1)) = IF 1 <= b - 1 THEN (b - 1) - 1 + 1 ELSE 0
        /\ \A i \in 1..((b - 1) - 1 + 1) : SubSeq(u, 1, b - 1)[i] = u[1 + i - 1]
    BY <2>0, SubSeqProperties
  <2>2. \A i \in 1..(b - 1) : i \in 1..((b - 1) - 1 + 1) /\ 1 + i - 1 = i
    OBVIOUS
  <2>3. \A i \in 1..(b - 1) : SubSeq(u, 1, b - 1)[i] = u[i]
    BY <2>1, <2>2
  <2>4. Len(SubSeq(u, 1, b - 1)) = b - 1
    BY <2>0, <2>1
  <2> QED BY <2>1, <2>3, <2>4
<1>5. \A i \in 1..(b - 1) : i \in 1..b
  OBVIOUS
<1>6. \A i \in 1..(b - 1) : x[i] = v[i]
  BY <1>2, <1>3, <1>4, <1>5
<1>7. x = v
  BY <1>3, <1>4, <1>6, SeqEqual
<1>8. Front(u) = x
  BY <1>2, <1>4 DEF Front
<1>9. u # <<>>
  <2>1. Len(<<>>) = 0
    OBVIOUS
  <2> QED BY <2>1, <1>2
<1> QED BY <1>2, <1>3, <1>7, <1>8, <1>9

(* Names go down, dots stay, two dots go up. *)
GoesDown(w, m, s, a, v) == \A j \in 1..v : w[m + j] = s[a + j] /\ s[a + j] \notin {".", ".."}
GoesUp(w, m, u) == \A j \in 1..u : w[m + j] = ".."
Stays(w, m, d) == \A j \in 1..d : w[m + j] = "."

Reached(f, m, s, a) == f[m] = SubSeq(s, 1, a)
DownTo(x, w, m, v, b, s, a) ==
  /\ m \in Nat /\ a \in Nat /\ v \in Nat /\ x \in Nat /\ b \in Nat
  /\ x = m + v /\ b = a + v /\ x <= Len(w) /\ b <= Len(s)
UpFrom(x, w, m, u, b, s, a) ==
  /\ m \in Nat /\ a \in Nat /\ u \in Nat /\ x \in Nat /\ b \in Nat
  /\ x = m + u /\ b = a - u /\ x <= Len(w) /\ a <= Len(s)
StayFrom(x, w, m, d) == m \in Nat /\ d \in {0, 1} /\ x = m + d /\ x <= Len(w)

LEMMA WalkDown ==
  ASSUME NEW w \in Seq(Name), NEW f, Walk(w, f), NEW s \in Seq(Name), NEW m, NEW a, NEW v, NEW x, NEW b,
         DownTo(x, w, m, v, b, s, a), GoesDown(w, m, s, a, v), Reached(f, m, s, a)
  PROVE  Reached(f, x, s, b)
<1>0. /\ m \in Nat /\ a \in Nat /\ v \in Nat /\ x \in Nat /\ b \in Nat
      /\ x = m + v /\ b = a + v /\ x <= Len(w) /\ b <= Len(s) /\ f[m] = SubSeq(s, 1, a)
  BY DEF DownTo, Reached
<1> DEFINE S == {j \in 0..v : f[m + j] = SubSeq(s, 1, a + j)}
<1>1. 0 \in S
  BY <1>0, m + 0 = m, a + 0 = a
<1>2. ASSUME NEW j \in 0..v, j # v, j \in S PROVE j + 1 \in S
  <2>1. j + 1 \in 1..v /\ j + 1 \in 0..v /\ a + j \in Nat /\ (a + j) + 1 = a + (j + 1) /\ (a + j) + 1 <= Len(s)
    BY <1>0, <1>2, LenProperties
  <2>2. m + (j + 1) \in 0..Len(w) /\ m + (j + 1) # 0 /\ (m + (j + 1)) - 1 = m + j
    BY <1>0, <2>1, LenProperties
  <2>3. f[m + (j + 1)] = Walked(f[m + j], w[m + (j + 1)])
    BY <2>2 DEF Walk
  <2>4. w[m + (j + 1)] = s[a + (j + 1)] /\ s[a + (j + 1)] \notin {".", ".."}
    BY <2>1 DEF GoesDown
  <2>5. f[m + (j + 1)] = Append(f[m + j], s[a + (j + 1)])
    BY <2>3, <2>4 DEF Walked
  <2>6. f[m + j] = SubSeq(s, 1, a + j)
    BY <1>2
  <2>7. Append(SubSeq(s, 1, a + j), s[(a + j) + 1]) = SubSeq(s, 1, (a + j) + 1)
    BY <2>1, Longer
  <2> QED BY <2>1, <2>5, <2>6, <2>7
<1> HIDE DEF S
<1>3. 0..v \subseteq S
  BY <1>0, 0 \in Nat, <1>1, <1>2, UpTo
<1>4. v \in S
  BY <1>0, <1>3
<1>5. f[m + v] = SubSeq(s, 1, a + v)
  BY <1>4 DEF S
<1> QED BY <1>0, <1>5 DEF Reached

LEMMA WalkUp ==
  ASSUME NEW w \in Seq(Name), NEW f, Walk(w, f), NEW s \in Seq(Name), NEW m, NEW a, NEW u, NEW x, NEW b,
         UpFrom(x, w, m, u, b, s, a), GoesUp(w, m, u), Reached(f, m, s, a)
  PROVE  Reached(f, x, s, b)
<1>0. /\ m \in Nat /\ a \in Nat /\ u \in Nat /\ x \in Nat /\ b \in Nat
      /\ x = m + u /\ b = a - u /\ x <= Len(w) /\ a <= Len(s) /\ u <= a /\ f[m] = SubSeq(s, 1, a)
  BY DEF UpFrom, Reached
<1> DEFINE S == {j \in 0..u : f[m + j] = SubSeq(s, 1, a - j)}
<1>1. 0 \in S
  BY <1>0, m + 0 = m, a - 0 = a
<1>2. ASSUME NEW j \in 0..u, j # u, j \in S PROVE j + 1 \in S
  <2>1. j + 1 \in 1..u /\ j + 1 \in 0..u /\ a - j \in Nat /\ a - j # 0 /\ (a - j) - 1 = a - (j + 1) /\ a - j <= Len(s)
    BY <1>0, <1>2, LenProperties
  <2>2. m + (j + 1) \in 0..Len(w) /\ m + (j + 1) # 0 /\ (m + (j + 1)) - 1 = m + j
    BY <1>0, <2>1, LenProperties
  <2>3. f[m + (j + 1)] = Walked(f[m + j], w[m + (j + 1)])
    BY <2>2 DEF Walk
  <2>4. w[m + (j + 1)] = ".."
    BY <2>1 DEF GoesUp
  <2>5. f[m + (j + 1)] = IF f[m + j] = <<>> THEN <<>> ELSE Front(f[m + j])
    BY <2>3, <2>4 DEF Walked
  <2>6. f[m + j] = SubSeq(s, 1, a - j)
    BY <1>2
  <2>7. SubSeq(s, 1, a - j) # <<>> /\ Front(SubSeq(s, 1, a - j)) = SubSeq(s, 1, (a - j) - 1)
    BY <2>1, Shorter
  <2> QED BY <2>1, <2>5, <2>6, <2>7
<1> HIDE DEF S
<1>3. 0..u \subseteq S
  BY <1>0, <1>1, <1>2, UpTo
<1>4. u \in S
  BY <1>0, <1>3
<1>5. f[m + u] = SubSeq(s, 1, a - u)
  BY <1>4 DEF S
<1> QED BY <1>0, <1>5 DEF Reached

LEMMA WalkDots ==
  ASSUME NEW w \in Seq(Name), NEW f, Walk(w, f), NEW s, NEW m, NEW a, NEW d, NEW x,
         StayFrom(x, w, m, d), Stays(w, m, d), Reached(f, m, s, a)
  PROVE  Reached(f, x, s, a)
<1>0. m \in Nat /\ d \in {0, 1} /\ x = m + d /\ x <= Len(w) /\ f[m] = SubSeq(s, 1, a)
  BY DEF StayFrom, Reached
<1>1. CASE d = 0
  BY <1>0, <1>1, m + 0 = m DEF Reached
<1>2. CASE d = 1
  <2>1. m + 1 \in 0..Len(w) /\ m + 1 # 0 /\ (m + 1) - 1 = m
    BY <1>0, <1>2, LenProperties
  <2>2. f[m + 1] = Walked(f[m], w[m + 1])
    BY <2>1 DEF Walk
  <2>3. w[m + 1] = "."
    BY <1>2 DEF Stays
  <2> QED BY <1>0, <1>2, <2>2, <2>3 DEF Walked, Reached
<1> QED BY <1>0, <1>1, <1>2

LEMMA GreatestExists ==
  ASSUME NEW n \in Nat, NEW S \in SUBSET (0..n), S # {}
  PROVE  Max(S) \in S
<1> DEFINE R == {j \in 0..n : n - j \in S}
<1>1. R \in SUBSET Nat /\ R # {}
  <2>1. PICK i \in S : i \in 0..n
    OBVIOUS
  <2>2. n - i \in 0..n /\ n - (n - i) = i
    BY <2>1
  <2>3. n - i \in R /\ R \in SUBSET Nat
    BY <2>1, <2>2
  <2> HIDE DEF R
  <2> QED BY <2>3
<1>2. PICK k \in R : \A j \in R : k <= j
  <2> HIDE DEF R
  <2> QED BY <1>1, Smallest
<1>3. n - k \in S /\ k \in 0..n
  OBVIOUS
<1>4. ASSUME NEW y \in S PROVE n - k >= y
  <2>1. y \in 0..n /\ n - y \in 0..n /\ n - (n - y) = y
    OBVIOUS
  <2>2. k <= n - y
    BY <1>2, <2>1
  <2> QED BY <1>3, <2>1, <2>2
<1>5. \E x \in S : \A y \in S : x >= y
  BY <1>3, <1>4
<1> QED BY <1>5 DEF Max

LEMMA PathFacts ==
  ASSUME NEW p \in PagePaths
  PROVE  /\ p \in Seq(Name) /\ Len(p) \in Nat \ {0}
         /\ \A i \in 1..Len(p) : p[i] \in Name /\ p[i] \notin {".", ".."}
<1>1. p \in Seq(STRING) /\ p # <<>> /\ \A i \in DOMAIN p : p[i] \notin {".", ".."}
  BY ListingAssumption
<1>2. p \in Seq(Name)
  <2>1. STRING \subseteq Name
    BY DEF Name
  <2> QED BY <1>1, <2>1, SeqMonotonic
<1>3. DOMAIN p = 1..Len(p) /\ Len(p) \in Nat /\ Len(p) # 0
  BY <1>1, LenProperties, EmptySeq
<1> QED BY <1>1, <1>2, <1>3, ElementOfSeq

(* What two paths share, and how the second is written from the first. *)
LEMMA RelativeIs ==
  ASSUME NEW from \in PagePaths, NEW to \in PagePaths
  PROVE  \E shared \in Nat :
           /\ shared <= Len(from) - 1 /\ shared < Len(to) /\ SubSeq(from, 1, shared) = SubSeq(to, 1, shared)
           /\ relative(from, to) = [i \in 1..(Len(from) - 1 - shared) |-> ".."] \o SubSeq(to, shared + 1, Len(to))
<1>1. PICK n \in Nat : n = Len(from) - 1
  <2>1. Len(from) - 1 \in Nat
    BY PathFacts
  <2> QED BY <2>1
<1>2. common(from, to) \in SUBSET (0..n)
  BY <1>1 DEF common
<1>3. 0 \in common(from, to)
  <2>1. SubSeq(from, 1, 0) = <<>> /\ SubSeq(to, 1, 0) = <<>>
    BY SubSeqEmpty
  <2>2. 0 \in 0..n /\ 0 < Len(to)
    BY <1>1, PathFacts
  <2> QED BY <1>1, <2>1, <2>2 DEF common
<1>4. PICK shared : shared = Max(common(from, to))
  OBVIOUS
<1>5. shared \in common(from, to)
  BY <1>1, <1>2, <1>3, <1>4, GreatestExists
<1>6. shared \in Nat /\ shared <= n /\ shared < Len(to) /\ SubSeq(from, 1, shared) = SubSeq(to, 1, shared)
  BY <1>1, <1>5 DEF common
<1>7. relative(from, to) = [i \in 1..(Len(from) - 1 - shared) |-> ".."] \o SubSeq(to, shared + 1, Len(to))
  BY <1>4 DEF relative
<1> QED BY <1>1, <1>6, <1>7

(* A link leads, from the directory of its page, to the page it was written for. *)
LEMMA LinksResolve ==
  ASSUME NEW from \in PagePaths, NEW to \in PagePaths, NEW dot \in Seq(Name), Len(dot) \in {0, 1},
         \A i \in 1..Len(dot) : dot[i] = "."
  PROVE  resolve_relative(from, dot \o relative(from, to)) = to
<1>1. PICK n \in Nat : n = Len(from) - 1 /\ Len(from) = n + 1
  <2>1. Len(from) - 1 \in Nat /\ Len(from) = (Len(from) - 1) + 1
    BY PathFacts
  <2> QED BY <2>1
<1>2. PICK shared \in Nat :
        /\ shared <= Len(from) - 1 /\ shared < Len(to) /\ SubSeq(from, 1, shared) = SubSeq(to, 1, shared)
        /\ relative(from, to) = [i \in 1..(Len(from) - 1 - shared) |-> ".."] \o SubSeq(to, shared + 1, Len(to))
  BY RelativeIs
<1>3. PICK d \in {0, 1} : d = Len(dot)
  OBVIOUS
<1>4. PICK u \in Nat : u = n - shared
  <2>1. n - shared \in Nat
    BY <1>1, <1>2
  <2> QED BY <2>1
<1>5. PICK v \in Nat : v = Len(to) - shared /\ shared + v = Len(to)
  <2>1. Len(to) \in Nat
    BY PathFacts
  <2>2. Len(to) - shared \in Nat /\ shared + (Len(to) - shared) = Len(to)
    BY <2>1, <1>2
  <2> QED BY <2>2
<1>6. from \in Seq(Name) /\ to \in Seq(Name)
  BY PathFacts
<1>7. PICK dir \in Seq(Name) : dir = Front(from) /\ Len(dir) = n /\ \A i \in 1..n : dir[i] = from[i]
  <2>0. Front(from) = SubSeq(from, 1, n)
    BY <1>1 DEF Front
  <2>1. \A i \in 1..n : from[i] \in Name
    BY <1>1, PathFacts
  <2>2. /\ SubSeq(from, 1, n) \in Seq(Name) /\ Len(SubSeq(from, 1, n)) = IF 1 <= n THEN n - 1 + 1 ELSE 0
        /\ \A i \in 1..(n - 1 + 1) : SubSeq(from, 1, n)[i] = from[1 + i - 1]
    BY <2>1, SubSeqProperties
  <2>3. \A i \in 1..n : i \in 1..(n - 1 + 1) /\ 1 + i - 1 = i
    OBVIOUS
  <2>4. \A i \in 1..n : SubSeq(from, 1, n)[i] = from[i]
    BY <2>2, <2>3
  <2>5. Len(SubSeq(from, 1, n)) = n
    BY <2>2
  <2> QED BY <2>0, <2>2, <2>4, <2>5
<1>8. PICK ups \in Seq(Name) : ups = [i \in 1..(Len(from) - 1 - shared) |-> ".."] /\ Len(ups) = u /\ \A i \in 1..u : ups[i] = ".."
  <2>1. ".." \in Name
    BY DEF Name
  <2>2. PICK up \in Name : up = ".."
    BY <2>1
  <2>3. [i \in 1..u |-> up] \in Seq(Name) /\ Len([i \in 1..u |-> up]) = u /\ \A i \in 1..u : [j \in 1..u |-> up][i] = up
    OBVIOUS
  <2>4. Len(from) - 1 - shared = u
    BY <1>1, <1>4
  <2> QED BY <2>2, <2>3, <2>4
<1>9. PICK tail \in Seq(Name) : tail = SubSeq(to, shared + 1, Len(to)) /\ Len(tail) = v /\ \A i \in 1..v : tail[i] = to[shared + i]
  <2>1. PICK n2 \in Nat : n2 = Len(to)
    BY PathFacts
  <2>2. \A i \in (shared + 1)..n2 : to[i] \in Name
    <3>1. \A i \in (shared + 1)..n2 : i \in 1..Len(to)
      BY <2>1
    <3> QED BY <3>1, PathFacts
  <2>3. /\ SubSeq(to, shared + 1, n2) \in Seq(Name)
        /\ Len(SubSeq(to, shared + 1, n2)) = IF shared + 1 <= n2 THEN n2 - (shared + 1) + 1 ELSE 0
        /\ \A i \in 1..(n2 - (shared + 1) + 1) : SubSeq(to, shared + 1, n2)[i] = to[shared + 1 + i - 1]
    BY <2>2, SubSeqProperties
  <2>4. v = n2 - (shared + 1) + 1 /\ shared + 1 <= n2
    BY <1>2, <1>5, <2>1
  <2>5. \A i \in 1..v : i \in 1..(n2 - (shared + 1) + 1) /\ shared + 1 + i - 1 = shared + i
    BY <2>4
  <2>6. \A i \in 1..v : SubSeq(to, shared + 1, n2)[i] = to[shared + i]
    BY <2>3, <2>5
  <2>7. Len(SubSeq(to, shared + 1, n2)) = v
    BY <2>3, <2>4
  <2> QED BY <2>1, <2>3, <2>6, <2>7
<1>a. PICK y : y = ups \o tail
  OBVIOUS
<1>b. PICK x : x = dot \o y
  OBVIOUS
<1>10. PICK w : w = dir \o x
  OBVIOUS
<1>c. Joined(y, ups, tail) /\ Joined(x, dot, y) /\ Joined(w, dir, x)
  BY <1>a, <1>b, <1>10 DEF Joined
<1>11. w \in Seq(Name) /\ Len(w) = n + d + u + v /\ FourPartsAre(w, dir, dot, ups, tail, n, d, u, v)
  <2>1. /\ w \in Seq(Name) /\ Len(w) = Len(dir) + Len(dot) + Len(ups) + Len(tail)
        /\ FourPartsAre(w, dir, dot, ups, tail, Len(dir), Len(dot), Len(ups), Len(tail))
    BY <1>c, FourParts
  <2>2. Len(dir) = n /\ Len(dot) = d /\ Len(ups) = u /\ Len(tail) = v
    BY <1>3, <1>7, <1>8, <1>9
  <2> QED BY <2>1, <2>2
<1>12. resolve_relative(from, dot \o relative(from, to)) = normalize_rel(w)
  BY <1>2, <1>7, <1>8, <1>9, <1>a, <1>b, <1>10 DEF resolve_relative
<1>13. PICK f : Walk(w, f) /\ normalize_rel(w) = f[Len(w)]
  BY <1>11, WalkIs
<1>14. Reached(f, 0, from, 0)
  <2>1. SubSeq(from, 1, 0) = <<>>
    BY SubSeqEmpty
  <2>2. 0 \in 0..Len(w)
    BY <1>11, LenProperties
  <2> QED BY <2>1, <2>2, <1>13 DEF Walk, Reached
<1>15. PICK x1 \in Nat, x2 \in Nat, x3 \in Nat : x1 = n + d /\ x2 = x1 + u /\ x3 = x2 + v /\ x3 = Len(w)
  <2>1. n + d \in Nat /\ (n + d) + u \in Nat /\ ((n + d) + u) + v \in Nat /\ ((n + d) + u) + v = Len(w)
    BY <1>11
  <2> QED BY <2>1
<1>16. n <= x1 /\ x1 <= x2 /\ x2 <= x3
  BY <1>15
<1>17. Reached(f, n, from, n)
  <2>1. GoesDown(w, 0, from, 0, n)
    <3> SUFFICES ASSUME NEW j \in 1..n PROVE w[0 + j] = from[0 + j] /\ from[0 + j] \notin {".", ".."}
      BY DEF GoesDown
    <3>1. 0 + j = j /\ j \in 1..Len(from)
      BY <1>1
    <3>2. w[j] = dir[j] /\ dir[j] = from[j]
      BY <1>7, <1>11 DEF FourPartsAre
    <3> QED BY <3>1, <3>2, PathFacts
  <2>2. DownTo(n, w, 0, n, n, from, 0)
    BY <1>1, <1>15, <1>16 DEF DownTo
  <2> QED BY <2>1, <2>2, <1>6, <1>11, <1>13, <1>14, WalkDown
<1>18. Reached(f, x1, from, n)
  <2>1. Stays(w, n, d)
    BY <1>3, <1>11 DEF FourPartsAre, Stays
  <2>2. StayFrom(x1, w, n, d)
    BY <1>15, <1>16 DEF StayFrom
  <2> QED BY <2>1, <2>2, <1>11, <1>13, <1>17, WalkDots
<1>19. Reached(f, x2, from, shared)
  <2>1. GoesUp(w, x1, u)
    <3> SUFFICES ASSUME NEW j \in 1..u PROVE w[x1 + j] = ".."
      BY DEF GoesUp
    <3>1. w[n + d + j] = ups[j] /\ ups[j] = ".."
      BY <1>8, <1>11 DEF FourPartsAre
    <3> QED BY <3>1, <1>15
  <2>2. UpFrom(x2, w, x1, u, shared, from, n)
    BY <1>1, <1>4, <1>15, <1>16 DEF UpFrom
  <2> QED BY <2>1, <2>2, <1>6, <1>11, <1>13, <1>18, WalkUp
<1>20. Reached(f, x3, to, Len(to))
  <2>1. GoesDown(w, x2, to, shared, v)
    <3> SUFFICES ASSUME NEW j \in 1..v PROVE w[x2 + j] = to[shared + j] /\ to[shared + j] \notin {".", ".."}
      BY DEF GoesDown
    <3>1. shared + j \in 1..Len(to)
      BY <1>5
    <3>2. w[n + d + u + j] = tail[j] /\ tail[j] = to[shared + j] /\ n + d + u + j = x2 + j
      BY <1>9, <1>11, <1>15 DEF FourPartsAre
    <3> QED BY <3>1, <3>2, PathFacts
  <2>2. DownTo(x3, w, x2, v, Len(to), to, shared)
    BY <1>5, <1>15, <1>16 DEF DownTo
  <2>3. Reached(f, x2, to, shared)
    BY <1>2, <1>19 DEF Reached
  <2> QED BY <2>1, <2>2, <2>3, <1>6, <1>11, <1>13, WalkDown
<1>21. SubSeq(to, 1, Len(to)) = to
  BY <1>6, SubSeqFull
<1> QED BY <1>12, <1>13, <1>15, <1>20, <1>21 DEF Reached

LEMMA LinkToIs ==
  ASSUME NEW form \in {"md", "wiki"}, NEW p \in PagePaths, NEW q \in PagePaths
  PROVE  LinkTo[form][p][q].to = "page" /\ resolve_relative(p, LinkTo[form][p][q].parts) = q
<1>1. PICK dot : dot = IF form = "md" THEN <<".">> ELSE <<>>
  OBVIOUS
<1>2. PICK parts : parts = dot \o relative(p, q)
  OBVIOUS
<1>3. LinkTo[form][p][q] = [form |-> form, to |-> "page", parts |-> parts]
  BY <1>1, <1>2 DEF LinkTo
<1>4. dot \in Seq(Name) /\ Len(dot) \in {0, 1} /\ \A i \in 1..Len(dot) : dot[i] = "."
  <2>1. PICK here \in Name : here = "."
    BY DEF Name
  <2>2. CASE form = "md"
    <3>1. dot = <<here>>
      BY <1>1, <2>1, <2>2
    <3>2. dot \in Seq(Name) /\ Len(dot) = 1 /\ dot[1] = here
      BY <3>1
    <3> QED BY <3>2, <2>1
  <2>3. CASE form # "md"
    <3>1. dot = <<>>
      BY <1>1, <2>3
    <3>2. dot \in Seq(Name) /\ Len(dot) = 0
      BY <3>1
    <3> QED BY <3>2
  <2> QED BY <2>2, <2>3
<1>5. resolve_relative(p, parts) = q
  BY <1>2, <1>4, LinksResolve
<1> QED BY <1>3, <1>5

LEMMA AsidesLeadNowhere ==
  ASSUME ~WikiAnchors, NEW l \in Asides
  PROVE  clean_target(l) = {}
<1>1. PICK none : none = <<>>
  OBVIOUS
<1>2. PICK form \in {"md", "wiki"}, to \in {"heading", "elsewhere"} : l = [form |-> form, to |-> to, parts |-> none]
  BY <1>1 DEF Asides
<1>3. ~(form = "wiki" /\ to = "heading")
  BY <1>1, <1>2 DEF Asides
<1>4. l.form = form /\ l.to = to
  BY <1>2
<1> QED BY <1>3, <1>4 DEF clean_target

LEMMA NeighborsAreMeant ==
  ASSUME ~WikiAnchors, BundleInv, NEW p \in Written
  PROVE  neighbors(p) = meant[p]
<1>1. p \in PagePaths /\ pages[p] # {}
  BY DEF Written
<1>2. LinksLead(The(p).links, p, meant[p]) /\ meant[p] \subseteq PagePaths
  BY <1>1 DEF BundleInv, LinksMeant
<1>3. PICK form \in {"md", "wiki"} : The(p).links = Asides \cup {LinkTo[form][p][q] : q \in meant[p]}
  BY <1>2 DEF LinksLead
<1>4. ASSUME NEW q \in meant[p] PROVE clean_target(LinkTo[form][p][q]) = {LinkTo[form][p][q].parts}
  <2>1. LinkTo[form][p][q].to = "page"
    BY <1>1, <1>2, LinkToIs
  <2> QED BY <2>1 DEF clean_target
<1>5. UNION {clean_target(l) : l \in The(p).links} = {LinkTo[form][p][q].parts : q \in meant[p]}
  BY <1>3, <1>4, AsidesLeadNowhere
<1>6. ASSUME NEW q \in meant[p] PROVE resolve_relative(p, LinkTo[form][p][q].parts) = q
  BY <1>1, <1>2, LinkToIs
<1>7. neighbors(p) = {resolve_relative(p, LinkTo[form][p][q].parts) : q \in meant[p]}
  BY <1>5 DEF neighbors
<1> QED BY <1>6, <1>7

LEMMA LintSees ==
  ASSUME ~WikiAnchors, BundleInv
  PROVE  LintSeesWhatWasMeant
<1>1. Linked = UNION {meant[p] : p \in Written}
  BY NeighborsAreMeant DEF Linked
<1>2. LintReport.orphans = orphans /\ LintReport.missing_pages = find_missing_pages
  BY DEF LintReport
<1> QED BY <1>1, <1>2 DEF LintSeesWhatWasMeant, orphans, find_missing_pages

(* Lint reads links as they were meant (links.rs, resolve_relative), whichever
   way they are written and whatever directories they cross, in a wiki whose
   authors do not write [[#heading]]. *)
THEOREM LintIsRight == ASSUME ~WikiAnchors PROVE BundleSpec => []LintSeesWhatWasMeant
BY BundleInvariant, LintSees, PTL

(* A finite set in a strict total order.  As many are before the k-th as there
   are places before it, so every place is taken, by one. *)
Precedes(R, S, p) == {q \in S : <<q, p>> \in R}
Ordered(R, S) ==
  /\ \A p \in S : <<p, p>> \notin R
  /\ \A p, q, r \in S : (<<p, q>> \in R /\ <<q, r>> \in R) => <<p, r>> \in R
  /\ \A p, q \in S : p = q \/ <<p, q>> \in R \/ <<q, p>> \in R
RankIn(R, S) == [p \in S |-> Cardinality(Precedes(R, S, p))]

LEMMA EveryPlaceTaken ==
  ASSUME NEW S, IsFiniteSet(S), NEW R, Ordered(R, S), NEW n, n = Cardinality(S)
  PROVE  /\ n \in Nat /\ RankIn(R, S) \in Bijection(S, 0..(n - 1))
         /\ \A p, q \in S : <<p, q>> \in R => RankIn(R, S)[p] < RankIn(R, S)[q]
<1>1. n \in Nat
  BY FS_CardinalityType
<1>2. PICK rank : rank = RankIn(R, S)
  OBVIOUS
<1>3. ASSUME NEW p \in S
      PROVE  IsFiniteSet(Precedes(R, S, p)) /\ rank[p] = Cardinality(Precedes(R, S, p)) /\ rank[p] \in 0..(n - 1)
  <2>1. Precedes(R, S, p) \in SUBSET (S \ {p})
    BY DEF Precedes, Ordered
  <2>2. IsFiniteSet(S \ {p}) /\ Cardinality(S \ {p}) = n - 1
    BY FS_RemoveElement
  <2>3. IsFiniteSet(Precedes(R, S, p)) /\ Cardinality(Precedes(R, S, p)) <= n - 1
    BY <2>1, <2>2, FS_Subset
  <2>4. Cardinality(Precedes(R, S, p)) \in Nat
    BY <2>3, FS_CardinalityType
  <2>5. rank[p] = Cardinality(Precedes(R, S, p))
    BY <1>2 DEF RankIn
  <2> QED BY <2>3, <2>4, <2>5, <1>1
<1>4. ASSUME NEW p \in S, NEW q \in S, <<p, q>> \in R PROVE rank[p] < rank[q]
  <2>1. p \notin Precedes(R, S, p) /\ Precedes(R, S, p) \cup {p} \in SUBSET Precedes(R, S, q)
    BY <1>4 DEF Precedes, Ordered
  <2>2. Cardinality(Precedes(R, S, p) \cup {p}) = rank[p] + 1
    BY <2>1, <1>3, FS_AddElement
  <2>3. Cardinality(Precedes(R, S, p) \cup {p}) <= rank[q]
    BY <2>1, <1>3, FS_Subset
  <2>4. rank[p] \in 0..(n - 1) /\ rank[q] \in 0..(n - 1)
    BY <1>3
  <2> QED BY <2>2, <2>3, <2>4
<1>5. rank \in [S -> 0..(n - 1)]
  BY <1>2, <1>3 DEF RankIn
<1>6. ASSUME NEW p \in S, NEW q \in S, rank[p] = rank[q] PROVE p = q
  <2>1. rank[p] \in 0..(n - 1) /\ rank[q] \in 0..(n - 1)
    BY <1>3
  <2>2. ~(rank[p] < rank[q]) /\ ~(rank[q] < rank[p])
    BY <2>1, <1>6
  <2>3. <<p, q>> \notin R /\ <<q, p>> \notin R
    BY <2>2, <1>4
  <2> QED BY <2>3 DEF Ordered
<1>7. rank \in Injection(S, 0..(n - 1))
  BY <1>5, <1>6 DEF Injection, IsInjective
<1>8. IsFiniteSet(0..(n - 1)) /\ Cardinality(0..(n - 1)) = n
  <2>1. 0 \in Int /\ n - 1 \in Int
    BY <1>1
  <2>2. PICK last \in Int : last = n - 1
    BY <2>1
  <2>3. IsFiniteSet(0..last) /\ Cardinality(0..last) = IF 0 > last THEN 0 ELSE last - 0 + 1
    BY <2>1, FS_Interval
  <2>4. (IF 0 > last THEN 0 ELSE last - 0 + 1) = n
    BY <1>1, <2>2
  <2> QED BY <2>2, <2>3, <2>4
<1>9. rank \in Surjection(S, 0..(n - 1))
  BY <1>7, <1>8, FS_Injection
<1> QED BY <1>1, <1>2, <1>4, <1>7, <1>9 DEF Bijection

(* The first of them, in order: as many as were asked for, none of the others
   before any of them. *)
InOrder(first, R, S, m) == first = [i \in 1..m |-> CHOOSE p \in S : RankIn(R, S)[p] = i - 1]
AllOf(first, m) == {first[i] : i \in 1..m}
LEMMA FirstOfAll ==
  ASSUME NEW S, IsFiniteSet(S), NEW R, Ordered(R, S), NEW m \in Nat, m <= Cardinality(S), NEW first, InOrder(first, R, S, m)
  PROVE  /\ Cardinality(AllOf(first, m)) = m /\ AllOf(first, m) \subseteq S
         /\ \A p \in AllOf(first, m), q \in S \ AllOf(first, m) : <<p, q>> \in R
<1>1. PICK n \in Nat : n = Cardinality(S)
  BY FS_CardinalityType
<1>2. PICK rank : rank = RankIn(R, S)
  OBVIOUS
<1>3. /\ rank \in Bijection(S, 0..(n - 1))
      /\ \A p, q \in S : <<p, q>> \in R => rank[p] < rank[q]
  BY <1>1, <1>2, EveryPlaceTaken
<1>4. rank \in [S -> 0..(n - 1)] /\ (\A p, q \in S : rank[p] = rank[q] => p = q) /\ \A k \in 0..(n - 1) : \E p \in S : rank[p] = k
  BY <1>3 DEF Bijection, Injection, Surjection, IsInjective
<1>5. \A i \in 1..m : i - 1 \in 0..(n - 1)
  BY <1>1
<1>6. ASSUME NEW i \in 1..m PROVE first[i] \in S /\ rank[first[i]] = i - 1
  <2>1. \E p \in S : rank[p] = i - 1
    BY <1>4, <1>5
  <2>2. first[i] = CHOOSE p \in S : rank[p] = i - 1
    BY <1>2 DEF InOrder
  <2> QED BY <2>1, <2>2
<1> DEFINE all == {first[i] : i \in 1..m}
<1>7. first \in Bijection(1..m, all)
  <2>1. first \in [1..m -> all]
    BY DEF InOrder
  <2>2. ASSUME NEW i \in 1..m, NEW j \in 1..m, first[i] = first[j] PROVE i = j
    <3>1. i - 1 = j - 1
      BY <2>2, <1>6
    <3> QED BY <3>1
  <2>3. \A p \in all : \E i \in 1..m : first[i] = p
    OBVIOUS
  <2> HIDE DEF all
  <2> QED BY <2>1, <2>2, <2>3 DEF Bijection, Injection, Surjection, IsInjective
<1>8. Cardinality(all) = m
  <2>1. IsFiniteSet(1..m) /\ Cardinality(1..m) = m
    BY FS_Interval
  <2>2. ExistsBijection(1..m, all)
    BY <1>7 DEF ExistsBijection
  <2> HIDE DEF all
  <2> QED BY <2>1, <2>2, FS_Bijection
<1>9. all \subseteq S
  BY <1>6
<1>10. ASSUME NEW i \in 1..m, NEW q \in S \ all PROVE <<first[i], q>> \in R
  <2>1. PICK p \in S : p = first[i]
    BY <1>6
  <2>2. rank[p] = i - 1 /\ p # q
    BY <1>6, <2>1
  <2>3. CASE <<q, p>> \in R
    <3>1. rank[q] < i - 1 /\ rank[q] \in 0..(n - 1)
      BY <1>3, <1>4, <2>2, <2>3
    <3>2. PICK j \in 1..m : j - 1 = rank[q]
      <4>1. rank[q] + 1 \in 1..m /\ (rank[q] + 1) - 1 = rank[q]
        BY <3>1
      <4> QED BY <4>1
    <3>3. first[j] = q
      BY <1>4, <1>6, <3>2
    <3> QED BY <3>3
  <2> QED BY <2>1, <2>2, <2>3 DEF Ordered
<1> QED BY <1>8, <1>9, <1>10 DEF AllOf

LEMMA FewerOf ==
  ASSUME NEW a \in Nat, NEW b \in Nat
  PROVE  Min({a, b}) \in Nat /\ Min({a, b}) <= a /\ Min({a, b}) <= b
<1>1. \E x \in {a, b} : \A y \in {a, b} : x <= y
  <2>1. CASE a <= b
    BY <2>1
  <2>2. CASE b <= a
    BY <2>2
  <2> QED BY <2>1, <2>2
<1>2. PICK m : m = Min({a, b})
  OBVIOUS
<1>3. m \in {a, b} /\ \A y \in {a, b} : m <= y
  BY <1>1, <1>2 DEF Min
<1> QED BY <1>2, <1>3

LEMMA PositionIs ==
  ASSUME NEW p \in PagePaths
  PROVE  Position(p) \in 1..Len(Listing) /\ Listing[Position(p)] = p
<1>1. DOMAIN Listing = 1..Len(Listing)
  BY ListingAssumption
<1>2. \E i \in 1..Len(Listing) : Listing[i] = p
  BY <1>1 DEF PagePaths, Range
<1> QED BY <1>2 DEF Position

LEMMA PathsAreFinite == IsFiniteSet(PagePaths)
<1>1. DOMAIN Listing = 1..Len(Listing) /\ Len(Listing) \in Nat /\ Listing \in [1..Len(Listing) -> PagePaths]
  BY ListingAssumption
<1>2. Listing \in Surjection(1..Len(Listing), PagePaths)
  BY <1>1 DEF Surjection, PagePaths, Range
<1>3. IsFiniteSet(1..Len(Listing))
  BY <1>1, FS_Interval
<1> QED BY <1>2, <1>3, FS_Surjection

LEMMA BestCited ==
  ASSUME BundleInv
  PROVE  BestPagesAreCited
<1> SUFFICES ASSUME NEW question \in SUBSET Words
             PROVE  LET cited == Range(select_relevant(question)) IN
                    /\ Cardinality(cited) = Min({MAX_CONTEXT_CONCEPTS, Cardinality(Scored(question))})
                    /\ \A p \in cited, q \in Scored(question) \ cited : Score(p, question) >= Score(q, question)
  BY DEF BestPagesAreCited
<1>1. PICK S : S = Scored(question)
  OBVIOUS
<1>2. S \subseteq PagePaths /\ IsFiniteSet(S)
  <2>1. S \in SUBSET PagePaths
    BY <1>1 DEF Scored, Written
  <2> QED BY <2>1, PathsAreFinite, FS_Subset
<1>3. ASSUME NEW p \in S PROVE Score(p, question) \in Nat
  <2>1. p \in PagePaths /\ pages[p] # {}
    BY <1>1 DEF Scored, Written
  <2>2. The(p).words \in Contents
    BY <2>1, ThePage DEF BundleInv, IsPage
  <2>3. IsFiniteSet(The(p).words \cap question)
    BY <2>2, ContentsAssumption, FS_Intersection
  <2> QED BY <2>3, FS_CardinalityType DEF Score
<1>4. PICK score : score = [p \in S |-> Score(p, question)]
  OBVIOUS
<1>5. PICK place : place = [p \in S |-> Position(p)]
  OBVIOUS
<1>6. score \in [S -> Nat] /\ place \in [S -> Nat] /\ \A p, q \in S : place[p] = place[q] => p = q
  <2>1. ASSUME NEW p \in S PROVE score[p] \in Nat /\ place[p] \in Nat /\ Listing[place[p]] = p
    BY <1>2, <1>3, <1>4, <1>5, PositionIs
  <2> QED BY <2>1, <1>4, <1>5
<1>7. PICK R : R = {pq \in S \X S : Before(question, pq[1], pq[2])}
  OBVIOUS
<1>8. ASSUME NEW p \in S, NEW q \in S
      PROVE  /\ <<p, q>> \in R <=> Before(question, p, q)
             /\ <<p, q>> \in R <=> (score[p] > score[q] \/ (score[p] = score[q] /\ place[p] < place[q]))
  <2>1. <<p, q>> \in R <=> Before(question, p, q)
    BY <1>7
  <2> QED BY <2>1, <1>4, <1>5 DEF Before
<1>9. Ordered(R, S)
  <2>1. \A p \in S : <<p, p>> \notin R
    BY <1>6, <1>8
  <2>2. ASSUME NEW p \in S, NEW q \in S, NEW r \in S, <<p, q>> \in R, <<q, r>> \in R PROVE <<p, r>> \in R
    <3>1. score[p] \in Nat /\ score[q] \in Nat /\ score[r] \in Nat /\ place[p] \in Nat /\ place[q] \in Nat /\ place[r] \in Nat
      BY <1>6
    <3> QED BY <3>1, <2>2, <1>8
  <2>3. ASSUME NEW p \in S, NEW q \in S PROVE p = q \/ <<p, q>> \in R \/ <<q, p>> \in R
    <3>1. score[p] \in Nat /\ score[q] \in Nat /\ place[p] \in Nat /\ place[q] \in Nat
      BY <1>6
    <3>2. place[p] = place[q] => p = q
      BY <1>6
    <3> QED BY <3>1, <3>2, <1>8
  <2> QED BY <2>1, <2>2, <2>3 DEF Ordered
<1>10. \A p \in S : Ahead(question, p) = RankIn(R, S)[p]
  <2>1. ASSUME NEW p \in S PROVE {q \in Scored(question) : Before(question, q, p)} = Precedes(R, S, p)
    BY <1>1, <1>8 DEF Precedes
  <2> QED BY <2>1 DEF Ahead, RankIn
<1>11. PICK m : m = take(question)
  OBVIOUS
<1>12. m \in Nat /\ m <= Cardinality(S) /\ m = Min({MAX_CONTEXT_CONCEPTS, Cardinality(Scored(question))})
  BY <1>1, <1>2, <1>11, ContentsAssumption, FS_CardinalityType, FewerOf DEF take
<1>13. PICK first : first = select_relevant(question)
  OBVIOUS
<1>14. first = [i \in 1..m |-> CHOOSE p \in S : RankIn(R, S)[p] = i - 1]
  <2>1. ASSUME NEW i \in 1..m
        PROVE  (CHOOSE p \in Scored(question) : Ahead(question, p) = i - 1) = CHOOSE p \in S : RankIn(R, S)[p] = i - 1
    BY <1>1, <1>10
  <2> QED BY <2>1, <1>11, <1>13 DEF select_relevant
<1>15. PICK all : all = {first[i] : i \in 1..m}
  OBVIOUS
<1>16. Range(select_relevant(question)) = all
  BY <1>13, <1>14, <1>15 DEF Range
<1>17. Cardinality(all) = m /\ all \subseteq S /\ \A p \in all, q \in S \ all : <<p, q>> \in R
  <2>1. InOrder(first, R, S, m) /\ all = AllOf(first, m)
    BY <1>14, <1>15 DEF InOrder, AllOf
  <2>2. IsFiniteSet(S) /\ Ordered(R, S) /\ m \in Nat /\ m <= Cardinality(S)
    BY <1>2, <1>9, <1>12
  <2>3. /\ Cardinality(AllOf(first, m)) = m /\ AllOf(first, m) \subseteq S
        /\ \A p \in AllOf(first, m), q \in S \ AllOf(first, m) : <<p, q>> \in R
    BY <2>1, <2>2, FirstOfAll
  <2> QED BY <2>1, <2>3
<1>18. ASSUME NEW p \in all, NEW q \in S \ all PROVE Score(p, question) >= Score(q, question)
  <2>1. <<p, q>> \in R /\ p \in S
    BY <1>17
  <2>2. score[p] \in Nat /\ score[q] \in Nat /\ (score[p] > score[q] \/ score[p] = score[q])
    BY <2>1, <1>6, <1>8
  <2>3. score[p] = Score(p, question) /\ score[q] = Score(q, question)
    BY <2>1, <1>4
  <2> QED BY <2>2, <2>3
<1> QED BY <1>1, <1>12, <1>16, <1>17, <1>18

(* A query is answered from the best pages there are (query.rs,
   select_relevant), however many there are and whatever they say: as many as
   the context takes, and none left out that shares more of the question. *)
THEOREM BestPagesCited == BundleSpec => []BestPagesAreCited
BY BundleInvariant, BestCited, PTL

-----------------------------------------------------------------------------
(* The text of a page (parser.rs): what is written for a frontmatter is lines
   of which none is a delimiter or blank, and from which it is read back. *)
LEMMA FewLines ==
  ASSUME NEW T, NEW a \in T, NEW b \in T
  PROVE  /\ <<a>> \in Seq(T) /\ Len(<<a>>) = 1 /\ <<a>>[1] = a
         /\ <<a, b>> \in Seq(T) /\ Len(<<a, b>>) = 2 /\ <<a, b>>[1] = a /\ <<a, b>>[2] = b
OBVIOUS

LEMMA OneMore ==
  ASSUME NEW a, NEW b
  PROVE  Append(<<>>, a) = <<a>> /\ Append(<<a>>, b) = <<a, b>>
<1>1. Append(<<>>, a) = <<a>>
  OBVIOUS
<1>2. PICK T : a \in T /\ b \in T
  <2>1. a \in {a, b} /\ b \in {a, b}
    OBVIOUS
  <2> QED BY <2>1
<1>3. PICK s \in Seq(T) : s = <<a>> /\ Len(s) = 1 /\ s[1] = a
  BY <1>2, FewLines
<1>4. PICK t \in Seq(T) : t = <<a, b>> /\ Len(t) = 2 /\ t[1] = a /\ t[2] = b
  <2>1. <<a, b>> \in Seq(T) /\ Len(<<a, b>>) = 2 /\ <<a, b>>[1] = a /\ <<a, b>>[2] = b
    BY <1>2, FewLines
  <2> QED BY <2>1
<1>5. PICK u : u = Append(s, b)
  OBVIOUS
<1>6. u \in Seq(T) /\ Len(u) = 2 /\ u[1] = a /\ u[2] = b
  BY <1>2, <1>3, <1>5, AppendProperties
<1>7. \A i \in 1..Len(u) : u[i] = t[i]
  BY <1>4, <1>6
<1>8. u = t
  BY <1>4, <1>6, <1>7, SeqEqual
<1> QED BY <1>1, <1>3, <1>4, <1>5, <1>8

LEMMA Either ==
  ASSUME NEW T, NEW s \in Seq(T)
  PROVE  /\ Len(s) = 1 => s = <<s[1]>>
         /\ Len(s) = 2 => s = <<s[1], s[2]>>
OBVIOUS

LEMMA Lines ==
  /\ line("dashes") \in Line /\ line("dashes").kind = "dashes" /\ ~line("dashes").cr
  /\ line("blank") \in Line /\ line("blank").kind = "blank" /\ ~line("blank").cr
  /\ line("indented") \in Line /\ line("indented").kind = "indented" /\ ~line("indented").cr
BY DEF Line, line

LEMMA Mapping ==
  ASSUME NEW kind \in {"mapping", "mapping |"}, NEW n \in TypeNames
  PROVE  LET l == [line(kind) EXCEPT !.name = n]
         IN  l \in Line /\ l.kind = kind /\ l.name = n /\ ~l.cr
<1>1. PICK none : none = "-"
  OBVIOUS
<1>2. PICK r : r = line(kind)
  OBVIOUS
<1>3. r \in [kind : {kind}, name : {none}, cr : {FALSE}]
  BY <1>1, <1>2 DEF line
<1>4. PICK l : l = [r EXCEPT !.name = n]
  OBVIOUS
<1>5. l \in [kind : {kind}, name : {n}, cr : {FALSE}]
  BY <1>3, <1>4
<1>6. l \in Line /\ l.kind = kind /\ l.name = n /\ ~l.cr
  BY <1>5 DEF Line
<1> QED BY <1>2, <1>4, <1>6

LEMMA Spelling ==
  ASSUME NEW f \in Frontmatters
  PROVE  /\ serialize(f.type) \in TypeNames /\ f.type = deserialize(serialize(f.type))
         /\ f.title \in {"short", "with dashes"} /\ f = [type |-> f.type, title |-> f.title]
<1>1. PICK n \in TypeNames : f.type = deserialize(n)
  BY DEF Frontmatters
<1>2. serialize(deserialize(n)) = n
  BY DEF serialize, deserialize
<1>3. f.title \in {"short", "with dashes"} /\ f = [type |-> f.type, title |-> f.title]
  BY DEF Frontmatters
<1> QED BY <1>1, <1>2, <1>3

(* The lines a frontmatter is written as: one mapping, and one line more when
   its title is long. *)
WrittenAs(f, s) ==
  \E l \in Line :
    /\ l.name = serialize(f.type) /\ ~l.cr
    /\ \/ f.title = "short" /\ l.kind = "mapping" /\ s = <<l>>
       \/ f.title = "with dashes" /\ l.kind = "mapping |" /\ s = <<l, line("indented")>>

LEMMA WrittenLines ==
  ASSUME NEW f \in Frontmatters
  PROVE  WrittenAs(f, to_string(f))
<1>1. CASE f.title = "short"
  <2>1. PICK l : l = [line("mapping") EXCEPT !.name = serialize(f.type)]
    OBVIOUS
  <2>2. l \in Line /\ l.kind = "mapping" /\ l.name = serialize(f.type) /\ ~l.cr
    BY <2>1, Mapping, Spelling
  <2>3. to_string(f) = <<l>>
    BY <1>1, <2>1 DEF to_string
  <2> QED BY <1>1, <2>2, <2>3 DEF WrittenAs
<1>2. CASE f.title = "with dashes"
  <2>1. PICK l : l = [line("mapping |") EXCEPT !.name = serialize(f.type)]
    OBVIOUS
  <2>2. l \in Line /\ l.kind = "mapping |" /\ l.name = serialize(f.type) /\ ~l.cr
    BY <2>1, Mapping, Spelling
  <2>3. to_string(f) = <<l, line("indented")>>
    BY <1>2, <2>1 DEF to_string
  <2> QED BY <1>2, <2>2, <2>3 DEF WrittenAs
<1> QED BY <1>1, <1>2, Spelling

(* Such lines. *)
Plain(s) == /\ s \in Seq(Line) /\ Len(s) \in {1, 2}
            /\ \A i \in 1..Len(s) : s[i].kind \notin {"dashes", "blank"} /\ ~s[i].cr

LEMMA ToStringIsPlain ==
  ASSUME NEW f \in Frontmatters
  PROVE  Plain(to_string(f))
<1>1. PICK s : s = to_string(f)
  OBVIOUS
<1>2. PICK l \in Line :
        /\ l.name = serialize(f.type) /\ ~l.cr
        /\ \/ f.title = "short" /\ l.kind = "mapping" /\ s = <<l>>
           \/ f.title = "with dashes" /\ l.kind = "mapping |" /\ s = <<l, line("indented")>>
  BY <1>1, WrittenLines DEF WrittenAs
<1>3. PICK d \in Line : d = line("indented") /\ d.kind = "indented" /\ ~d.cr
  BY Lines
<1>4. CASE s = <<l>>
  <2>1. s \in Seq(Line) /\ Len(s) = 1 /\ s[1] = l
    BY <1>4, FewLines
  <2>2. l.kind \notin {"dashes", "blank"} /\ ~l.cr
    BY <1>2
  <2>3. \A i \in 1..Len(s) : s[i] = l
    BY <2>1
  <2> QED BY <1>1, <2>1, <2>2, <2>3 DEF Plain
<1>5. CASE s = <<l, d>>
  <2>1. s \in Seq(Line) /\ Len(s) = 2 /\ s[1] = l /\ s[2] = d
    BY <1>5, FewLines
  <2>2. l.kind \notin {"dashes", "blank"} /\ ~l.cr /\ d.kind \notin {"dashes", "blank"} /\ ~d.cr
    BY <1>2, <1>3
  <2>3. \A i \in 1..Len(s) : s[i] = l \/ s[i] = d
    BY <2>1
  <2> QED BY <1>1, <2>1, <2>2, <2>3 DEF Plain
<1> QED BY <1>2, <1>3, <1>4, <1>5

LEMMA ToStringTells ==
  ASSUME NEW f \in Frontmatters, NEW g \in Frontmatters, to_string(f) = to_string(g)
  PROVE  f = g
<1>1. PICK s : s = to_string(f)
  OBVIOUS
<1>2. PICK l \in Line :
        /\ l.name = serialize(f.type)
        /\ \/ f.title = "short" /\ l.kind = "mapping" /\ s = <<l>>
           \/ f.title = "with dashes" /\ l.kind = "mapping |" /\ s = <<l, line("indented")>>
  BY <1>1, WrittenLines DEF WrittenAs
<1>3. PICK k \in Line :
        /\ k.name = serialize(g.type)
        /\ \/ g.title = "short" /\ k.kind = "mapping" /\ s = <<k>>
           \/ g.title = "with dashes" /\ k.kind = "mapping |" /\ s = <<k, line("indented")>>
  BY <1>1, WrittenLines DEF WrittenAs
<1>d. PICK d \in Line : d = line("indented")
  BY Lines
<1>e. s = <<l>> \/ s = <<l, d>>
  BY <1>2, <1>d
<1>f. s = <<k>> \/ s = <<k, d>>
  BY <1>3, <1>d
<1>4. s[1] = l /\ s[1] = k
  <2>1. s[1] = l
    BY <1>d, <1>e, FewLines
  <2>2. s[1] = k
    BY <1>d, <1>f, FewLines
  <2> QED BY <2>1, <2>2
<1>5. f.title = g.title /\ serialize(f.type) = serialize(g.type)
  BY <1>2, <1>3, <1>4
<1> QED BY <1>5, Spelling

(* What is read of such lines is what they are. *)
WithoutCr(l) == [l EXCEPT !.cr = FALSE]

LEMMA WithoutBlanks ==
  ASSUME NEW s, Plain(s)
  PROVE  without_blanks(s) = s
<1> DEFINE it == CHOOSE f : f = [n \in 0..Len(s) |->
             IF n = 0 THEN <<>>
             ELSE IF s[n].kind = "blank" THEN f[n - 1] ELSE Append(f[n - 1], WithoutCr(s[n]))]
<1>1. without_blanks(s) = it[Len(s)]
  BY DEF without_blanks, WithoutCr
<1>2. ASSUME NEW i \in 1..Len(s) PROVE s[i].kind # "blank" /\ WithoutCr(s[i]) = s[i]
  <2>1. s[i] \in Line /\ s[i].kind # "blank" /\ ~s[i].cr
    BY DEF Plain
  <2>2. ASSUME NEW l \in Line, ~l.cr PROVE [l EXCEPT !.cr = FALSE] = l
    <3>1. l.cr = FALSE
      BY <2>2 DEF Line
    <3> QED BY <3>1 DEF Line
  <2> QED BY <2>1, <2>2 DEF WithoutCr
<1> HIDE DEF it
<1>3. s \in Seq(Line) /\ Len(s) \in {1, 2} /\ 0 \in 0..Len(s) /\ 1 \in 0..Len(s) /\ 1 \in 1..Len(s)
  BY DEF Plain
<1>m. PICK many \in {1, 2} : many = Len(s)
  BY <1>3
<1>a. \A n \in 0..Len(s) : n = 0 \/ n = 1 \/ (n = 2 /\ 2 \in 0..Len(s) /\ 2 \in 1..Len(s))
  BY <1>m
<1> DEFINE h == [n \in 0..Len(s) |-> IF n = 0 THEN <<>> ELSE IF n = 1 THEN <<s[1]>> ELSE <<s[1], s[2]>>]
<1>b. h[0] = <<>> /\ h[1] = <<s[1]>> /\ (2 \in 0..Len(s) => h[2] = <<s[1], s[2]>>)
  BY <1>3
<1>c. h = [n \in 0..Len(s) |-> h[n]]
  OBVIOUS
<1> HIDE DEF h
<1>4. ASSUME NEW n \in 0..Len(s)
      PROVE  h[n] = IF n = 0 THEN <<>>
                    ELSE IF s[n].kind = "blank" THEN h[n - 1] ELSE Append(h[n - 1], WithoutCr(s[n]))
  <2>2. CASE n = 0
    BY <2>2, <1>b
  <2>3. CASE n = 1
    <3>1. n - 1 = 0 /\ Append(h[0], s[1]) = h[1]
      BY <2>3, <1>b, OneMore
    <3>2. s[1].kind # "blank" /\ WithoutCr(s[1]) = s[1]
      BY <1>2, <1>3
    <3> QED BY <2>3, <3>1, <3>2
  <2>4. CASE n = 2 /\ 2 \in 0..Len(s) /\ 2 \in 1..Len(s)
    <3>1. n - 1 = 1 /\ Append(h[1], s[2]) = h[2]
      BY <2>4, <1>b, OneMore
    <3>2. s[2].kind # "blank" /\ WithoutCr(s[2]) = s[2]
      BY <1>2, <2>4
    <3> QED BY <2>4, <3>1, <3>2
  <2> QED BY <1>a, <2>2, <2>3, <2>4
<1>5. h = [n \in 0..Len(s) |->
             IF n = 0 THEN <<>>
             ELSE IF s[n].kind = "blank" THEN h[n - 1] ELSE Append(h[n - 1], WithoutCr(s[n]))]
  BY <1>4, <1>c
<1>6. it = [n \in 0..Len(s) |->
             IF n = 0 THEN <<>>
             ELSE IF s[n].kind = "blank" THEN it[n - 1] ELSE Append(it[n - 1], WithoutCr(s[n]))]
  <2>1. \E f : f = [n \in 0..Len(s) |->
             IF n = 0 THEN <<>>
             ELSE IF s[n].kind = "blank" THEN f[n - 1] ELSE Append(f[n - 1], WithoutCr(s[n]))]
    BY <1>5
  <2> QED BY <2>1 DEF it
<1>7. it[0] = <<>>
  BY <1>6, <1>3
<1>8. it[1] = <<s[1]>>
  <2>1. it[1] = Append(it[1 - 1], WithoutCr(s[1]))
    BY <1>6, <1>3, <1>2
  <2>2. it[1] = Append(it[0], s[1])
    BY <2>1, <1>2, <1>3
  <2> QED BY <2>2, OneMore, <1>7
<1>9. CASE Len(s) = 1
  <2>1. s = <<s[1]>>
    BY <1>3, <1>9, Either
  <2> QED BY <2>1, <1>1, <1>8, <1>9
<1>10. CASE Len(s) = 2
  <2>1. 2 \in 1..Len(s) /\ 2 \in 0..Len(s)
    BY <1>10
  <2>2. it[2] = Append(it[2 - 1], WithoutCr(s[2]))
    BY <2>1, <1>6, <1>2
  <2>3. it[2] = Append(it[1], s[2])
    BY <2>1, <2>2, <1>2
  <2>4. s = <<s[1], s[2]>>
    BY <1>3, <1>10, Either
  <2>5. it[2] = s
    BY <2>3, <2>4, <1>8, OneMore
  <2> QED BY <2>5, <1>1, <1>10
<1> QED BY <1>3, <1>9, <1>10

LEMMA ReadBack ==
  ASSUME NEW f \in Frontmatters
  PROVE  from_str(to_string(f)) = {f}
<1>1. without_blanks(to_string(f)) = to_string(f)
  BY ToStringIsPlain, WithoutBlanks
<1> QED BY <1>1, ToStringTells DEF from_str

(* The least of some numbers. *)
LEMMA LeastIs ==
  ASSUME NEW S \in SUBSET Nat, NEW m \in S, \A j \in S : m <= j
  PROVE  Min(S) = m
<1>1. \E i \in S : \A j \in S : i <= j
  OBVIOUS
<1>2. Min(S) \in S /\ \A j \in S : Min(S) <= j
  BY <1>1 DEF Min
<1>3. Min(S) <= m /\ m <= Min(S) /\ Min(S) \in Nat /\ m \in Nat
  BY <1>2
<1> QED BY <1>3

LEMMA LeastExists ==
  ASSUME NEW S \in SUBSET Nat, S # {}
  PROVE  Min(S) \in S /\ \A j \in S : Min(S) <= j
<1>1. IsWellFoundedOn(OpToRel(<, Nat), Nat)
  BY NatLessThanWellFounded
<1>2. PICK i \in S : \A j \in S : <<j, i>> \notin OpToRel(<, Nat)
  BY <1>1, WFMin
<1>3. ASSUME NEW j \in S PROVE i <= j
  <2>1. <<j, i>> \notin OpToRel(<, Nat)
    BY <1>2
  <2>2. <<j, i>> \in Nat \X Nat /\ <<j, i>>[1] = j /\ <<j, i>>[2] = i
    OBVIOUS
  <2>3. ~ (j < i)
    BY <2>1, <2>2 DEF OpToRel
  <2> QED BY <2>3
<1>4. \E k \in S : \A j \in S : k <= j
  BY <1>3
<1> QED BY <1>4 DEF Min

(* Trimming: a text that begins with a written line is left alone, and one
   trimmed once is. *)
LEMMA Begun ==
  ASSUME NEW u \in Seq(Line), u # <<>>, u[1].kind # "blank"
  PROVE  Trimmed(u) = u
<1> DEFINE written == {i \in 1..Len(u) : u[i].kind # "blank"}
<1>1. Len(u) \in Nat /\ Len(u) # 0
  BY EmptySeq, LenProperties
<1>2. 1 \in written /\ written \in SUBSET Nat /\ \A j \in written : 1 <= j
  BY <1>1
<1>3. Min(written) = 1 /\ written # {}
  <2> HIDE DEF written
  <2> QED BY <1>2, LeastIs
<1>4. SubSeq(u, 1, Len(u)) = u
  BY SubSeqFull
<1> QED BY <1>3, <1>4 DEF Trimmed

LEMMA BlankOnly ==
  ASSUME NEW u \in Seq(Line), \A i \in 1..Len(u) : u[i].kind = "blank"
  PROVE  Trimmed(u) = <<line("blank")>>
<1>1. {i \in 1..Len(u) : u[i].kind # "blank"} = {}
  OBVIOUS
<1> QED BY <1>1 DEF Trimmed

(* How a trimmed text begins. *)
IsTrimmed(u) == u = <<line("blank")>> \/ (u # <<>> /\ u[1].kind # "blank")

LEMMA TrimmedFacts ==
  ASSUME NEW ls \in Seq(Line)
  PROVE  Trimmed(ls) \in Seq(Line) /\ Trimmed(ls) # <<>> /\ IsTrimmed(Trimmed(ls))
<1> DEFINE written == {i \in 1..Len(ls) : ls[i].kind # "blank"}
<1>1. CASE written = {}
  <2>1. Trimmed(ls) = <<line("blank")>>
    BY <1>1 DEF Trimmed
  <2>2. <<line("blank")>> \in Seq(Line) /\ Len(<<line("blank")>>) = 1
    BY Lines, FewLines
  <2>3. <<line("blank")>> # <<>>
    BY <2>2
  <2> QED BY <2>1, <2>2, <2>3 DEF IsTrimmed
<1>2. CASE written # {}
  <2>1. PICK m \in written : m = Min(written)
    <3>1. written \in SUBSET Nat
      OBVIOUS
    <3> HIDE DEF written
    <3> QED BY <3>1, <1>2, LeastExists
  <2>2. PICK u : u = SubSeq(ls, m, Len(ls))
    OBVIOUS
  <2>3. Trimmed(ls) = u
    BY <1>2, <2>1, <2>2 DEF Trimmed
  <2>4. m \in 1..Len(ls) /\ Len(ls) \in Nat /\ ls[m].kind # "blank" /\ m \in Int /\ Len(ls) \in Int
    BY LenProperties
  <2>5. \A i \in m..Len(ls) : ls[i] \in Line
    BY <2>4
  <2>6. u \in Seq(Line) /\ Len(u) = Len(ls) - m + 1 /\ u[1] = ls[m + 1 - 1]
    BY <2>2, <2>4, <2>5, SubSeqProperties
  <2>7. u[1] = ls[m] /\ Len(u) # 0
    BY <2>4, <2>6
  <2>8. u # <<>>
    BY <2>7
  <2> HIDE DEF written
  <2> QED BY <2>3, <2>4, <2>6, <2>7, <2>8 DEF IsTrimmed
<1> QED BY <1>1, <1>2

LEMMA TrimmedIs ==
  ASSUME NEW u \in Seq(Line)
  PROVE  u # <<>> /\ Trimmed(u) = u <=> IsTrimmed(u)
<1>1. ASSUME IsTrimmed(u) PROVE u # <<>> /\ Trimmed(u) = u
  <2>1. CASE u = <<line("blank")>>
    <3>1. PICK l \in Line : l = line("blank") /\ l.kind = "blank"
      BY Lines
    <3>2. Len(u) = 1 /\ u[1] = l
      BY <2>1, <3>1, FewLines
    <3>3. \A i \in 1..Len(u) : u[i].kind = "blank"
      BY <3>1, <3>2
    <3>4. u # <<>>
      <4>1. Len(u) # 0
        BY <3>2
      <4>2. Len(<<>>) = 0
        OBVIOUS
      <4> QED BY <4>1, <4>2
    <3> QED BY <2>1, <3>3, <3>4, BlankOnly
  <2>2. CASE u # <<>> /\ u[1].kind # "blank"
    BY <2>2, Begun
  <2> QED BY <1>1, <2>1, <2>2 DEF IsTrimmed
<1>2. ASSUME u # <<>>, Trimmed(u) = u PROVE IsTrimmed(u)
  BY <1>2, TrimmedFacts
<1> QED BY <1>1, <1>2

(* A blank line before a trimmed text is trimmed away. *)
LEMMA BlankBefore ==
  ASSUME NEW b \in Seq(Line), IsTrimmed(b), NEW r \in Seq(Line), Len(r) = Len(b) + 1, r[1] = line("blank"),
         \A i \in 1..Len(b) : r[i + 1] = b[i]
  PROVE  Trimmed(r) = b
<1>1. Len(b) \in Nat /\ r[1].kind = "blank"
  BY LenProperties, Lines
<1>2. CASE b = <<line("blank")>>
  <2>1. PICK l \in Line : l = line("blank") /\ l.kind = "blank"
    BY Lines
  <2>2. Len(b) = 1 /\ b[1] = l
    BY <1>2, <2>1, FewLines
  <2>3. Len(r) = 2 /\ r[2] = l
    BY <2>2
  <2>4. \A i \in 1..Len(r) : r[i].kind = "blank"
    BY <2>3, <2>1, <1>1
  <2> QED BY <1>2, <2>4, BlankOnly
<1>3. CASE b # <<>> /\ b[1].kind # "blank"
  <2> DEFINE written == {i \in 1..Len(r) : r[i].kind # "blank"}
  <2>1. Len(b) # 0 /\ 1 \in 1..Len(b)
    BY <1>1, <1>3, EmptySeq
  <2>2. r[1 + 1] = b[1]
    BY <2>1
  <2>3. r[2].kind # "blank" /\ 2 \in 1..Len(r) /\ Len(r) \in Nat
    BY <1>1, <1>3, <2>1, <2>2
  <2>4. ASSUME NEW j \in written PROVE 2 <= j
    <3>1. j # 1
      BY <1>1
    <3> QED BY <3>1
  <2>5. 2 \in written /\ written \in SUBSET Nat
    BY <2>3
  <2>6. Min(written) = 2 /\ written # {}
    <3> HIDE DEF written
    <3> QED BY <2>4, <2>5, LeastIs
  <2>7. PICK u : u = SubSeq(r, 2, Len(r))
    OBVIOUS
  <2>8. Trimmed(r) = u
    BY <2>6, <2>7 DEF Trimmed
  <2>9. /\ u \in Seq(Line) /\ Len(u) = Len(r) - 2 + 1
        /\ \A i \in 1..(Len(r) - 2 + 1) : u[i] = r[2 + i - 1]
    <3>1. \A i \in 2..Len(r) : r[i] \in Line
      BY <2>3
    <3> QED BY <3>1, <2>3, <2>7, SubSeqProperties
  <2>10. Len(u) = Len(b)
    BY <2>9, <1>1
  <2>11. ASSUME NEW i \in 1..Len(u) PROVE u[i] = b[i]
    <3>1. i \in 1..Len(b) /\ i \in 1..(Len(r) - 2 + 1) /\ 2 + i - 1 = i + 1
      BY <2>10, <1>1
    <3>2. u[i] = r[2 + i - 1] /\ r[i + 1] = b[i]
      BY <2>9, <3>1
    <3> QED BY <3>1, <3>2
  <2>12. u = b
    BY <2>9, <2>10, <2>11, SeqEqual
  <2> QED BY <2>8, <2>12
<1> QED BY <1>2, <1>3 DEF IsTrimmed

(* How a page is laid out: a delimiter, the frontmatter, a delimiter, a blank
   line and the body. *)
Laid(t, s, b) ==
  /\ t \in Seq(Line) /\ Len(t) = Len(s) + 3 + Len(b)
  /\ t[1] = line("dashes") /\ t[Len(s) + 2] = line("dashes") /\ t[Len(s) + 3] = line("blank")
  /\ \A i \in 1..Len(s) : t[i + 1] = s[i]
  /\ \A i \in 1..Len(b) : t[Len(s) + 3 + i] = b[i]

LEMMA Layout ==
  ASSUME NEW s \in Seq(Line), NEW b \in Seq(Line)
  PROVE  Laid(<<line("dashes")>> \o s \o <<line("dashes"), line("blank")>> \o b, s, b)
<1>1. PICK d \in Line : d = line("dashes")
  BY Lines
<1>2. PICK e \in Line : e = line("blank")
  BY Lines
<1>3. PICK d1 \in Seq(Line) : d1 = <<d>> /\ Len(d1) = 1 /\ d1[1] = d
  <2>1. <<d>> \in Seq(Line) /\ Len(<<d>>) = 1 /\ <<d>>[1] = d
    BY FewLines
  <2> QED BY <2>1
<1>4. PICK d2 \in Seq(Line) : d2 = <<d, e>> /\ Len(d2) = 2 /\ d2[1] = d /\ d2[2] = e
  <2>1. <<d, e>> \in Seq(Line) /\ Len(<<d, e>>) = 2 /\ <<d, e>>[1] = d /\ <<d, e>>[2] = e
    BY FewLines
  <2> QED BY <2>1
<1>5. Len(s) \in Nat /\ Len(b) \in Nat
  BY LenProperties
<1>6. PICK t1 : t1 = d1 \o s
  OBVIOUS
<1>7. /\ t1 \in Seq(Line) /\ Len(t1) = 1 + Len(s)
      /\ \A i \in 1..(1 + Len(s)) : t1[i] = IF i <= 1 THEN d1[i] ELSE s[i - 1]
  BY <1>3, <1>6, ConcatProperties
<1>8. t1[1] = d
  <2>1. 1 \in 1..(1 + Len(s)) /\ 1 <= 1
    BY <1>5
  <2> QED BY <1>3, <1>7, <2>1
<1>9. ASSUME NEW i \in 1..Len(s) PROVE t1[i + 1] = s[i]
  <2>1. i + 1 \in 1..(1 + Len(s)) /\ ~(i + 1 <= 1) /\ (i + 1) - 1 = i
    BY <1>5
  <2> QED BY <1>7, <2>1
<1>10. PICK t2 : t2 = t1 \o d2
  OBVIOUS
<1>11. /\ t2 \in Seq(Line) /\ Len(t2) = Len(t1) + 2
       /\ \A i \in 1..(Len(t1) + 2) : t2[i] = IF i <= Len(t1) THEN t1[i] ELSE d2[i - Len(t1)]
  BY <1>4, <1>7, <1>10, ConcatProperties
<1>12. PICK k \in Nat : k = Len(t1) /\ k = 1 + Len(s)
  BY <1>5, <1>7
<1>13. \A i \in 1..k : t2[i] = t1[i]
  BY <1>11, <1>12
<1>14. t2[k + 1] = d /\ t2[k + 2] = e
  <2>1. k + 1 \in 1..(k + 2) /\ ~(k + 1 <= k) /\ (k + 1) - k = 1
    OBVIOUS
  <2>2. k + 2 \in 1..(k + 2) /\ ~(k + 2 <= k) /\ (k + 2) - k = 2
    OBVIOUS
  <2>3. \A i \in 1..(k + 2) : ~(i <= k) => t2[i] = d2[i - k]
    BY <1>11, <1>12
  <2>4. t2[k + 1] = d2[(k + 1) - k] /\ t2[k + 2] = d2[(k + 2) - k]
    BY <2>1, <2>2, <2>3
  <2> QED BY <2>1, <2>2, <2>4, <1>4
<1>15. PICK t : t = t2 \o b
  OBVIOUS
<1>16. /\ t \in Seq(Line) /\ Len(t) = Len(t2) + Len(b)
       /\ \A i \in 1..(Len(t2) + Len(b)) : t[i] = IF i <= Len(t2) THEN t2[i] ELSE b[i - Len(t2)]
  BY <1>11, <1>15, ConcatProperties
<1>17. Len(t2) = k + 2
  BY <1>11, <1>12
<1>18. \A i \in 1..(k + 2) : t[i] = t2[i]
  BY <1>16, <1>17, <1>5
<1>19. ASSUME NEW i \in 1..Len(b) PROVE t[(k + 2) + i] = b[i]
  <2>1. (k + 2) + i \in 1..((k + 2) + Len(b)) /\ ~((k + 2) + i <= k + 2) /\ ((k + 2) + i) - (k + 2) = i
    BY <1>5
  <2>2. \A j \in 1..((k + 2) + Len(b)) : ~(j <= k + 2) => t[j] = b[j - (k + 2)]
    BY <1>16, <1>17
  <2>3. t[(k + 2) + i] = b[((k + 2) + i) - (k + 2)]
    BY <2>1, <2>2
  <2> QED BY <2>1, <2>3
<1>20. t[1] = d
  <2>1. 1 \in 1..k /\ 1 \in 1..(k + 2)
    BY <1>5, <1>12
  <2> QED BY <2>1, <1>8, <1>13, <1>18
<1>21. t[k + 1] = d /\ t[k + 2] = e
  <2>1. k + 1 \in 1..(k + 2) /\ k + 2 \in 1..(k + 2)
    OBVIOUS
  <2> QED BY <2>1, <1>14, <1>18
<1>22. k + 1 = Len(s) + 2 /\ k + 2 = Len(s) + 3
  BY <1>5, <1>12
<1>23. ASSUME NEW i \in 1..Len(s) PROVE t[i + 1] = s[i]
  <2>1. i + 1 \in 1..k /\ i + 1 \in 1..(k + 2)
    BY <1>5, <1>12
  <2> QED BY <2>1, <1>9, <1>13, <1>18
<1>24. Len(t) = Len(s) + 3 + Len(b)
  BY <1>16, <1>17, <1>22
<1>25. t[Len(s) + 2] = d /\ t[Len(s) + 3] = e
  BY <1>21, <1>22
<1>26. ASSUME NEW i \in 1..Len(b) PROVE t[Len(s) + 3 + i] = b[i]
  BY <1>19, <1>22
<1>27. Laid(t, s, b)
  BY <1>1, <1>2, <1>16, <1>20, <1>23, <1>24, <1>25, <1>26 DEF Laid
<1>28. t = <<line("dashes")>> \o s \o <<line("dashes"), line("blank")>> \o b
  BY <1>1, <1>2, <1>3, <1>4, <1>6, <1>10, <1>15
<1> QED BY <1>27, <1>28

(* The frontmatter ends at the delimiter after it, and what is parsed is what
   was written. *)
LEMMA RoundTrip ==
  ASSUME NEW f \in Frontmatters, NEW b \in Seq(Line), IsTrimmed(b)
  PROVE  parse(write([frontmatter |-> f, body |-> b])) = {[frontmatter |-> f, body |-> b]}
<1>1. PICK s : s = to_string(f)
  OBVIOUS
<1>2. Plain(s) /\ from_str(s) = {f}
  BY <1>1, ToStringIsPlain, ReadBack
<1>3. PICK t : t = write([frontmatter |-> f, body |-> b])
  OBVIOUS
<1>4. s \in Seq(Line) /\ Len(s) \in {1, 2} /\ Len(b) \in Nat
  BY <1>2, LenProperties DEF Plain
<1>5. Laid(t, s, b)
  <2>1. t = <<line("dashes")>> \o s \o <<line("dashes"), line("blank")>> \o b
    BY <1>1, <1>3 DEF write
  <2> QED BY <1>4, <2>1, Layout
<1>6. PICK k \in {1, 2} : k = Len(s)
  BY <1>4
<1>7. /\ t \in Seq(Line) /\ Len(t) = k + 3 + Len(b) /\ t[1] = line("dashes")
      /\ t[k + 2] = line("dashes") /\ t[k + 3] = line("blank")
  BY <1>5, <1>6 DEF Laid
<1>8. PICK n \in Nat : n = Len(t)
  BY <1>7, <1>4
<1>9. IsDelimiter(t, 1) /\ IsDelimiter(t, k + 2)
  BY <1>7, Lines DEF IsDelimiter
<1>10. Closing(t) \in SUBSET Nat /\ k + 2 \in Closing(t)
  <2>1. k + 2 \in 2..Len(t)
    BY <1>4, <1>7
  <2>2. 2..Len(t) \in SUBSET Nat
    BY <1>8
  <2> QED BY <1>9, <2>1, <2>2 DEF Closing
<1>11. ASSUME NEW j \in Closing(t) PROVE k + 2 <= j
  <2>1. j \in 2..Len(t) /\ IsDelimiter(t, j) /\ j \in Nat
    BY <1>8 DEF Closing
  <2>2. SUFFICES ASSUME j < k + 2 PROVE FALSE
    BY <2>1
  <2>3. PICK i \in 1..Len(s) : j = i + 1
    <3>1. j - 1 \in 1..Len(s) /\ j = (j - 1) + 1
      BY <2>1, <2>2, <1>6
    <3> QED BY <3>1
  <2>4. t[j] = s[i]
    BY <1>5, <2>3 DEF Laid
  <2>5. s[i].kind # "dashes"
    BY <1>2 DEF Plain
  <2> QED BY <2>1, <2>4, <2>5 DEF IsDelimiter
<1>12. Min(Closing(t)) = k + 2 /\ Closing(t) # {}
  BY <1>10, <1>11, LeastIs
<1>13. PICK yaml : yaml = SubSeq(t, 2, k + 1)
  OBVIOUS
<1>14. yaml = s
  <2>1. /\ yaml \in Seq(Line) /\ Len(yaml) = k + 1 - 2 + 1
        /\ \A i \in 1..(k + 1 - 2 + 1) : yaml[i] = t[2 + i - 1]
    <3>1. \A i \in 2..(k + 1) : t[i] \in Line
      <4>1. \A i \in 2..(k + 1) : i \in 1..Len(t)
        BY <1>4, <1>7
      <4> QED BY <4>1, <1>7, ElementOfSeq
    <3>2. 2 \in Int /\ k + 1 \in Int /\ 2 <= k + 1
      OBVIOUS
    <3> QED BY <3>1, <3>2, <1>13, SubSeqProperties
  <2>2. Len(yaml) = Len(s)
    BY <2>1, <1>6
  <2>3. ASSUME NEW i \in 1..Len(yaml) PROVE yaml[i] = s[i]
    <3>1. i \in 1..Len(s) /\ i \in 1..(k + 1 - 2 + 1) /\ 2 + i - 1 = i + 1
      BY <2>2, <1>6
    <3>2. yaml[i] = t[2 + i - 1] /\ t[i + 1] = s[i]
      BY <2>1, <3>1, <1>5 DEF Laid
    <3> QED BY <3>1, <3>2
  <2> QED BY <2>1, <2>2, <2>3, <1>4, SeqEqual
<1>15. PICK rest : rest = SubSeq(t, k + 3, Len(t))
  OBVIOUS
<1>16. Trimmed(rest) = b
  <2>1. /\ rest \in Seq(Line) /\ Len(rest) = n - (k + 3) + 1
        /\ \A i \in 1..(n - (k + 3) + 1) : rest[i] = t[(k + 3) + i - 1]
    <3>1. \A i \in (k + 3)..n : t[i] \in Line
      <4>1. \A i \in (k + 3)..n : i \in 1..Len(t)
        BY <1>8
      <4> QED BY <4>1, <1>7, ElementOfSeq
    <3>2. n \in Int /\ k + 3 \in Int /\ k + 3 <= n
      BY <1>4, <1>7, <1>8
    <3>3. PICK a \in Int : a = k + 3
      BY <3>2
    <3>4. n \in Int /\ a <= n /\ \A i \in a..n : t[i] \in Line
      BY <3>1, <3>2, <3>3
    <3>5. /\ SubSeq(t, a, n) \in Seq(Line)
          /\ Len(SubSeq(t, a, n)) = IF a <= n THEN n - a + 1 ELSE 0
          /\ \A i \in 1..(n - a + 1) : SubSeq(t, a, n)[i] = t[a + i - 1]
      BY <3>4, SubSeqProperties
    <3>6. rest = SubSeq(t, a, n)
      BY <3>3, <1>8, <1>15
    <3> QED BY <3>3, <3>4, <3>5, <3>6
  <2>2. Len(rest) = Len(b) + 1 /\ n - (k + 3) + 1 = Len(b) + 1
    BY <2>1, <1>4, <1>7, <1>8
  <2>3. rest[1] = line("blank")
    <3>1. 1 \in 1..(n - (k + 3) + 1) /\ (k + 3) + 1 - 1 = k + 3
      BY <2>2, <1>4
    <3>2. rest[1] = t[(k + 3) + 1 - 1]
      BY <2>1, <3>1
    <3> QED BY <3>1, <3>2, <1>7
  <2>4. ASSUME NEW i \in 1..Len(b) PROVE rest[i + 1] = b[i]
    <3>1. i + 1 \in 1..(n - (k + 3) + 1) /\ (k + 3) + (i + 1) - 1 = Len(s) + 3 + i
      BY <2>2, <1>4, <1>6
    <3>2. rest[i + 1] = t[(k + 3) + (i + 1) - 1]
      BY <2>1, <3>1
    <3>3. t[Len(s) + 3 + i] = b[i]
      BY <1>5 DEF Laid
    <3> QED BY <3>1, <3>2, <3>3
  <2> QED BY <2>1, <2>2, <2>3, <2>4, BlankBefore
<1>17. split(t) = [fm_yaml |-> s, body |-> b]
  <2>1. (k + 2) - 1 = k + 1 /\ (k + 2) + 1 = k + 3
    OBVIOUS
  <2> QED BY <2>1, <1>12, <1>13, <1>14, <1>15, <1>16 DEF split
<1>18. t # <<>>
  <2>1. Len(t) # 0
    BY <1>4, <1>7
  <2>2. Len(<<>>) = 0
    OBVIOUS
  <2> QED BY <2>1, <2>2
<1>19. parse(t) = {[frontmatter |-> g, body |-> b] : g \in {f}}
  <2>1. PICK parts : parts = split(t)
    OBVIOUS
  <2>2. parts.fm_yaml = s /\ parts.body = b
    BY <2>1, <1>17
  <2>3. parse(t) = {[frontmatter |-> g, body |-> parts.body] : g \in from_str(parts.fm_yaml)}
    BY <2>1, <1>9, <1>12, <1>18 DEF parse
  <2> QED BY <2>2, <2>3, <1>2
<1> QED BY <1>3, <1>19

(* What is parsed from lines: a frontmatter, and a body that is lines, trimmed. *)
LEMMA ParseFacts ==
  ASSUME NEW t \in Seq(Line), NEW c \in parse(t)
  PROVE  \E f \in Frontmatters, b \in Seq(Line) : IsTrimmed(b) /\ c = [frontmatter |-> f, body |-> b]
<1>1. t # <<>> /\ IsDelimiter(t, 1) /\ Closing(t) # {}
  BY DEF parse
<1>2. Closing(t) \in SUBSET Nat /\ Len(t) \in Nat
  <2>1. Len(t) \in Nat
    BY LenProperties
  <2>2. 2..Len(t) \in SUBSET Nat
    BY <2>1
  <2> QED BY <2>1, <2>2 DEF Closing
<1>3. PICK m \in Nat : m = Min(Closing(t)) /\ m \in 2..Len(t)
  BY <1>1, <1>2, LeastExists DEF Closing
<1>4. PICK rest : rest = SubSeq(t, m + 1, Len(t))
  OBVIOUS
<1>5. rest \in Seq(Line)
  <2>1. \A i \in (m + 1)..Len(t) : t[i] \in Line
    <3>1. \A i \in (m + 1)..Len(t) : i \in 1..Len(t)
      BY <1>2
    <3> QED BY <3>1, ElementOfSeq
  <2>2. m + 1 \in Int /\ Len(t) \in Int
    BY <1>2
  <2> QED BY <2>1, <2>2, <1>4, SubSeqProperties
<1>6. PICK parts : parts = split(t)
  OBVIOUS
<1>7. parts.body = Trimmed(rest)
  BY <1>3, <1>4, <1>6 DEF split
<1>8. parse(t) = {[frontmatter |-> g, body |-> parts.body] : g \in from_str(parts.fm_yaml)}
  BY <1>1, <1>6 DEF parse
<1>9. PICK g \in from_str(parts.fm_yaml) : c = [frontmatter |-> g, body |-> parts.body]
  BY <1>8
<1>10. g \in Frontmatters
  BY DEF from_str
<1> QED BY <1>5, <1>7, <1>9, <1>10, TrimmedFacts

TextIsLines == text \in Seq(Line)

LEMMA PagesSurvive ==
  ASSUME TextIsLines
  PROVE  PagesSurviveWriting
<1>1. ASSUME NEW c \in parse(text) PROVE parse(write(c)) = {c}
  BY <1>1, ParseFacts, RoundTrip DEF TextIsLines
<1>2. ASSUME text # <<>>, Trimmed(text) = text, NEW f \in Frontmatters
      PROVE  parse(write([frontmatter |-> f, body |-> text])) = {[frontmatter |-> f, body |-> text]}
  BY <1>2, TrimmedIs, RoundTrip DEF TextIsLines
<1> QED BY <1>1, <1>2 DEF PagesSurviveWriting

(* Whatever text a page has (parser.rs:6), what is parsed from it is written
   and parsed again to the same concept, and any text that does not begin with
   a blank line is read back when it is written as a body. *)
THEOREM PagesRoundTrip == TextSpec => []PagesSurviveWriting
<1>1. TextInit => TextIsLines
  BY DEF TextInit, TextIsLines
<1>2. TextIsLines /\ [TextNext]_text => TextIsLines'
  <2> SUFFICES ASSUME TextIsLines, [TextNext]_text PROVE TextIsLines'
    OBVIOUS
  <2>1. ASSUME NEW l \in Line, Type(l) PROVE TextIsLines'
    BY <2>1, AppendProperties DEF Type, TextIsLines
  <2>2. CASE UNCHANGED text
    BY <2>2 DEF TextIsLines
  <2> QED BY <2>1, <2>2 DEF TextNext
<1> QED BY <1>1, <1>2, PagesSurvive, PTL DEF TextSpec
=============================================================================

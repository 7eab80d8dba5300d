----------------------------- MODULE WikiVectors -----------------------------
(* The vectors made of the wiki's pages, and the recommendation of a workflow
   to reuse (argos-knowledge/src/reindex.rs; argos-workflow-intelligence/src/
   vectorizer.rs, reindexer.rs, similarity.rs and recommend.rs;
   argos-storage/src/vector.rs).

   The pages are the truth and the vectors derived from them, each operation
   from the bundle as it has read it, while the wiki goes on as Wiki has it
   and the user may write a workflow's page by hand.  A vector is modelled as
   the page it was made of; similarity may rank any of a workflow's first. *)
EXTENDS Wiki

CONSTANTS
  Readers,    \* tasks that make vectors or recommend
  MaxEdits    \* bound on the pages written by hand

ASSUME EditAssumption == MaxEdits \in Nat

VARIABLES
  vectors,  \* InMemoryVectorStore: per path, the page its vector was made of
  work,     \* per reader, its operation and what it has read
  edits

Page == {"absent", "authored"} \cup Held
WorkflowPages == {"authored"} \cup Workflows

(* pages is the bundle that was read and left its paths still to embed; hit is
   the path ranked first, ranked what its vector was made of, and found the
   workflow recommended.  current is history: no page was written since the
   bundle was read, and nobody was embedding an older one. *)
Work == [kind : {"none", "all", "workflows", "vectorize", "recommend"},
         pc : {"idle", "embed", "read", "reindexed", "reuse", "create", "failed"},
         pages : [Paths -> Page], left : SUBSET Paths, skipped : BOOLEAN, current : BOOLEAN,
         hit : SUBSET Paths, ranked : Page, found : SUBSET Workflows]

VectorTypeOK ==
  /\ TypeOK
  /\ vectors \in [Paths -> Page] /\ work \in [Readers -> Work] /\ edits \in 0 .. MaxEdits

NoPages == [p \in Paths |-> "absent"]
Waiting == [kind |-> "none", pc |-> "idle", pages |-> NoPages, left |-> {}, skipped |-> FALSE, current |-> FALSE,
            hit |-> {}, ranked |-> "absent", found |-> {}]

VectorInit == Init /\ vectors = NoPages /\ work = [r \in Readers |-> Waiting] /\ edits = 0

Is(r, pc) == work[r].pc = pc
Free(r) == work[r].pc \notin {"embed", "read"}

(* ReindexOperation embeds every page; WorkflowReindexer and
   WorkflowVectorizer, those of workflows. *)
Embeds(kind) == IF kind = "all" THEN WorkflowPages \cup Sources ELSE WorkflowPages

ReadPages(r, kind) ==
  /\ Free(r)
  /\ work' = [work EXCEPT ![r] =
       IF Readable
       THEN [Waiting EXCEPT !.kind = kind, !.pc = "embed", !.pages = page,
                            !.left = {p \in Paths : page[p] \in Embeds(kind)},
                            !.current = \A q \in Readers : Is(q, "embed") => work[q].pages = page]
       ELSE [Waiting EXCEPT !.kind = kind, !.pc = "failed"]]
  /\ UNCHANGED <<vars, vectors, edits>>

(* Defect: A page that has a vector is not embedded again. *)
EmbedNew(r) ==
  /\ Is(r, "embed")
  /\ \E p \in work[r].left :
       /\ vectors' = [vectors EXCEPT ![p] = IF @ = "absent" THEN work[r].pages[p] ELSE @]
       /\ work' = [work EXCEPT ![r].left = @ \ {p}]
  /\ UNCHANGED <<vars, edits>>

(* embed_concept: embed, then upsert.  A page that fails is skipped by the
   two reindexers and ends vectorize_all. *)
Embed(r) ==
  /\ Is(r, "embed")
  /\ \E p \in work[r].left :
       \/ /\ vectors' = [vectors EXCEPT ![p] = work[r].pages[p]]
          /\ work' = [work EXCEPT ![r].left = @ \ {p}]
       \/ /\ work' = [work EXCEPT ![r] = IF @.kind = "vectorize" THEN [Waiting EXCEPT !.kind = "vectorize", !.pc = "failed"]
                                         ELSE [@ EXCEPT !.left = work[r].left \ {p}, !.skipped = TRUE]]
          /\ UNCHANGED vectors
  /\ UNCHANGED <<vars, edits>>

EndReindex(r) ==
  /\ Is(r, "embed") /\ work[r].left = {}
  /\ work' = [work EXCEPT ![r].pc = "reindexed", ![r].pages = NoPages]
  /\ UNCHANGED <<vars, vectors, edits>>

(* recommend: the best hit among the workflows, if it meets the threshold. *)
Rank(r) ==
  /\ Free(r)
  /\ \/ work' = [work EXCEPT ![r] = [Waiting EXCEPT !.kind = "recommend", !.pc = "create"]]
     \/ \E p \in Paths :
          /\ vectors[p] \in WorkflowPages
          /\ work' = [work EXCEPT ![r] = [Waiting EXCEPT !.kind = "recommend", !.pc = "read", !.hit = {p}, !.ranked = vectors[p]]]
  /\ UNCHANGED <<vars, vectors, edits>>

(* extract_workflow_ref: only the page of an n8n workflow has a resource. *)
extract_workflow_ref(p) == {page[p]} \cap Workflows

(* read_concept of the best hit, which may have changed since it was embedded. *)
ReadHit(r) ==
  /\ Is(r, "read")
  /\ \E p \in work[r].hit :
       work' = [work EXCEPT ![r].pc = CASE page[p] \in {"absent", "torn"} -> "failed"
                                        [] extract_workflow_ref(p) # {} -> "reuse"
                                        [] OTHER -> "create",
                            ![r].found = extract_workflow_ref(p)]
  /\ UNCHANGED <<vars, vectors, edits>>

(* What is written makes what was read no longer current. *)
Outdated == IF page' = page THEN UNCHANGED work ELSE work' = [r \in Readers |-> [work[r] EXCEPT !.current = FALSE]]

(* "Manual wiki edits": the user writes a workflow's page that n8n knows
   nothing of. *)
WriteByHand ==
  /\ edits < MaxEdits /\ edits' = edits + 1
  /\ \E w \in Workflows : page' = [page EXCEPT ![slug_path[w]] = "authored"]
  /\ Outdated
  /\ UNCHANGED <<raw, index, logged, op, history, vectors>>

Read(r) == (\E kind \in {"all", "workflows", "vectorize"} : ReadPages(r, kind)) \/ Embed(r) \/ EndReindex(r) \/ Rank(r) \/ ReadHit(r)

VectorNext ==
  \/ Next /\ Outdated /\ UNCHANGED <<vectors, edits>>
  \/ WriteByHand
  \/ \E r \in Readers : Read(r)

VectorSpec == VectorInit /\ [][VectorNext]_<<vars, vectors, work, edits>>
-----------------------------------------------------------------------------
(* A reindex that skipped nothing has made a vector of every page it is for,
   as the page is, until a page is written again. *)
FreshAfterReindex ==
  \A r \in Readers : Is(r, "reindexed") /\ ~work[r].skipped /\ work[r].current =>
    \A p \in Paths : page[p] \in Embeds(work[r].kind) => vectors[p] = page[p]

(* The path with a workflow's short id is no other workflow's. *)
OwnIdPaths == \A w, u \in Workflows : w # u => id_path[w] \notin {slug_path[u], id_path[u]}

(* If the page of an n8n workflow was ranked first, the workflow that is
   recommended is that one, however long ago its vector was made: a path is
   only ever one workflow's, unless imports overlap or the path with a short id
   is another's, which then loses its page (ImportedWorkflowsStay). *)
ReuseIsWhatWasRanked ==
  OwnIdPaths /\ "import" \notin overlap => \A r \in Readers :
    Is(r, "reuse") /\ work[r].ranked \in Workflows => work[r].found = {work[r].ranked}
=============================================================================
